--------------------- MODULE ScreenConnectionListProofs ---------------------
(***************************************************************************)
(* Proofs about the list of connections and its screen, for every set of   *)
(* connections, every size of the window and any number of changes, keys   *)
(* and answers.                                                            *)
(***************************************************************************)
EXTENDS ScreenConnectionList, FiniteSetTheorems, FunctionTheorems, WellFoundedInduction, TLAPS

-----------------------------------------------------------------------------
(***************************************************************************)
(* The types.                                                              *)
(***************************************************************************)
Items == [conn : Conns, stale : SUBSET Fields]

ListType ==
    [list : Seq(Items), targetSize : Nat, scrollOffset : Nat, cursorPos : Nat,
     detail : Conns \cup {None}, detailStale : SUBSET Fields, sortMode : SortModes,
     ascending : BOOLEAN, refresh : BOOLEAN]

DataType ==
    [storage : SUBSET Conns, traffic : [Conns -> Nat], name : [Addresses \cup Ports -> Nat]]

-----------------------------------------------------------------------------
(***************************************************************************)
(* Numbers, sets and sequences.                                            *)
(***************************************************************************)
\* A nonempty set of naturals has a least element.
LEMMA LeastNatural ==
    ASSUME NEW U, U \subseteq Nat, U # {}
    PROVE  \E x \in U : \A y \in U : x <= y
<1> DEFINE Less == {ss \in Nat \X Nat : ss[1] < ss[2]}
<1>1. IsWellFoundedOn(Less, Nat)
  BY NatLessThanWellFounded DEF OpToRel
<1>2. PICK x \in U : \A y \in U : ~(<<y, x>> \in Less)
  <2> HIDE DEF Less
  <2> QED BY <1>1, WFMin
<1>3. \A y \in U : x \in Nat /\ y \in Nat /\ ~(y < x)
  BY <1>2
<1>4. \A y \in U : x <= y
  BY <1>3
<1> QED BY <1>2, <1>4

\* Min and Max of two numbers.
LEMMA MinMax ==
    ASSUME NEW a \in Int, NEW b \in Int
    PROVE  /\ Min({a, b}) = IF a <= b THEN a ELSE b
           /\ Max({a, b}) = IF a <= b THEN b ELSE a
<1>1. Min({a, b}) = IF a <= b THEN a ELSE b
  <2>1. \E x \in {a, b} : \A y \in {a, b} : x <= y
    OBVIOUS
  <2>2. Min({a, b}) \in {a, b} /\ \A y \in {a, b} : Min({a, b}) <= y
    BY <2>1, Zenon DEF Min
  <2> QED BY <2>2
<1>2. Max({a, b}) = IF a <= b THEN b ELSE a
  <2>1. \E x \in {a, b} : \A y \in {a, b} : x >= y
    OBVIOUS
  <2>2. Max({a, b}) \in {a, b} /\ \A y \in {a, b} : Max({a, b}) >= y
    BY <2>1, Zenon DEF Max
  <2> QED BY <2>2
<1> QED BY <1>1, <1>2

\* t is s, a sequence of elements of S, with e at position n.
IsInsertion(t, S, s, n, e) ==
    /\ t \in Seq(S) /\ Len(t) = Len(s) + 1
    /\ \A i \in 1..Len(s) + 1 : t[i] = IF i < n THEN s[i] ELSE IF i = n THEN e ELSE s[i - 1]

\* InsertAt, by positions.
LEMMA InsertAtFacts ==
    ASSUME NEW S, NEW s \in Seq(S), NEW n \in 1..Len(s) + 1, NEW e \in S
    PROVE  IsInsertion(InsertAt(s, n, e), S, s, n, e)
<1>0. Len(s) \in Nat
  OBVIOUS
<1>1. PICK a : a = SubSeq(s, 1, n - 1)
  OBVIOUS
<1>2. a \in Seq(S) /\ Len(a) = n - 1 /\ \A i \in 1..n - 1 : a[i] = s[i]
  BY <1>1
<1>3. PICK b : b = SubSeq(s, n, Len(s))
  OBVIOUS
<1>4. b \in Seq(S) /\ Len(b) = Len(s) - n + 1 /\ \A i \in 1..Len(s) - n + 1 : b[i] = s[n + i - 1]
  BY <1>3
<1>5. PICK c : c = a \o <<e>>
  OBVIOUS
<1>6. c \in Seq(S) /\ Len(c) = n /\ \A i \in 1..n : c[i] = IF i < n THEN s[i] ELSE e
  BY <1>2, <1>5
<1>7. InsertAt(s, n, e) = c \o b
  BY <1>1, <1>3, <1>5 DEF InsertAt
<1> HIDE DEF InsertAt
<1>8. PICK r : r = c \o b
  OBVIOUS
<1>9. r \in Seq(S) /\ Len(r) = Len(s) + 1
      /\ \A i \in 1..Len(s) + 1 : r[i] = IF i <= n THEN c[i] ELSE b[i - n]
  <2>1. \A i \in 1..Len(c) + Len(b) : r[i] = IF i <= Len(c) THEN c[i] ELSE b[i - Len(c)]
    BY ONLY <1>4, <1>6, <1>8
  <2>0. c \in Seq(S) /\ b \in Seq(S)
    BY ONLY <1>4, <1>6
  <2>2. r \in Seq(S) /\ Len(r) = Len(c) + Len(b)
    BY ONLY <2>0, <1>8
  <2>3. Len(c) = n /\ Len(c) + Len(b) = Len(s) + 1
    BY ONLY <1>0, <1>4, <1>6, n \in 1..Len(s) + 1
  <2> QED BY ONLY <2>1, <2>2, <2>3
<1>10. ASSUME NEW i \in 1..Len(s) + 1
       PROVE  r[i] = IF i < n THEN s[i] ELSE IF i = n THEN e ELSE s[i - 1]
  <2>1. CASE i <= n
    BY <1>0, <1>6, <1>9, <2>1
  <2>2. CASE i > n
    <3>1. i - n \in 1..Len(s) - n + 1 /\ n + (i - n) - 1 = i - 1
      BY <1>0, <2>2
    <3> QED BY <1>0, <1>4, <1>9, <2>2, <3>1
  <2> QED BY <1>0, <2>1, <2>2
<1> QED BY <1>7, <1>8, <1>9, <1>10 DEF IsInsertion

\* RemoveAt, by positions.
LEMMA RemoveAtFacts ==
    ASSUME NEW S, NEW s \in Seq(S), NEW n \in 1..Len(s)
    PROVE  /\ RemoveAt(s, n) \in Seq(S) /\ Len(RemoveAt(s, n)) = Len(s) - 1
           /\ \A i \in 1..Len(s) - 1 : RemoveAt(s, n)[i] = IF i < n THEN s[i] ELSE s[i + 1]
<1>0. Len(s) \in Nat
  OBVIOUS
<1>1. PICK a : a = SubSeq(s, 1, n - 1)
  OBVIOUS
<1>2. a \in Seq(S) /\ Len(a) = n - 1 /\ \A i \in 1..n - 1 : a[i] = s[i]
  BY <1>1
<1>3. PICK b : b = SubSeq(s, n + 1, Len(s))
  OBVIOUS
<1>4. b \in Seq(S) /\ Len(b) = Len(s) - n /\ \A i \in 1..Len(s) - n : b[i] = s[n + i]
  BY <1>3
<1>5. PICK r : r = a \o b
  OBVIOUS
<1>6. RemoveAt(s, n) = r
  BY <1>1, <1>3, <1>5 DEF RemoveAt
<1>7. r \in Seq(S) /\ Len(r) = Len(s) - 1
      /\ \A i \in 1..Len(s) - 1 : r[i] = IF i < n THEN a[i] ELSE b[i - n + 1]
  <2>1. \A i \in 1..Len(a) + Len(b) : r[i] = IF i <= Len(a) THEN a[i] ELSE b[i - Len(a)]
    BY ONLY <1>2, <1>4, <1>5
  <2>0. a \in Seq(S) /\ b \in Seq(S)
    BY ONLY <1>2, <1>4
  <2>2. r \in Seq(S) /\ Len(r) = Len(a) + Len(b)
    BY ONLY <2>0, <1>5
  <2>3. Len(a) = n - 1 /\ Len(a) + Len(b) = Len(s) - 1
    BY ONLY <1>0, <1>2, <1>4, n \in 1..Len(s)
  <2>4. \A i \in 1..Len(s) - 1 : (i <= n - 1 <=> i < n) /\ i - (n - 1) = i - n + 1
    BY ONLY <1>0, n \in 1..Len(s)
  <2> QED BY ONLY <2>1, <2>2, <2>3, <2>4
<1>8. ASSUME NEW i \in 1..Len(s) - 1 PROVE r[i] = IF i < n THEN s[i] ELSE s[i + 1]
  <2>1. CASE i < n
    BY <1>0, <1>2, <1>7, <2>1
  <2>2. CASE i >= n
    <3>1. i - n + 1 \in 1..Len(s) - n /\ n + (i - n + 1) = i + 1
      BY <1>0, <2>2
    <3> QED BY <1>0, <1>4, <1>7, <2>2, <3>1
  <2> QED BY <1>0, <2>1, <2>2
<1> QED BY <1>6, <1>7, <1>8

\* A set of positions without gaps is counted by its last one.
LEMMA PrefixSet ==
    ASSUME NEW n \in Nat, NEW S, S \subseteq 1..n, \A j \in S : \A i \in 1..j : i \in S
    PROVE  Cardinality(S) \in 0..n /\ S = 1..Cardinality(S)
<1> DEFINE U == {k \in Nat : \A i \in S : i <= k}
<1>1. n \in U
  OBVIOUS
<1>2. PICK k \in U : \A y \in U : k <= y
  <2>1. U \subseteq Nat /\ U # {}
    BY <1>1
  <2> HIDE DEF U
  <2> QED BY <2>1, LeastNatural
<1>3. k \in Nat /\ k <= n /\ \A i \in S : i <= k
  BY <1>1, <1>2
<1>4. k # 0 => k \in S
  <2>1. SUFFICES ASSUME k # 0, k \notin S PROVE FALSE
    OBVIOUS
  <2>2. k - 1 \in Nat /\ \A i \in S : i <= k - 1
    BY <1>3, <2>1
  <2>3. k - 1 \in U
    BY <2>2
  <2> QED BY <1>2, <1>3, <2>3
<1>5. S = 1..k
  <2>1. S \subseteq 1..k
    BY <1>3
  <2>2. ASSUME NEW i \in 1..k PROVE i \in S
    BY <1>3, <1>4
  <2> QED BY <2>1, <2>2
<1>6. Cardinality(1..k) = k
  BY <1>3, FS_Interval
<1> QED BY <1>3, <1>5, <1>6

\* What is in order from one position to the next is in order.
LEMMA AdjacentSorted ==
    ASSUME NEW n \in Nat, NEW f, \A i \in 1..n : f[i] \in Int, \A i \in 1..n - 1 : f[i] <= f[i + 1]
    PROVE  \A i, j \in 1..n : i < j => f[i] <= f[j]
<1>1. SUFFICES ASSUME NEW i \in 1..n, NEW j0 \in 1..n, i < j0, ~(f[i] <= f[j0]) PROVE FALSE
  OBVIOUS
<1> DEFINE U == {j \in 1..n : i < j /\ ~(f[i] <= f[j])}
<1>2. PICK j \in U : \A y \in U : j <= y
  <2>1. U \subseteq Nat /\ U # {}
    BY <1>1
  <2> HIDE DEF U
  <2> QED BY <2>1, LeastNatural
<1>3. j \in 1..n /\ i < j /\ ~(f[i] <= f[j])
  BY <1>2
<1>4. j - 1 \in 1..n - 1 /\ j - 1 \in 1..n /\ (j - 1) + 1 = j
  BY <1>3
<1>5. f[j - 1] <= f[j]
  BY <1>4
<1>6. f[i] <= f[j - 1]
  <2>1. CASE j - 1 = i
    BY <2>1
  <2>2. CASE i < j - 1
    <3>1. j - 1 \notin U
      BY <1>2, <1>3
    <3> QED BY <1>4, <2>2, <3>1
  <2> QED BY <1>3, <2>1, <2>2
<1> QED BY <1>3, <1>4, <1>5, <1>6

\* The orders of a finite set: each element is at one position.
LEMMA OrderFacts ==
    ASSUME NEW S, IsFiniteSet(S), NEW p \in SetToSeqs(S)
    PROVE  /\ p \in Seq(S) /\ Len(p) = Cardinality(S) /\ Len(p) \in Nat
           /\ \A i \in 1..Len(p) : p[i] \in S
           /\ \A i, j \in 1..Len(p) : i # j => p[i] # p[j]
           /\ \A c \in S : \E i \in 1..Len(p) : p[i] = c
<1>1. PICK n : n = Cardinality(S)
  OBVIOUS
<1>2. n \in Nat
  BY <1>1, FS_CardinalityType
<1>3. p \in [1..n -> S] /\ \A i, j \in 1..n : i # j => p[i] # p[j]
  BY <1>1 DEF SetToSeqs
<1>4. p \in Seq(S) /\ Len(p) = n
  BY <1>2, <1>3
<1>5. p \in Injection(1..n, S)
  BY <1>3 DEF Injection, IsInjective
<1>6. IsFiniteSet(1..n) /\ Cardinality(1..n) = n
  BY <1>2, FS_Interval
<1>7. p \in Surjection(1..n, S)
  BY <1>1, <1>5, <1>6, FS_Injection
<1>8. \A c \in S : \E i \in 1..n : p[i] = c
  BY <1>7 DEF Surjection
<1> QED BY <1>1, <1>2, <1>3, <1>4, <1>8

\* And if the set is not empty there is a first one.
LEMMA FirstFacts ==
    ASSUME NEW S, IsFiniteSet(S), S # {}, NEW p \in SetToSeqs(S)
    PROVE  Head(p) \in S
<1>1. Cardinality(S) # 0 /\ Cardinality(S) \in Nat
  BY FS_EmptySet, FS_CardinalityType
<1>2. p \in Seq(S) /\ Len(p) # 0 /\ Len(p) \in Nat
  BY <1>1, OrderFacts
<1> QED BY <1>2

-----------------------------------------------------------------------------
(***************************************************************************)
(* The list: what holds whenever no operation is under way.                *)
(***************************************************************************)
\* No connection has two items, ...
NoTwice(l) == \A i, j \in DOMAIN l.list : l.list[i].conn = l.list[j].conn => i = j

\* ... each is stored, ...
Stored(l, d) == \A i \in DOMAIN l.list : l.list[i].conn \in d.storage

\* ... they are in the order of their keys, ...
Key(l, d, c) == IF l.ascending THEN updateCompareFunc(l, d, c) ELSE -updateCompareFunc(l, d, c)

Sorted(l, d) ==
    \A i, j \in DOMAIN l.list : i < j => Key(l, d, l.list[i].conn) <= Key(l, d, l.list[j].conn)

\* ... and none is beyond the window.
Bounded(l) == Len(l.list) <= l.scrollOffset + l.targetSize

ListOK(l, d) ==
    l \in ListType /\ NoTwice(l) /\ Stored(l, d) /\ Sorted(l, d) /\ Bounded(l)

\* A visible item is drawn again only if m_isRefreshRequired says so.
Marked(l) == l.refresh = TRUE \/ \A i \in DOMAIN l.list : i > l.scrollOffset => l.list[i].stale = {}

\* The list fills the window, or every connection is in it.
Full(l, d) ==
    Len(l.list) = l.scrollOffset + l.targetSize \/ \A c \in d.storage : containsItem(l, c)

\* m has the window and the order of l, ...
SameMode(l, m) ==
    /\ m.targetSize = l.targetSize /\ m.scrollOffset = l.scrollOffset
    /\ m.sortMode = l.sortMode /\ m.ascending = l.ascending

\* ... or differs from l in the list only.
Same(l, m) ==
    /\ SameMode(l, m)
    /\ m.cursorPos = l.cursorPos /\ m.detail = l.detail /\ m.detailStale = l.detailStale

\* And in the list only by what is to be drawn.
SameConns(l, m) ==
    DOMAIN m.list = DOMAIN l.list /\ \A i \in DOMAIN l.list : m.list[i].conn = l.list[i].conn

\* The item at position i is drawn from scratch, or it is the same one in the
\* same row, no less is to be drawn of it, and the cursor did not come or go.
KeepsRow(l, m, i) ==
    \/ m.list[i].stale = Fields
    \/ /\ m.scrollOffset = l.scrollOffset /\ i \in DOMAIN l.list
       /\ m.list[i].conn = l.list[i].conn /\ l.list[i].stale \subseteq m.list[i].stale
       /\ i = l.scrollOffset + l.cursorPos + 1 <=> i = m.scrollOffset + m.cursorPos + 1

KeepsRows(l, m) == \A i \in DOMAIN m.list : i > m.scrollOffset => KeepsRow(l, m, i)

\* The fields of a list.
LEMMA ListFields ==
    ASSUME NEW l \in ListType
    PROVE  /\ l.list \in Seq(Items) /\ Len(l.list) \in Nat /\ DOMAIN l.list = 1..Len(l.list)
           /\ l.targetSize \in Nat /\ l.scrollOffset \in Nat /\ l.cursorPos \in Nat
           /\ l.detail \in Conns \cup {None} /\ l.detailStale \subseteq Fields
           /\ l.sortMode \in SortModes /\ l.ascending \in BOOLEAN /\ l.refresh \in BOOLEAN
           /\ \A i \in DOMAIN l.list :
                l.list[i] \in Items /\ l.list[i].conn \in Conns /\ l.list[i].stale \subseteq Fields
<1>1. /\ l.list \in Seq(Items)
      /\ l.targetSize \in Nat /\ l.scrollOffset \in Nat /\ l.cursorPos \in Nat
      /\ l.detail \in Conns \cup {None} /\ l.detailStale \subseteq Fields
      /\ l.sortMode \in SortModes /\ l.ascending \in BOOLEAN /\ l.refresh \in BOOLEAN
  BY DEF ListType
<1>2. Len(l.list) \in Nat /\ DOMAIN l.list = 1..Len(l.list) /\ \A i \in DOMAIN l.list : l.list[i] \in Items
  BY <1>1
<1>3. \A x \in Items : x.conn \in Conns /\ x.stale \subseteq Fields
  BY DEF Items
<1> QED BY <1>1, <1>2, <1>3

\* An operation that changes the list.
LEMMA WithList ==
    ASSUME NEW l \in ListType, NEW s \in Seq(Items), NEW r \in BOOLEAN, NEW m,
           m = [l EXCEPT !.list = s, !.refresh = r]
    PROVE  m \in ListType /\ Same(l, m) /\ m.list = s /\ m.refresh = r
BY DEF ListType, Same, SameMode

\* An operation that changes the list and nothing else.
LEMMA OnlyList ==
    ASSUME NEW l \in ListType, NEW s \in Seq(Items), NEW m, m = [l EXCEPT !.list = s]
    PROVE  m \in ListType /\ Same(l, m) /\ m.list = s /\ m.refresh = l.refresh
BY DEF ListType, Same, SameMode

\* A flag that is set.
LEMMA Refreshed ==
    ASSUME NEW l \in ListType, NEW m, m = [l EXCEPT !.refresh = TRUE]
    PROVE  m \in ListType /\ Same(l, m) /\ m.list = l.list /\ m.refresh = TRUE
BY DEF ListType, Same, SameMode

\* Keys are numbers, and compareFunc compares them.
LEMMA Compare ==
    ASSUME NEW l \in ListType, NEW d \in DataType, NEW a \in Conns, NEW b \in Conns
    PROVE  /\ Key(l, d, a) \in Int /\ Key(l, d, b) \in Int
           /\ compareFunc(l, d, a, b) <=> Key(l, d, a) < Key(l, d, b)
<1>1. ASSUME NEW c \in Conns PROVE updateCompareFunc(l, d, c) \in Int
  <2>1. addressKey(c) \in Int
    BY ConnsAssumption DEF addressKey
  <2>2. Dst[c] \in Addresses \cup Ports /\ Port[c] \in Addresses \cup Ports
    BY DEF Addresses, Ports
  <2>3. hostnameKey(d, c) \in Int /\ serviceKey(d, c) \in Int /\ trafficKey(d, c) \in Int
    BY <2>2 DEF DataType, hostnameKey, serviceKey, trafficKey
  <2>4. l.sortMode \in SortModes
    BY ListFields
  <2> QED BY <2>1, <2>3, <2>4 DEF updateCompareFunc, SortModes
<1>2. PICK x, y : x = updateCompareFunc(l, d, a) /\ y = updateCompareFunc(l, d, b)
  OBVIOUS
<1>3. x \in Int /\ y \in Int
  BY <1>1, <1>2
<1>4. compareFunc(l, d, a, b) <=> IF l.ascending THEN x < y ELSE y < x
  BY <1>2 DEF compareFunc
<1>5. Key(l, d, a) = (IF l.ascending THEN x ELSE -x) /\ Key(l, d, b) = (IF l.ascending THEN y ELSE -y)
  BY <1>2 DEF Key
<1> QED BY <1>3, <1>4, <1>5

\* The keys depend on the sort mode only.
LEMMA SameKey ==
    ASSUME NEW l, NEW m, SameMode(l, m), NEW d, NEW c
    PROVE  Key(m, d, c) = Key(l, d, c)
BY DEF SameMode, Key, updateCompareFunc

\* What is to be drawn does not matter to the order.
LEMMA SameConnsOK ==
    ASSUME NEW l \in ListType, NEW m \in ListType, NEW d, SameMode(l, m), SameConns(l, m)
    PROVE  /\ NoTwice(l) => NoTwice(m)
           /\ Stored(l, d) => Stored(m, d)
           /\ Sorted(l, d) => Sorted(m, d)
           /\ Bounded(l) => Bounded(m)
           /\ Full(l, d) => Full(m, d)
           /\ Len(m.list) = Len(l.list)
           /\ \A c : containsItem(m, c) <=> containsItem(l, c)
<1>1. Len(m.list) = Len(l.list)
  <2>1. m.list \in Seq(Items) /\ l.list \in Seq(Items)
    BY ListFields
  <2> QED BY <2>1 DEF SameConns
<1>2. \A c : containsItem(m, c) <=> containsItem(l, c)
  BY DEF SameConns, containsItem
<1>3. Sorted(l, d) => Sorted(m, d)
  BY SameKey DEF SameConns, Sorted
<1> QED BY <1>1, <1>2, <1>3 DEF SameConns, SameMode, NoTwice, Stored, Bounded, Full

\* Rows that are kept twice are kept.
LEMMA KeepsTransitive ==
    ASSUME NEW l \in ListType, NEW m \in ListType, NEW n \in ListType, KeepsRows(l, m), KeepsRows(m, n)
    PROVE  KeepsRows(l, n)
<1>1. SUFFICES ASSUME NEW i \in DOMAIN n.list, i > n.scrollOffset, n.list[i].stale # Fields
               PROVE  KeepsRow(l, n, i)
  BY DEF KeepsRows, KeepsRow
<1>2. /\ n.scrollOffset = m.scrollOffset /\ i \in DOMAIN m.list
      /\ n.list[i].conn = m.list[i].conn /\ m.list[i].stale \subseteq n.list[i].stale
      /\ i = m.scrollOffset + m.cursorPos + 1 <=> i = n.scrollOffset + n.cursorPos + 1
  BY <1>1 DEF KeepsRows, KeepsRow
<1>3. n.list[i].stale \subseteq Fields
  BY ListFields
<1>4. m.list[i].stale # Fields
  BY <1>1, <1>2, <1>3
<1>5. KeepsRow(l, m, i)
  BY <1>1, <1>2 DEF KeepsRows
<1> QED BY <1>2, <1>4, <1>5 DEF KeepsRow

\* Nothing happened.
LEMMA KeepsItself ==
    ASSUME NEW l
    PROVE  KeepsRows(l, l) /\ Same(l, l) /\ SameConns(l, l)
BY DEF KeepsRows, KeepsRow, Same, SameMode, SameConns

\* m draws F of the items at the positions W again.
MarkedAt(l, m, F, W) ==
    \A i \in DOMAIN l.list :
        m.list[i].stale = IF i \in W THEN l.list[i].stale \cup F ELSE l.list[i].stale

\* Mark, by positions.
LEMMA MarkFacts ==
    ASSUME NEW l \in ListType, NEW F, F \subseteq Fields, NEW W, NEW m, m = Mark(l, F, W)
    PROVE  /\ m \in ListType /\ Same(l, m) /\ SameConns(l, m) /\ m.refresh = l.refresh
           /\ MarkedAt(l, m, F, W)
<1>1. PICK s : s = [i \in DOMAIN l.list |->
                      IF i \in W THEN [l.list[i] EXCEPT !.stale = @ \cup F] ELSE l.list[i]]
  OBVIOUS
<1>2. m = [l EXCEPT !.list = s]
  BY <1>1 DEF Mark
<1>3. ASSUME NEW x \in Items, NEW y, y = [x EXCEPT !.stale = @ \cup F]
      PROVE  y \in Items /\ y.conn = x.conn /\ y.stale = x.stale \cup F
  BY <1>3 DEF Items
<1>4. l.list \in Seq(Items) /\ Len(l.list) \in Nat /\ DOMAIN l.list = 1..Len(l.list)
      /\ \A i \in DOMAIN l.list : l.list[i] \in Items
  BY ListFields
<1>5. ASSUME NEW i \in DOMAIN l.list
      PROVE  /\ s[i] \in Items /\ s[i].conn = l.list[i].conn
             /\ s[i].stale = IF i \in W THEN l.list[i].stale \cup F ELSE l.list[i].stale
  BY <1>1, <1>3, <1>4
<1>6. s \in Seq(Items) /\ DOMAIN s = DOMAIN l.list
  <2>1. DOMAIN s = 1..Len(l.list) /\ s = [i \in 1..Len(l.list) |-> s[i]]
    BY <1>1, <1>4
  <2>2. \A i \in 1..Len(l.list) : s[i] \in Items
    BY <1>4, <1>5
  <2>3. s \in [1..Len(l.list) -> Items]
    BY ONLY <2>1, <2>2
  <2>4. s \in Seq(Items)
    BY ONLY <1>4, <2>3
  <2> QED BY <1>4, <2>1, <2>4
<1>7. m \in ListType /\ Same(l, m) /\ m.list = s /\ m.refresh = l.refresh
  BY <1>2, <1>6, OnlyList
<1> QED BY <1>5, <1>6, <1>7 DEF SameConns, MarkedAt

\* Mark and set the flag: the list stays in order, and no row that is not marked changes.
LEMMA MarkAndRefresh ==
    ASSUME NEW l \in ListType, NEW F, F \subseteq Fields, NEW W, NEW m,
           m = [Mark(l, F, W) EXCEPT !.refresh = TRUE]
    PROVE  /\ m \in ListType /\ Same(l, m) /\ SameConns(l, m) /\ m.refresh = TRUE
           /\ KeepsRows(l, m) /\ Marked(m)
           /\ MarkedAt(l, m, F, W)
<1>1. PICK k : k = Mark(l, F, W)
  OBVIOUS
<1>2. /\ k \in ListType /\ Same(l, k) /\ SameConns(l, k)
      /\ MarkedAt(l, k, F, W)
  BY <1>1, MarkFacts
<1>3. m \in ListType /\ Same(k, m) /\ m.list = k.list /\ m.refresh = TRUE
  BY <1>1, <1>2, Refreshed
<1>4. Same(l, m) /\ SameConns(l, m)
  BY <1>2, <1>3 DEF Same, SameMode, SameConns
<1>5. KeepsRows(l, m)
  BY <1>2, <1>3, <1>4 DEF KeepsRows, KeepsRow, Same, SameMode, SameConns, MarkedAt
<1>6. MarkedAt(l, m, F, W)
  BY <1>2, <1>3 DEF MarkedAt
<1> QED BY <1>3, <1>4, <1>5, <1>6 DEF Marked

-----------------------------------------------------------------------------
(***************************************************************************)
(* The window.                                                             *)
(***************************************************************************)
\* All visible items are drawn again.
AllFresh(l) == \A i \in DOMAIN l.list : i > l.scrollOffset => l.list[i].stale = Fields

\* Then it does not matter what was drawn before.
LEMMA FreshKeeps ==
    ASSUME NEW l, NEW m, AllFresh(m)
    PROVE  KeepsRows(l, m)
BY DEF AllFresh, KeepsRows, KeepsRow

\* getSize and what is computed from it.
LEMMA Window ==
    ASSUME NEW l \in ListType
    PROVE  /\ getSize(l) \in Nat /\ getCursorMaxPos(l) \in Nat
           /\ getSize(l) = (IF Len(l.list) > l.scrollOffset THEN Len(l.list) - l.scrollOffset ELSE 0)
           /\ getCursorMaxPos(l) = (IF getSize(l) > 0 THEN getSize(l) - 1 ELSE 0)
           /\ Visible(l) = {i \in DOMAIN l.list : i > l.scrollOffset}
<1>1. Len(l.list) \in Nat /\ l.scrollOffset \in Nat /\ DOMAIN l.list = 1..Len(l.list)
  BY ListFields
<1>2. getSize(l) \in Nat
  BY <1>1 DEF getSize
<1>3. Visible(l) = {i \in DOMAIN l.list : i > l.scrollOffset}
  BY <1>1 DEF Visible, getListBeginIt
<1> QED BY <1>1, <1>2, <1>3 DEF getSize, getCursorMaxPos

\* What operations that only mark have in common.
Marks(l, m) == m \in ListType /\ Same(l, m) /\ SameConns(l, m) /\ (Marked(l) => Marked(m)) /\ KeepsRows(l, m)

\* invalidateAllVisible
LEMMA AllVisible ==
    ASSUME NEW l \in ListType, NEW m, m = invalidateAllVisible(l)
    PROVE  Marks(l, m) /\ m.refresh = TRUE /\ AllFresh(m)
<1>1. /\ m \in ListType /\ Same(l, m) /\ SameConns(l, m) /\ m.refresh = TRUE
      /\ KeepsRows(l, m) /\ Marked(m) /\ MarkedAt(l, m, Fields, Visible(l))
  BY MarkAndRefresh DEF invalidateAllVisible
<1>2. AllFresh(m)
  <2>1. SUFFICES ASSUME NEW i \in DOMAIN m.list, i > m.scrollOffset PROVE m.list[i].stale = Fields
    BY DEF AllFresh
  <2>2. i \in DOMAIN l.list /\ i > l.scrollOffset
    BY <1>1, <2>1 DEF SameConns, Same, SameMode
  <2>3. i \in Visible(l) /\ l.list[i].stale \subseteq Fields
    BY <2>2, Window, ListFields
  <2> QED BY <1>1, <2>2, <2>3 DEF MarkedAt
<1> QED BY <1>1, <1>2 DEF Marks

\* invalidateCursor
LEMMA AtCursor ==
    ASSUME NEW l \in ListType, NEW m, m = invalidateCursor(l)
    PROVE  /\ Marks(l, m) /\ (l.refresh = TRUE => m.refresh = TRUE)
           /\ getSize(l) = 0 => m = l
           /\ getSize(l) > 0 => m.refresh = TRUE
           /\ \A i \in DOMAIN m.list :
                i > m.scrollOffset /\ i = l.scrollOffset + l.cursorPos + 1 => m.list[i].stale = Fields
<1>0. getSize(l) \in Nat
  BY Window
<1>1. CASE getSize(l) = 0
  <2>1. m = l
    BY <1>1 DEF invalidateCursor
  <2>2. \A i \in DOMAIN m.list : ~(i > m.scrollOffset)
    BY <1>1, <2>1, Window, ListFields
  <2> QED BY <1>1, <2>1, <2>2, KeepsItself DEF Marks
<1>2. CASE getSize(l) # 0
  <2>1. PICK p : p = l.scrollOffset + l.cursorPos + 1
    OBVIOUS
  <2>2. m = [Mark(l, Fields, {p}) EXCEPT !.refresh = TRUE]
    BY <1>2, <2>1 DEF invalidateCursor
  <2>3. /\ m \in ListType /\ Same(l, m) /\ SameConns(l, m) /\ m.refresh = TRUE
        /\ KeepsRows(l, m) /\ Marked(m) /\ MarkedAt(l, m, Fields, {p})
    BY <2>2, MarkAndRefresh
  <2>4. \A i \in DOMAIN l.list : l.list[i].stale \subseteq Fields
    BY ListFields
  <2>5. \A i \in DOMAIN m.list : i = p => m.list[i].stale = Fields
    BY <2>3, <2>4 DEF MarkedAt, SameConns
  <2> QED BY <1>0, <1>2, <2>1, <2>3, <2>5 DEF Marks
<1> QED BY <1>1, <1>2

\* What stays when only the cursor moves.
SameButCursor(l, m) ==
    SameMode(l, m) /\ m.detail = l.detail /\ m.detailStale = l.detailStale

\* A cursor that is put elsewhere.
LEMMA WithCursor ==
    ASSUME NEW l \in ListType, NEW p \in Nat, NEW m, m = [l EXCEPT !.cursorPos = p]
    PROVE  m \in ListType /\ SameButCursor(l, m) /\ m.list = l.list /\ m.refresh = l.refresh /\ m.cursorPos = p
BY DEF ListType, SameButCursor, SameMode

\* clampCursor
LEMMA Clamp ==
    ASSUME NEW l \in ListType, NEW m, m = clampCursor(l)
    PROVE  /\ m \in ListType /\ SameButCursor(l, m) /\ SameConns(l, m) /\ (Marked(l) => Marked(m))
           /\ KeepsRows(l, m) /\ (l.refresh = TRUE => m.refresh = TRUE)
           /\ m.cursorPos <= getCursorMaxPos(m)
<1>0. getCursorMaxPos(l) \in Nat /\ l.cursorPos \in Nat
  BY Window, ListFields
<1>1. CASE l.cursorPos > getCursorMaxPos(l)
  <2>1. PICK k, p : p = getCursorMaxPos(l) /\ k = [l EXCEPT !.cursorPos = p] /\ m = invalidateCursor(k)
    BY <1>1 DEF clampCursor
  <2>2. k \in ListType /\ SameButCursor(l, k) /\ k.list = l.list /\ k.refresh = l.refresh /\ k.cursorPos = p
    BY <1>0, <2>1, WithCursor
  <2>3. /\ Marks(k, m) /\ (k.refresh = TRUE => m.refresh = TRUE)
        /\ \A i \in DOMAIN m.list :
             i > m.scrollOffset /\ i = k.scrollOffset + k.cursorPos + 1 => m.list[i].stale = Fields
    BY <2>1, <2>2, AtCursor
  <2>4. Marked(l) => Marked(k)
    BY <2>2 DEF Marked, SameButCursor, SameMode
  <2>5. SameButCursor(l, m) /\ SameConns(l, m) /\ m.cursorPos = p /\ m \in ListType
    BY <2>2, <2>3 DEF Marks, Same, SameButCursor, SameMode, SameConns
  <2>6. getCursorMaxPos(m) = getCursorMaxPos(l)
    <3>1. Len(m.list) = Len(l.list)
      BY <2>5, SameConnsOK DEF SameButCursor
    <3> QED BY <2>5, <3>1 DEF getCursorMaxPos, getSize, SameButCursor, SameMode
  <2>7. KeepsRows(l, m)
    <3>1. SUFFICES ASSUME NEW i \in DOMAIN m.list, i > m.scrollOffset, m.list[i].stale # Fields
                   PROVE  KeepsRow(l, m, i)
      BY DEF KeepsRows, KeepsRow
    <3>2. KeepsRow(k, m, i)
      BY <2>3, <3>1 DEF Marks, KeepsRows
    <3>3. i # m.scrollOffset + m.cursorPos + 1
      BY <2>3, <3>1 DEF Marks, Same, SameMode
    <3>4. i # l.scrollOffset + l.cursorPos + 1
      <4>1. i \in 1..Len(l.list) /\ l.scrollOffset \in Nat /\ Len(l.list) \in Nat
        BY <2>5, <3>1, ListFields DEF SameConns
      <4>2. i > l.scrollOffset
        BY <2>5, <3>1 DEF SameButCursor, SameMode
      <4>3. getCursorMaxPos(l) = Len(l.list) - l.scrollOffset - 1
        BY <4>1, <4>2, Window
      <4> QED BY <1>0, <1>1, <4>1, <4>2, <4>3
    <3>5. m.list[i].conn = k.list[i].conn /\ k.list[i].stale \subseteq m.list[i].stale /\ i \in DOMAIN k.list
      BY <3>1, <3>2 DEF KeepsRow
    <3> QED BY <2>2, <2>5, <3>3, <3>4, <3>5 DEF KeepsRow, SameButCursor, SameMode
  <2> QED BY <1>0, <2>1, <2>2, <2>3, <2>4, <2>5, <2>6, <2>7 DEF Marks
<1>2. CASE ~(l.cursorPos > getCursorMaxPos(l))
  <2>1. m = l
    BY <1>2 DEF clampCursor
  <2> QED BY <1>0, <1>2, <2>1, KeepsItself DEF SameButCursor, Same
<1> QED BY <1>1, <1>2

-----------------------------------------------------------------------------
(***************************************************************************)
(* Items come and go.                                                      *)
(***************************************************************************)
\* m.list begins as l.list does and is not longer.
Prefix(l, m) ==
    Len(m.list) <= Len(l.list) /\ \A i \in DOMAIN m.list : i \in DOMAIN l.list /\ m.list[i] = l.list[i]

\* A list that is cut stays in order, and its rows do not change.
LEMMA PrefixOK ==
    ASSUME NEW l \in ListType, NEW m \in ListType, NEW d, SameMode(l, m), Prefix(l, m)
    PROVE  /\ NoTwice(l) => NoTwice(m)
           /\ Stored(l, d) => Stored(m, d)
           /\ Sorted(l, d) => Sorted(m, d)
           /\ Bounded(l) => Bounded(m)
           /\ m.refresh = l.refresh /\ Marked(l) => Marked(m)
           /\ m.cursorPos = l.cursorPos => KeepsRows(l, m)
<1>1. Sorted(l, d) => Sorted(m, d)
  BY SameKey DEF Prefix, Sorted
<1>2. Bounded(l) => Bounded(m)
  BY ListFields DEF Bounded, Prefix, SameMode
<1>3. m.refresh = l.refresh /\ Marked(l) => Marked(m)
  BY DEF Marked, Prefix, SameMode
<1>4. m.cursorPos = l.cursorPos => KeepsRows(l, m)
  BY DEF KeepsRows, KeepsRow, Prefix, SameMode
<1>5. (NoTwice(l) => NoTwice(m)) /\ (Stored(l, d) => Stored(m, d))
  BY DEF NoTwice, Stored, Prefix
<1> QED BY <1>1, <1>2, <1>3, <1>4, <1>5

\* pop_back
LEMMA PopBack ==
    ASSUME NEW l \in ListType, NEW n \in 0..Len(l.list), NEW m, m = pop_back(l, n)
    PROVE  /\ m \in ListType /\ Same(l, m) /\ m.refresh = l.refresh /\ Prefix(l, m)
           /\ Len(m.list) = Len(l.list) - n
<1>1. PICK s : s = SubSeq(l.list, 1, Len(l.list) - n)
  OBVIOUS
<1>2. l.list \in Seq(Items) /\ Len(l.list) \in Nat
  BY ListFields
<1>3. Len(l.list) - n \in 0..Len(l.list)
  BY <1>2
<1>4. /\ s \in Seq(Items) /\ Len(s) = Len(l.list) - n /\ DOMAIN s = 1..Len(l.list) - n
      /\ \A i \in 1..Len(l.list) - n : i \in DOMAIN l.list /\ s[i] = l.list[i]
  BY <1>1, <1>2, <1>3
<1>5. m = [l EXCEPT !.list = s]
  BY <1>1 DEF pop_back
<1>6. m \in ListType /\ Same(l, m) /\ m.list = s /\ m.refresh = l.refresh
  BY <1>4, <1>5, OnlyList
<1> QED BY <1>2, <1>3, <1>4, <1>6 DEF Prefix

\* l has taken c in, or it had no room for all.
Takes(l, m, d, c) ==
    /\ ListOK(m, d) /\ Same(l, m) /\ KeepsRows(l, m) /\ m.refresh = TRUE
    /\ Len(l.list) <= Len(m.list) /\ m.list # <<>>
    /\ \/ Len(m.list) = m.scrollOffset + m.targetSize
       \/ containsItem(m, c) /\ \A b : containsItem(l, b) => containsItem(m, b)

\* A new item is drawn from scratch.
LEMMA NewItem ==
    ASSUME NEW c \in Conns
    PROVE  Item(c) \in Items /\ Item(c).conn = c /\ Item(c).stale = Fields
BY DEF Item, Items

\* push_back of an item that does not come before the last one.
LEMMA PushBack ==
    ASSUME NEW d \in DataType, NEW l, ListOK(l, d), NEW c \in d.storage, ~containsItem(l, c),
           Len(l.list) < l.scrollOffset + l.targetSize,
           l.list # <<>> => ~compareFunc(l, d, c, back(l)),
           NEW m, m = push_back(l, c)
    PROVE  Takes(l, m, d, c) /\ Len(m.list) = Len(l.list) + 1
<1>1. l \in ListType /\ c \in Conns
  BY DEF ListOK, DataType
<1>2. PICK n : n = Len(l.list)
  OBVIOUS
<1>3. /\ l.list \in Seq(Items) /\ n \in Nat /\ DOMAIN l.list = 1..n
      /\ \A i \in 1..n : l.list[i].conn \in Conns
      /\ l.scrollOffset \in Nat /\ l.targetSize \in Nat
  BY <1>1, <1>2, ListFields
<1>4. Item(c) \in Items /\ Item(c).conn = c /\ Item(c).stale = Fields
  BY <1>1, NewItem
<1>5. PICK s : s = Append(l.list, Item(c))
  OBVIOUS
<1>6. /\ s \in Seq(Items) /\ Len(s) = n + 1 /\ DOMAIN s = 1..n + 1
      /\ \A i \in 1..n : s[i] = l.list[i]
      /\ s[n + 1] = Item(c)
  BY <1>2, <1>3, <1>4, <1>5
<1>7. m \in ListType /\ Same(l, m) /\ m.list = s /\ m.refresh = TRUE
  <2>1. m = [l EXCEPT !.list = s, !.refresh = TRUE]
    BY <1>5 DEF push_back
  <2> QED BY <1>1, <1>6, <2>1, WithList
<1>8. \A i \in 1..n : Key(l, d, l.list[i].conn) \in Int /\ Key(l, d, l.list[i].conn) <= Key(l, d, c)
  <2>1. SUFFICES ASSUME NEW i \in 1..n
                 PROVE  Key(l, d, l.list[i].conn) \in Int /\ Key(l, d, l.list[i].conn) <= Key(l, d, c)
    OBVIOUS
  <2>2. n \in 1..n /\ i <= n /\ l.list # <<>> /\ back(l) = l.list[n].conn
    BY <1>2, <1>3, <2>1 DEF back, Last
  <2>3. /\ Key(l, d, c) \in Int /\ Key(l, d, l.list[n].conn) \in Int /\ Key(l, d, l.list[i].conn) \in Int
        /\ ~(Key(l, d, c) < Key(l, d, l.list[n].conn))
    BY <1>1, <1>3, <2>1, <2>2, Compare
  <2>4. i < n => Key(l, d, l.list[i].conn) <= Key(l, d, l.list[n].conn)
    BY <1>3, <2>2 DEF ListOK, Sorted
  <2> QED BY <1>3, <2>2, <2>3, <2>4
<1>9. Sorted(m, d)
  <2>1. SUFFICES ASSUME NEW i \in 1..n + 1, NEW j \in 1..n + 1, i < j
                 PROVE  Key(m, d, s[i].conn) <= Key(m, d, s[j].conn)
    BY <1>6, <1>7 DEF Sorted
  <2>2. Key(m, d, s[i].conn) = Key(l, d, s[i].conn) /\ Key(m, d, s[j].conn) = Key(l, d, s[j].conn)
    BY <1>7, SameKey DEF Same
  <2>3. i \in 1..n /\ s[i] = l.list[i]
    BY <1>3, <1>6, <2>1
  <2>4. CASE j = n + 1
    BY <1>4, <1>6, <1>8, <2>2, <2>3, <2>4
  <2>5. CASE j \in 1..n
    <3>1. Key(l, d, l.list[i].conn) <= Key(l, d, l.list[j].conn)
      BY <1>3, <2>1, <2>3, <2>5 DEF ListOK, Sorted
    <3> QED BY <1>6, <2>2, <2>3, <2>5, <3>1
  <2> QED BY <1>3, <2>1, <2>4, <2>5
<1>10. NoTwice(m) /\ Stored(m, d)
  <2>1. \A i \in 1..n : l.list[i].conn # c /\ l.list[i].conn \in d.storage
    BY <1>3 DEF containsItem, ListOK, Stored
  <2>2. \A i, j \in 1..n : l.list[i].conn = l.list[j].conn => i = j
    BY <1>3 DEF ListOK, NoTwice
  <2>3. \A i \in 1..n + 1 : i \in 1..n \/ i = n + 1
    BY <1>3
  <2> QED BY <1>4, <1>6, <1>7, <2>1, <2>2, <2>3 DEF NoTwice, Stored
<1>11. Bounded(m)
  BY <1>2, <1>3, <1>6, <1>7 DEF Bounded, Same, SameMode
<1>12. KeepsRows(l, m)
  <2>1. \A i \in 1..n + 1 : i \in 1..n \/ i = n + 1
    BY <1>3
  <2> QED BY <1>3, <1>4, <1>6, <1>7, <2>1 DEF KeepsRows, KeepsRow, Same, SameMode
<1>13. containsItem(m, c) /\ \A b : containsItem(l, b) => containsItem(m, b)
  <2>1. n + 1 \in DOMAIN m.list /\ \A i \in DOMAIN l.list : i \in DOMAIN m.list /\ m.list[i] = l.list[i]
    BY <1>3, <1>6, <1>7
  <2> QED BY <1>4, <1>6, <1>7, <2>1 DEF containsItem
<1>14. Len(l.list) <= Len(m.list) /\ m.list # <<>> /\ Len(m.list) = Len(l.list) + 1
  BY <1>2, <1>3, <1>6, <1>7
<1> QED BY <1>7, <1>9, <1>10, <1>11, <1>12, <1>13, <1>14 DEF Takes, ListOK, Marked


\* The item of c is put to position k + 1, behind the ones that do not come after it.
Inserts(l, m, c, k) ==
    /\ Len(m.list) = Len(l.list) + 1
    /\ \A i \in 1..k : m.list[i] = l.list[i]
    /\ m.list[k + 1] = Item(c)
    /\ \A i \in k + 2..Len(l.list) + 1 : m.list[i] = l.list[i - 1]

\* Where upper_bound finds its place.
LEMMA UpperBound ==
    ASSUME NEW d \in DataType, NEW l, ListOK(l, d), NEW c \in d.storage, NEW S,
           S = {i \in DOMAIN l.list : ~compareFunc(l, d, c, l.list[i].conn)}
    PROVE  /\ Cardinality(S) \in 0..Len(l.list)
           /\ \A i \in 1..Cardinality(S) : Key(l, d, l.list[i].conn) <= Key(l, d, c)
           /\ \A i \in Cardinality(S) + 1..Len(l.list) : Key(l, d, c) <= Key(l, d, l.list[i].conn)
<1>1. l \in ListType /\ c \in Conns
  BY DEF ListOK, DataType
<1>2. PICK n : n = Len(l.list)
  OBVIOUS
<1>3. n \in Nat /\ DOMAIN l.list = 1..n /\ \A i \in 1..n : l.list[i].conn \in Conns
  BY <1>1, <1>2, ListFields
<1>4. PICK g : g = [i \in 1..n |-> Key(l, d, l.list[i].conn)]
  OBVIOUS
<1>5. PICK x : x = Key(l, d, c)
  OBVIOUS
<1>6. x \in Int /\ \A i \in 1..n : g[i] \in Int /\ (i \in S <=> ~(x < g[i]))
  BY <1>1, <1>3, <1>4, <1>5, Compare
<1>7. \A i, j \in 1..n : i < j => g[i] <= g[j]
  BY <1>3, <1>4 DEF ListOK, Sorted
<1>8. S \subseteq 1..n /\ \A j \in S : \A i \in 1..j : i \in S
  <2>1. S \subseteq 1..n
    BY <1>3
  <2>2. ASSUME NEW j \in S, NEW i \in 1..j PROVE i \in S
    <3>1. i \in 1..n /\ j \in 1..n /\ (i < j \/ i = j)
      BY ONLY <1>3, <2>1, <2>2
    <3> QED BY ONLY <1>6, <1>7, <2>2, <3>1
  <2> QED BY <2>1, <2>2
<1>9. Cardinality(S) \in 0..n /\ S = 1..Cardinality(S)
  BY ONLY <1>3, <1>8, PrefixSet
<1>10. PICK k : k = Cardinality(S)
  OBVIOUS
<1>11. \A i \in 1..k : g[i] <= x
  BY ONLY <1>3, <1>6, <1>9, <1>10
<1>12. \A i \in k + 1..n : i \in 1..n /\ x <= g[i]
  BY ONLY <1>3, <1>6, <1>9, <1>10
<1>13. \A i \in 1..k : i \in 1..n
  BY ONLY <1>3, <1>9, <1>10
<1> QED BY <1>2, <1>4, <1>5, <1>9, <1>10, <1>11, <1>12, <1>13

\* The list with the item in its place.
LEMMA InsertedOK ==
    ASSUME NEW d \in DataType, NEW l, ListOK(l, d), NEW c \in d.storage, ~containsItem(l, c),
           NEW k \in 0..Len(l.list),
           \A i \in 1..k : Key(l, d, l.list[i].conn) <= Key(l, d, c),
           \A i \in k + 1..Len(l.list) : Key(l, d, c) <= Key(l, d, l.list[i].conn),
           NEW m \in ListType, SameMode(l, m), Inserts(l, m, c, k)
    PROVE  /\ NoTwice(m) /\ Stored(m, d) /\ Sorted(m, d)
           /\ containsItem(m, c) /\ \A b : containsItem(l, b) => containsItem(m, b)
<1>1. l \in ListType /\ c \in Conns
  BY DEF ListOK, DataType
<1>2. PICK n : n = Len(l.list)
  OBVIOUS
<1>3. n \in Nat /\ DOMAIN l.list = 1..n /\ k \in 0..n /\ \A i \in 1..n : l.list[i].conn \in Conns
  BY <1>1, <1>2, ListFields
<1>4. /\ Len(m.list) = n + 1 /\ DOMAIN m.list = 1..n + 1
      /\ m.list[k + 1].conn = c
      /\ \A i \in 1..k : m.list[i].conn = l.list[i].conn
      /\ \A i \in k + 2..n + 1 : m.list[i].conn = l.list[i - 1].conn
  <2>1. DOMAIN m.list = 1..Len(m.list)
    BY ListFields
  <2> QED BY <1>1, <1>2, <2>1, NewItem DEF Inserts
\* Where an item of m comes from.
<1> DEFINE From(i) == IF i <= k THEN i ELSE i - 1
<1>5. ASSUME NEW i \in 1..n + 1
      PROVE  \/ i = k + 1 /\ m.list[i].conn = c
             \/ i # k + 1 /\ From(i) \in 1..n /\ m.list[i].conn = l.list[From(i)].conn
  <2>1. CASE i <= k
    BY <1>3, <1>4, <2>1
  <2>2. CASE i = k + 1
    BY <1>4, <2>2
  <2>3. CASE i > k + 1
    BY <1>3, <1>4, <2>3
  <2> QED BY <1>3, <2>1, <2>2, <2>3
<1>6. \A i, j \in 1..n + 1 : i # k + 1 /\ j # k + 1 /\ i < j => From(i) < From(j)
  BY <1>3
<1>7. \A i \in 1..n + 1 : (i < k + 1 => From(i) \in 1..k) /\ (i > k + 1 => From(i) \in k + 1..n)
  BY <1>3
<1> HIDE DEF From
<1>8. \A i \in 1..n : l.list[i].conn # c /\ l.list[i].conn \in d.storage
  BY <1>3 DEF containsItem, ListOK, Stored
<1>9. \A i, j \in 1..n : l.list[i].conn = l.list[j].conn => i = j
  BY <1>3 DEF ListOK, NoTwice
<1>10. NoTwice(m)
  <2>1. SUFFICES ASSUME NEW i \in 1..n + 1, NEW j \in 1..n + 1, i < j PROVE m.list[i].conn # m.list[j].conn
    <3>1. \A i, j \in 1..n + 1 : i < j \/ j < i \/ i = j
      BY <1>3
    <3> QED BY <1>4, <3>1 DEF NoTwice
  <2>2. CASE i = k + 1
    <3>1. j # k + 1
      BY <1>3, <2>1, <2>2
    <3> QED BY <1>5, <1>8, <2>2, <3>1
  <2>3. CASE j = k + 1
    <3>1. i # k + 1
      BY <1>3, <2>1, <2>3
    <3> QED BY <1>5, <1>8, <2>3, <3>1
  <2>4. CASE i # k + 1 /\ j # k + 1
    <3>1. From(i) \in 1..n /\ From(j) \in 1..n /\ From(i) < From(j)
      BY <1>5, <1>6, <2>1, <2>4
    <3>2. From(i) # From(j)
      BY <1>3, <3>1
    <3> QED BY <1>5, <1>9, <2>4, <3>1, <3>2
  <2> QED BY <2>2, <2>3, <2>4
<1>11. Stored(m, d)
  BY <1>4, <1>5, <1>8 DEF Stored
<1>12. Sorted(m, d)
  <2>1. SUFFICES ASSUME NEW i \in 1..n + 1, NEW j \in 1..n + 1, i < j
                 PROVE  Key(l, d, m.list[i].conn) <= Key(l, d, m.list[j].conn)
    BY <1>4, SameKey DEF Sorted
  <2>2. CASE i = k + 1
    <3>1. j # k + 1 /\ From(j) \in k + 1..n
      BY <1>3, <1>7, <2>1, <2>2
    <3> QED BY <1>2, <1>5, <2>2, <3>1
  <2>3. CASE j = k + 1
    <3>1. i # k + 1 /\ From(i) \in 1..k
      BY <1>3, <1>7, <2>1, <2>3
    <3> QED BY <1>2, <1>5, <2>3, <3>1
  <2>4. CASE i # k + 1 /\ j # k + 1
    <3>1. From(i) \in 1..n /\ From(j) \in 1..n /\ From(i) < From(j)
      BY <1>5, <1>6, <2>1, <2>4
    <3>2. Key(l, d, l.list[From(i)].conn) <= Key(l, d, l.list[From(j)].conn)
      BY <1>3, <3>1 DEF ListOK, Sorted
    <3> QED BY <1>5, <2>4, <3>1, <3>2
  <2> QED BY <2>2, <2>3, <2>4
<1>13. containsItem(m, c)
  <2>1. k + 1 \in 1..n + 1
    BY <1>3
  <2> QED BY <1>4, <2>1 DEF containsItem
<1>14. ASSUME NEW b, containsItem(l, b) PROVE containsItem(m, b)
  <2>1. PICK i \in 1..n : l.list[i].conn = b
    BY <1>3, <1>14 DEF containsItem
  <2>2. CASE i <= k
    <3>1. i \in 1..k /\ i \in 1..n + 1
      BY <1>3, <2>1, <2>2
    <3> QED BY <1>4, <2>1, <3>1 DEF containsItem
  <2>3. CASE i > k
    <3>1. i + 1 \in k + 2..n + 1 /\ i + 1 \in 1..n + 1 /\ (i + 1) - 1 = i
      BY <1>3, <2>1, <2>3
    <3> QED BY <1>4, <2>1, <3>1 DEF containsItem
  <2> QED BY <1>3, <2>1, <2>2, <2>3
<1> QED BY <1>10, <1>11, <1>12, <1>13, <1>14

\* insertItem, of an item that comes before the last one
LEMMA InsertItem ==
    ASSUME NEW d \in DataType, NEW l, ListOK(l, d), NEW c \in d.storage, ~containsItem(l, c),
           l.list # <<>>, NEW m, m = insertItem(l, d, c)
    PROVE  Takes(l, m, d, c)
<1>1. l \in ListType /\ c \in Conns
  BY DEF ListOK, DataType
<1>2. PICK n : n = Len(l.list)
  OBVIOUS
<1>3. /\ n \in Nat /\ DOMAIN l.list = 1..n /\ l.scrollOffset \in Nat /\ l.targetSize \in Nat
      /\ l.list \in Seq(Items) /\ n # 0
  BY <1>1, <1>2, ListFields
<1>4. PICK k : k = Cardinality({i \in DOMAIN l.list : ~compareFunc(l, d, c, l.list[i].conn)})
  OBVIOUS
<1>5. /\ k \in 0..n
      /\ \A i \in 1..k : Key(l, d, l.list[i].conn) <= Key(l, d, c)
      /\ \A i \in k + 1..n : Key(l, d, c) <= Key(l, d, l.list[i].conn)
  BY <1>2, <1>4, UpperBound
<1>6. PICK s : s = InsertAt(l.list, 1 + k, Item(c))
  OBVIOUS
<1>7. /\ s \in Seq(Items) /\ Len(s) = n + 1
      /\ \A i \in 1..n + 1 :
           s[i] = IF i < 1 + k THEN l.list[i] ELSE IF i = 1 + k THEN Item(c) ELSE l.list[i - 1]
  <2>1. 1 + k \in 1..Len(l.list) + 1 /\ Item(c) \in Items
    BY <1>1, <1>2, <1>3, <1>5, NewItem
  <2>2. PICK q, e, p : q = l.list /\ e = Item(c) /\ p = 1 + k
    OBVIOUS
  <2>3. q \in Seq(Items) /\ p \in 1..Len(q) + 1 /\ e \in Items
    BY <1>3, <2>1, <2>2
  <2>4. /\ InsertAt(q, p, e) \in Seq(Items) /\ Len(InsertAt(q, p, e)) = Len(q) + 1
        /\ \A i \in 1..Len(q) + 1 :
             InsertAt(q, p, e)[i] = IF i < p THEN q[i] ELSE IF i = p THEN e ELSE q[i - 1]
    <3>1. IsInsertion(InsertAt(q, p, e), Items, q, p, e)
      BY ONLY <2>3, InsertAtFacts
    <3> QED BY ONLY <3>1 DEF IsInsertion
  <2>5. s = InsertAt(q, p, e) /\ Len(q) = n
    BY <1>2, <1>6, <2>2
  <2> QED BY ONLY <2>2, <2>4, <2>5
<1>8. PICK inserted : inserted = [l EXCEPT !.list = s]
  OBVIOUS
<1>9. inserted \in ListType /\ Same(l, inserted) /\ inserted.list = s /\ inserted.refresh = l.refresh
  BY <1>1, <1>7, <1>8, OnlyList
<1>10. Inserts(l, inserted, c, k)
  <2>1. \A i \in 1..k : i \in 1..n + 1 /\ i < 1 + k
    BY <1>3, <1>5
  <2>2. k + 1 \in 1..n + 1 /\ ~(k + 1 < 1 + k) /\ k + 1 = 1 + k
    BY <1>3, <1>5
  <2>3. \A i \in k + 2..n + 1 : i \in 1..n + 1 /\ ~(i < 1 + k) /\ i # 1 + k
    BY <1>3, <1>5
  <2> QED BY <1>2, <1>7, <1>9, <2>1, <2>2, <2>3 DEF Inserts
<1>11. /\ NoTwice(inserted) /\ Stored(inserted, d) /\ Sorted(inserted, d)
       /\ containsItem(inserted, c) /\ \A b : containsItem(l, b) => containsItem(inserted, b)
  <2>1. k \in 0..Len(l.list) /\ SameMode(l, inserted)
    BY <1>2, <1>5, <1>9 DEF Same
  <2> QED BY <1>2, <1>5, <1>9, <1>10, <2>1, InsertedOK
<1>12. PICK cut : cut = IF getSize(inserted) > l.targetSize THEN pop_back(inserted, 1) ELSE inserted
  OBVIOUS
<1>13. getSize(inserted) > l.targetSize <=> n + 1 > l.scrollOffset + l.targetSize
  <2>1. getSize(inserted) = IF n + 1 > l.scrollOffset THEN (n + 1) - l.scrollOffset ELSE 0
    <3>1. Len(inserted.list) = n + 1 /\ inserted.scrollOffset = l.scrollOffset
      BY <1>7, <1>9 DEF Same, SameMode
    <3> QED BY <1>3, <1>9, <3>1, Window
  <2> QED BY <1>3, <2>1
<1>14. n <= l.scrollOffset + l.targetSize
  BY <1>2 DEF ListOK, Bounded
<1>15. /\ cut \in ListType /\ Same(inserted, cut) /\ cut.refresh = inserted.refresh /\ Prefix(inserted, cut)
       /\ \/ Len(cut.list) = n /\ n = l.scrollOffset + l.targetSize
          \/ cut = inserted /\ n + 1 <= l.scrollOffset + l.targetSize
  <2>1. CASE getSize(inserted) > l.targetSize
    <3>1. cut = pop_back(inserted, 1) /\ 1 \in 0..Len(inserted.list) /\ Len(inserted.list) = n + 1
      BY <1>3, <1>7, <1>9, <1>12, <2>1
    <3>2. /\ cut \in ListType /\ Same(inserted, cut) /\ cut.refresh = inserted.refresh /\ Prefix(inserted, cut)
          /\ Len(cut.list) = (n + 1) - 1
      BY <1>9, <3>1, PopBack
    <3> QED BY <1>3, <1>13, <1>14, <2>1, <3>2
  <2>2. CASE ~(getSize(inserted) > l.targetSize)
    <3>1. cut = inserted /\ n + 1 <= l.scrollOffset + l.targetSize
      BY <1>3, <1>12, <1>13, <2>2
    <3>2. Prefix(inserted, inserted)
      BY <1>3, <1>7, <1>9 DEF Prefix
    <3> QED BY <1>9, <3>1, <3>2, KeepsItself
  <2> QED BY <2>1, <2>2
<1>16. NoTwice(cut) /\ Stored(cut, d) /\ Sorted(cut, d) /\ Bounded(cut)
  <2>1. NoTwice(cut) /\ Stored(cut, d) /\ Sorted(cut, d)
    BY <1>9, <1>11, <1>15, PrefixOK DEF Same
  <2>2. cut.scrollOffset = l.scrollOffset /\ cut.targetSize = l.targetSize
    BY <1>9, <1>15 DEF Same, SameMode
  <2>3. Len(cut.list) <= l.scrollOffset + l.targetSize
    BY <1>3, <1>7, <1>9, <1>14, <1>15
  <2> QED BY <2>1, <2>2, <2>3 DEF Bounded
<1>17. PICK W : W = {i \in DOMAIN cut.list : i >= 1 + k /\ i > getListBeginIndex(cut)}
  OBVIOUS
<1>18. m = [Mark(cut, Fields, W) EXCEPT !.refresh = TRUE]
  BY <1>4, <1>6, <1>8, <1>12, <1>17 DEF insertItem
<1>19. /\ m \in ListType /\ Same(cut, m) /\ SameConns(cut, m) /\ m.refresh = TRUE
       /\ Marked(m) /\ MarkedAt(cut, m, Fields, W)
  BY <1>15, <1>18, MarkAndRefresh
<1>20. /\ NoTwice(m) /\ Stored(m, d) /\ Sorted(m, d) /\ Bounded(m)
       /\ Len(m.list) = Len(cut.list) /\ \A b : containsItem(m, b) <=> containsItem(cut, b)
  BY <1>15, <1>16, <1>19, SameConnsOK DEF Same
<1>21. Same(l, m)
  BY <1>9, <1>15, <1>19 DEF Same, SameMode
<1>22. KeepsRows(l, m)
  <2>1. SUFFICES ASSUME NEW i \in DOMAIN m.list, i > m.scrollOffset, m.list[i].stale # Fields
                 PROVE  KeepsRow(l, m, i)
    BY DEF KeepsRows, KeepsRow
  <2>2. i \in DOMAIN cut.list /\ i \in DOMAIN inserted.list /\ cut.list[i] = inserted.list[i]
    BY <1>15, <1>19, <2>1 DEF SameConns, Prefix
  <2>3. i \in 1..n + 1 /\ i \in 1..Len(cut.list) /\ Len(cut.list) \in Nat
    <3>1. DOMAIN inserted.list = 1..n + 1
      BY <1>7, <1>9
    <3> QED BY <1>15, <2>2, <3>1, ListFields
  <2>4. i \notin W
    <3>1. cut.list[i].stale \subseteq Fields
      BY <1>15, <2>2, ListFields
    <3> QED BY <1>19, <2>1, <2>2, <3>1 DEF MarkedAt
  <2>5. i > getListBeginIndex(cut)
    <3>1. i > cut.scrollOffset /\ cut.scrollOffset \in Nat
      BY <1>3, <1>19, <2>1, <1>15, ListFields DEF Same, SameMode
    <3> QED BY <2>3, <3>1 DEF getListBeginIndex
  <2>6. i < 1 + k
    BY <1>3, <1>5, <1>17, <2>2, <2>3, <2>4, <2>5
  <2>7. i \in 1..n /\ inserted.list[i] = l.list[i]
    BY <1>3, <1>5, <1>7, <1>9, <2>3, <2>6
  <2>8. m.list[i].conn = l.list[i].conn /\ m.list[i].stale = l.list[i].stale
    BY <1>19, <2>2, <2>4, <2>7 DEF SameConns, MarkedAt
  <2> QED BY <1>3, <1>21, <2>7, <2>8 DEF KeepsRow, Same, SameMode
<1>23. Len(l.list) <= Len(m.list) /\ m.list # <<>>
  <2>1. Len(m.list) = n \/ Len(m.list) = n + 1
    BY <1>7, <1>9, <1>15, <1>20
  <2> QED BY <1>2, <1>3, <2>1
<1>24. \/ Len(m.list) = m.scrollOffset + m.targetSize
       \/ containsItem(m, c) /\ \A b : containsItem(l, b) => containsItem(m, b)
  <2>1. m.scrollOffset = l.scrollOffset /\ m.targetSize = l.targetSize
    BY <1>21 DEF Same, SameMode
  <2> QED BY <1>11, <1>15, <1>20, <2>1
<1> QED BY <1>19, <1>20, <1>21, <1>22, <1>23, <1>24 DEF Takes, ListOK

-----------------------------------------------------------------------------
(***************************************************************************)
(* The loops over the storage.                                             *)
(***************************************************************************)
\* The list may have changed, and no connection left it for lack of a better one.
Grows(l, m, d) ==
    /\ ListOK(m, d) /\ Same(l, m) /\ KeepsRows(l, m) /\ (l.refresh = TRUE => m.refresh = TRUE)
    /\ (m = l \/ m.refresh = TRUE) /\ Len(l.list) <= Len(m.list) /\ m.list # <<>>
    /\ \/ Len(m.list) = m.scrollOffset + m.targetSize
       \/ \A b : containsItem(l, b) => containsItem(m, b)

\* Nothing changed.
LEMMA GrowsItself ==
    ASSUME NEW d, NEW l, ListOK(l, d), l.list # <<>>
    PROVE  Grows(l, l, d)
<1>1. Len(l.list) <= Len(l.list)
  BY ListFields DEF ListOK
<1> QED BY <1>1, KeepsItself DEF Grows

\* One after the other.
LEMMA GrowsTransitive ==
    ASSUME NEW d, NEW l, l \in ListType, NEW m, NEW n, Grows(l, m, d), Grows(m, n, d)
    PROVE  /\ Grows(l, n, d)
           /\ Len(m.list) = m.scrollOffset + m.targetSize => Len(n.list) = n.scrollOffset + n.targetSize
<1>1. m \in ListType /\ n \in ListType
  BY DEF Grows, ListOK
<1>2. KeepsRows(l, n)
  BY <1>1, KeepsTransitive DEF Grows
<1>3. Same(l, n)
  BY DEF Grows, Same, SameMode
<1>4. Len(l.list) <= Len(n.list)
  BY <1>1, ListFields DEF Grows
<1>5. Len(m.list) = m.scrollOffset + m.targetSize => Len(n.list) = n.scrollOffset + n.targetSize
  <2>1. /\ n.scrollOffset = m.scrollOffset /\ n.targetSize = m.targetSize
        /\ Len(m.list) <= Len(n.list) /\ Len(n.list) <= n.scrollOffset + n.targetSize
    BY DEF Grows, Same, SameMode, ListOK, Bounded
  <2> QED BY <1>1, <2>1, ListFields
<1> QED BY <1>2, <1>3, <1>4, <1>5 DEF Grows

\* offer
LEMMA Offer ==
    ASSUME NEW d \in DataType, NEW l, ListOK(l, d), l.list # <<>>, NEW c \in d.storage,
           NEW g \in BOOLEAN, NEW m, m = offer(l, d, c, g)
    PROVE  /\ Grows(l, m, d)
           /\ g /\ l.targetSize > 0 => \/ Len(m.list) = m.scrollOffset + m.targetSize
                                       \/ containsItem(m, c)
<1>1. CASE containsItem(l, c)
  <2>1. m = l
    BY <1>1 DEF offer
  <2> QED BY <1>1, <2>1, GrowsItself
<1>2. CASE ~containsItem(l, c) /\ compareFunc(l, d, c, back(l))
  <2>1. m = insertItem(l, d, c)
    BY <1>2 DEF offer
  <2>2. Takes(l, m, d, c)
    BY <1>2, <2>1, InsertItem
  <2> QED BY <2>2 DEF Takes, Grows
<1>3. CASE ~containsItem(l, c) /\ ~compareFunc(l, d, c, back(l))
  <2>1. m = IF g /\ getSize(l) < l.targetSize THEN push_back(l, c) ELSE l
    BY <1>3 DEF offer
  <2>2. /\ l \in ListType /\ Len(l.list) \in Nat /\ l.scrollOffset \in Nat /\ l.targetSize \in Nat
        /\ Len(l.list) <= l.scrollOffset + l.targetSize
    BY ListFields DEF ListOK, Bounded
  <2>3. getSize(l) = IF Len(l.list) > l.scrollOffset THEN Len(l.list) - l.scrollOffset ELSE 0
    BY <2>2, Window
  <2>4. CASE g /\ getSize(l) < l.targetSize
    <3>1. m = push_back(l, c)
      BY <2>1, <2>4
    <3>2. Len(l.list) < l.scrollOffset + l.targetSize
      BY <2>2, <2>3, <2>4
    <3>3. Takes(l, m, d, c)
      BY <1>3, <3>1, <3>2, PushBack
    <3> QED BY <3>3 DEF Takes, Grows
  <2>5. CASE ~(g /\ getSize(l) < l.targetSize)
    <3>1. m = l
      BY <2>1, <2>5
    <3>2. g /\ l.targetSize > 0 => Len(l.list) = l.scrollOffset + l.targetSize
      BY <2>2, <2>3, <2>5
    <3> QED BY <3>1, <3>2, GrowsItself
  <2> QED BY <2>4, <2>5
<1> QED BY <1>1, <1>2, <1>3

\* f[n] is the list after n rounds.
AreRounds(f, l, d, order, offered, g, k) ==
    f = [n \in 0..k |-> IF n = 0 THEN l
                        ELSE IF order[n] \in offered THEN offer(f[n - 1], d, order[n], g)
                        ELSE f[n - 1]]

\* There is such a function, for any number of rounds.
LEMMA RoundsExist ==
    ASSUME NEW l, NEW d, NEW order, NEW offered, NEW g, NEW rounds \in Nat
    PROVE  \E f : AreRounds(f, l, d, order, offered, g, rounds)
<1> DEFINE Round(x, n) == IF order[n] \in offered THEN offer(x, d, order[n], g) ELSE x
           Is(f, k) == f = [n \in 0..k |-> IF n = 0 THEN l ELSE Round(f[n - 1], n)]
           U == {k \in Nat : ~\E f : Is(f, k)}
<1>1. SUFFICES ASSUME U # {} PROVE FALSE
  BY Zenon DEF AreRounds
<1> HIDE DEF Round
<1>2. PICK k \in U : \A y \in U : k <= y
  <2>1. U \subseteq Nat
    OBVIOUS
  <2> HIDE DEF U
  <2> QED BY <1>1, <2>1, LeastNatural
<1>3. k \in Nat /\ \A f : ~Is(f, k)
  BY <1>2
<1>4. CASE k = 0
  <2>1. Is([n \in 0..0 |-> l], 0)
    OBVIOUS
  <2> QED BY <1>3, <1>4, <2>1
<1>5. CASE k > 0
  <2>1. k - 1 \in Nat /\ ~(k <= k - 1)
    BY ONLY <1>3, <1>5
  <2>2. PICK f : Is(f, k - 1)
    <3>1. k - 1 \notin U
      <4> HIDE DEF U
      <4> QED BY <1>2, <2>1
    <3> HIDE DEF Is
    <3> QED BY <2>1, <3>1
  <2>3. PICK h : h = [n \in 0..k |-> IF n < k THEN f[n] ELSE Round(f[k - 1], k)]
    OBVIOUS
  <2>4. ASSUME NEW n \in 0..k PROVE h[n] = IF n = 0 THEN l ELSE Round(h[n - 1], n)
    <3>1. CASE n < k
      <4>1. h[n] = f[n] /\ n \in 0..k - 1
        BY <1>3, <2>3, <3>1
      <4>2. f[n] = IF n = 0 THEN l ELSE Round(f[n - 1], n)
        BY <2>2, <4>1
      <4>3. n # 0 => n - 1 \in 0..k /\ n - 1 < k
        BY <1>3, <3>1
      <4>4. n # 0 => h[n - 1] = f[n - 1]
        BY <2>3, <4>3
      <4> QED BY <4>1, <4>2, <4>4
    <3>2. CASE n = k
      <4>1. h[n] = Round(f[k - 1], k) /\ n # 0
        BY <1>3, <1>5, <2>3, <3>2
      <4>2. k - 1 \in 0..k /\ k - 1 < k
        BY <1>3, <1>5
      <4>3. h[k - 1] = f[k - 1]
        BY <2>3, <4>2
      <4> QED BY <3>2, <4>1, <4>3
    <3> QED BY <1>3, <3>1, <3>2
  <2>5. DOMAIN h = 0..k /\ h = [n \in 0..k |-> h[n]]
    BY <2>3
  <2>6. Is(h, k)
    BY <2>4, <2>5
  <2> QED BY <1>3, <2>6
<1> QED BY <1>3, <1>4, <1>5

\* offerAll
LEMMA OfferAll ==
    ASSUME NEW d \in DataType, NEW l, ListOK(l, d), l.list # <<>>, NEW order \in SetToSeqs(d.storage),
           NEW offered, NEW g \in BOOLEAN, NEW m, m = offerAll(l, d, order, offered, g)
    PROVE  /\ Grows(l, m, d)
           /\ g /\ l.targetSize > 0 /\ d.storage \subseteq offered => Full(m, d)
<1>1. IsFiniteSet(d.storage)
  BY ConnsAssumption, FS_Subset DEF DataType
<1>2. PICK k : k = Len(order)
  OBVIOUS
<1>3. k \in Nat /\ (\A n \in 1..k : order[n] \in d.storage) /\ \A c \in d.storage : \E n \in 1..k : order[n] = c
  BY <1>1, <1>2, OrderFacts
<1>4. PICK f : f = CHOOSE x : AreRounds(x, l, d, order, offered, g, k)
  OBVIOUS
<1>5. AreRounds(f, l, d, order, offered, g, k)
  BY <1>3, <1>4, RoundsExist
<1>6. m = f[k]
  BY <1>2, <1>4, Zenon DEF offerAll, AreRounds
<1>7. /\ f[0] = l
      /\ \A n \in 1..k : f[n] = IF order[n] \in offered THEN offer(f[n - 1], d, order[n], g) ELSE f[n - 1]
  BY <1>3, <1>5 DEF AreRounds
<1> DEFINE AllIn(n) == \A i \in 1..n : order[i] \in offered => containsItem(f[n], order[i])
           IsFull(n) == Len(f[n].list) = f[n].scrollOffset + f[n].targetSize
           Good(n) == Grows(l, f[n], d) /\ (g /\ l.targetSize > 0 => IsFull(n) \/ AllIn(n))
           U == {n \in 0..k : ~Good(n)}
<1>8. l \in ListType
  BY DEF ListOK
<1>9. Good(0)
  BY <1>7, GrowsItself
<1>10. ASSUME NEW n \in 1..k, Good(n - 1) PROVE Good(n)
  <2>1. PICK x, c : x = f[n - 1] /\ c = order[n] /\ c \in d.storage
    BY <1>3
  <2>2. /\ Grows(l, x, d)
        /\ g /\ l.targetSize > 0 => \/ Len(x.list) = x.scrollOffset + x.targetSize
                                    \/ \A i \in 1..n - 1 : order[i] \in offered => containsItem(x, order[i])
    BY <1>10, <2>1
  <2>3. ListOK(x, d) /\ x.list # <<>> /\ x \in ListType /\ x.targetSize = l.targetSize
    BY <2>2 DEF Grows, ListOK, Same, SameMode
  <2>4. PICK y : y = f[n]
    OBVIOUS
  <2>5. y = IF c \in offered THEN offer(x, d, c, g) ELSE x
    BY <1>7, <2>1, <2>4
  <2>6. /\ Grows(x, y, d)
        /\ g /\ l.targetSize > 0 => \/ Len(y.list) = y.scrollOffset + y.targetSize
                                    \/ c \in offered => containsItem(y, c)
    <3>1. CASE c \in offered
      <4>1. y = offer(x, d, c, g)
        BY <2>5, <3>1
      <4> QED BY <2>1, <2>3, <4>1, Offer
    <3>2. CASE c \notin offered
      BY <2>3, <2>5, <3>2, GrowsItself
    <3> QED BY <3>1, <3>2
  <2>7. /\ Grows(l, y, d)
        /\ Len(x.list) = x.scrollOffset + x.targetSize => Len(y.list) = y.scrollOffset + y.targetSize
    BY <1>8, <2>2, <2>6, GrowsTransitive
  <2>8. \/ Len(y.list) = y.scrollOffset + y.targetSize
        \/ \A b : containsItem(x, b) => containsItem(y, b)
    BY <2>6 DEF Grows
  <2>9. \A i \in 1..n : i \in 1..n - 1 \/ i = n
    BY <1>3
  <2>10. ASSUME g, l.targetSize > 0, Len(y.list) # y.scrollOffset + y.targetSize, NEW i \in 1..n,
                order[i] \in offered
         PROVE  containsItem(y, order[i])
    <3>1. CASE i = n
      BY <2>1, <2>6, <2>10, <3>1
    <3>2. CASE i \in 1..n - 1
      <4>1. containsItem(x, order[i])
        BY <2>2, <2>7, <2>10, <3>2
      <4> QED BY <2>8, <2>10, <4>1
    <3> QED BY <2>9, <3>1, <3>2
  <2> QED BY <2>4, <2>7, <2>10
<1>11. U = {}
  <2> SUFFICES ASSUME U # {} PROVE FALSE
    OBVIOUS
  <2>1. U \subseteq Nat
    BY <1>3
  <2>2. PICK n \in U : \A y \in U : n <= y
    <3> HIDE DEF U
    <3> QED BY <2>1, LeastNatural
  <2>3. n \in 0..k /\ ~Good(n)
    BY <2>2
  <2> HIDE DEF Good
  <2>4. n # 0
    BY <1>9, <2>3
  <2>5. n \in 1..k /\ n - 1 \in 0..k /\ ~(n <= n - 1)
    BY <1>3, <2>3, <2>4
  <2>6. Good(n - 1)
    BY <2>2, <2>5
  <2> QED BY <1>10, <2>3, <2>5, <2>6
<1>12. Good(k)
  <2>1. k \in 0..k
    BY <1>3
  <2> HIDE DEF Good
  <2> QED BY <1>11, <2>1
<1>13. ASSUME g, l.targetSize > 0, d.storage \subseteq offered PROVE Full(m, d)
  BY <1>3, <1>6, <1>12, <1>13 DEF Full
<1> QED BY <1>6, <1>12, <1>13

\* The list has no more items than there are connections, and as many only with all of them in it.
LEMMA CountList ==
    ASSUME NEW d \in DataType, NEW l \in ListType, NoTwice(l), Stored(l, d)
    PROVE  /\ IsFiniteSet(d.storage) /\ Cardinality(d.storage) \in Nat /\ Len(l.list) \in Nat
           /\ Len(l.list) <= Cardinality(d.storage)
           /\ Len(l.list) = Cardinality(d.storage) <=> \A c \in d.storage : containsItem(l, c)
<1>1. PICK S : S = d.storage
  OBVIOUS
<1>2. IsFiniteSet(S) /\ Cardinality(S) \in Nat
  <2>1. IsFiniteSet(S)
    BY <1>1, ConnsAssumption, FS_Subset DEF DataType
  <2> QED BY <2>1, FS_CardinalityType
<1>3. PICK n : n = Len(l.list)
  OBVIOUS
<1>4. n \in Nat /\ DOMAIN l.list = 1..n
  BY <1>3, ListFields
<1>5. PICK p : p = [i \in 1..n |-> l.list[i].conn]
  OBVIOUS
<1>6. p \in [1..n -> S] /\ \A i, j \in 1..n : p[i] = p[j] => i = j
  BY <1>1, <1>4, <1>5 DEF Stored, NoTwice
<1>7. p \in Injection(1..n, S)
  BY ONLY <1>6 DEF Injection, IsInjective
<1>8. Cardinality(1..n) = n
  BY ONLY <1>4, FS_Interval
<1>9. n <= Cardinality(S) /\ (n = Cardinality(S) <=> p \in Surjection(1..n, S))
  BY ONLY <1>2, <1>7, <1>8, FS_Injection
<1>10. p \in Surjection(1..n, S) <=> \A c \in S : \E i \in 1..n : p[i] = c
  BY ONLY <1>6 DEF Surjection
<1>11. \A c : containsItem(l, c) <=> \E i \in 1..n : p[i] = c
  BY <1>4, <1>5 DEF containsItem
<1> QED BY <1>1, <1>2, <1>3, <1>4, <1>9, <1>10, <1>11

\* m fills the window of l, if there is one.
Fills(l, m, d) ==
    /\ ListOK(m, d) /\ Same(l, m) /\ KeepsRows(l, m) /\ (l.refresh = TRUE => m.refresh = TRUE)
    /\ (m = l \/ m.refresh = TRUE)
    /\ Len(l.list) <= Len(m.list)
    /\ l.targetSize > 0 => Full(m, d)

\* A window that is full stays full.
LEMMA FullStays ==
    ASSUME NEW d, NEW l, Full(l, d), l \in ListType, NEW m, Grows(l, m, d)
    PROVE  Full(m, d)
<1>1. m \in ListType /\ SameMode(l, m) /\ Len(l.list) <= Len(m.list) /\ Len(m.list) <= m.scrollOffset + m.targetSize
  BY DEF Grows, ListOK, Bounded, Same
<1>2. Len(l.list) = l.scrollOffset + l.targetSize => Len(m.list) = m.scrollOffset + m.targetSize
  BY <1>1, ListFields DEF SameMode
<1> QED BY <1>2 DEF Full, Grows

\* fill
LEMMA Fill ==
    ASSUME NEW d \in DataType, NEW l, ListOK(l, d), NEW m \in fill(l, d)
    PROVE  Fills(l, m, d)
<1>1. /\ l \in ListType /\ Len(l.list) \in Nat /\ l.scrollOffset \in Nat /\ l.targetSize \in Nat
      /\ Len(l.list) <= l.scrollOffset + l.targetSize /\ NoTwice(l) /\ Stored(l, d)
  BY ListFields DEF ListOK, Bounded
<1>2. getSize(l) = IF Len(l.list) > l.scrollOffset THEN Len(l.list) - l.scrollOffset ELSE 0
  BY <1>1, Window
<1>3. /\ IsFiniteSet(d.storage) /\ Cardinality(d.storage) \in Nat
      /\ Len(l.list) <= Cardinality(d.storage)
      /\ Len(l.list) = Cardinality(d.storage) <=> \A c \in d.storage : containsItem(l, c)
  BY <1>1, CountList
<1>4. CASE l.targetSize <= getSize(l) \/ Cardinality(d.storage) <= Len(l.list)
  <2>1. m = l
    BY <1>4 DEF fill
  <2>2. l.targetSize > 0 => Full(l, d)
    BY <1>1, <1>2, <1>3, <1>4 DEF Full
  <2>3. Len(l.list) <= Len(l.list)
    BY <1>1
  <2> QED BY <2>1, <2>2, <2>3, KeepsItself DEF Fills
<1>5. CASE ~(l.targetSize <= getSize(l) \/ Cardinality(d.storage) <= Len(l.list))
  <2>1. PICK order \in SetToSeqs(d.storage) :
          m = [offerAll(IF l.list = <<>> THEN push_back(l, Head(order)) ELSE l, d, order, d.storage, TRUE)
               EXCEPT !.refresh = TRUE]
    BY <1>5 DEF fill
  <2>2. PICK start : start = IF l.list = <<>> THEN push_back(l, Head(order)) ELSE l
    OBVIOUS
  <2>3. PICK end : end = offerAll(start, d, order, d.storage, TRUE)
    OBVIOUS
  <2>4. m = [end EXCEPT !.refresh = TRUE]
    BY <2>1, <2>2, <2>3
  <2>5. l.targetSize > 0 /\ Len(l.list) < l.scrollOffset + l.targetSize
    BY <1>1, <1>2, <1>3, <1>5
  <2>6. Head(order) \in d.storage
    <3>1. Cardinality(d.storage) # 0
      BY <1>1, <1>3, <1>5
    <3>2. d.storage # {}
      BY <3>1, FS_EmptySet
    <3> QED BY <1>3, <3>2, FirstFacts
  <2>7. Grows(l, start, d)
    <3>1. CASE l.list = <<>>
      <4>1. start = push_back(l, Head(order))
        BY <2>2, <3>1
      <4>2. ~containsItem(l, Head(order))
        BY <3>1 DEF containsItem
      <4>3. Takes(l, start, d, Head(order))
        BY <2>5, <2>6, <3>1, <4>1, <4>2, PushBack
      <4> QED BY <4>3 DEF Takes, Grows
    <3>2. CASE l.list # <<>>
      BY <2>2, <3>2, GrowsItself
    <3> QED BY <3>1, <3>2
  <2>8. ListOK(start, d) /\ start.list # <<>> /\ start.targetSize > 0
    BY <2>5, <2>7 DEF Grows, Same, SameMode
  <2>9. Grows(start, end, d) /\ Full(end, d)
    BY <2>3, <2>8, OfferAll
  <2>10. Grows(l, end, d)
    BY <1>1, <2>7, <2>9, GrowsTransitive
  <2>11. end \in ListType /\ ListOK(end, d)
    BY <2>10 DEF Grows, ListOK
  <2>12. m \in ListType /\ Same(end, m) /\ m.list = end.list /\ m.refresh = TRUE
    BY <2>4, <2>11, Refreshed
  <2>13. SameConns(end, m) /\ KeepsRows(end, m) /\ SameMode(end, m)
    BY <2>12 DEF SameConns, KeepsRows, KeepsRow, Same, SameMode
  <2>14. ListOK(m, d) /\ Full(m, d)
    BY <2>9, <2>11, <2>12, <2>13, SameConnsOK DEF ListOK, Marked
  <2>15. KeepsRows(l, m)
    BY <1>1, <2>10, <2>11, <2>12, <2>13, KeepsTransitive DEF Grows
  <2>16. Same(l, m)
    BY <2>10, <2>12 DEF Grows, Same, SameMode
  <2>17. Len(l.list) <= Len(m.list)
    BY <2>10, <2>12 DEF Grows
  <2> QED BY <2>12, <2>14, <2>15, <2>16, <2>17 DEF Fills
<1> QED BY <1>4, <1>5

\* The same connections in another order, all of them to be drawn.
Reorders(l, m, d) ==
    /\ ListOK(m, d) /\ Same(l, m) /\ AllFresh(m) /\ m.refresh = TRUE
    /\ Len(m.list) = Len(l.list) /\ \A c : containsItem(m, c) <=> containsItem(l, c)

\* sort
LEMMA Sort ==
    ASSUME NEW d \in DataType, NEW l \in ListType, NoTwice(l), Stored(l, d), Bounded(l), NEW m \in sort(l, d)
    PROVE  Reorders(l, m, d)
<1>1. PICK n : n = Len(l.list)
  OBVIOUS
<1>2. /\ n \in Nat /\ DOMAIN l.list = 1..n /\ l.list \in Seq(Items)
      /\ \A i \in 1..n : l.list[i] \in Items /\ l.list[i].conn \in Conns
  BY <1>1, ListFields
<1>3. PICK p \in SetToSeqs(DOMAIN l.list) :
        /\ \A i \in 1..(Len(p) - 1) : ~compareFunc(l, d, l.list[p[i + 1]].conn, l.list[p[i]].conn)
        /\ m = invalidateAllVisible([l EXCEPT !.list = [i \in DOMAIN l.list |-> l.list[p[i]]]])
  BY DEF sort
<1>4. /\ Len(p) = n /\ \A i \in 1..n : p[i] \in 1..n
      /\ \A i, j \in 1..n : i # j => p[i] # p[j]
      /\ \A j \in 1..n : \E i \in 1..n : p[i] = j
  <2>1. IsFiniteSet(1..n) /\ Cardinality(1..n) = n
    BY <1>2, FS_Interval
  <2>2. p \in SetToSeqs(1..n)
    BY <1>2, <1>3
  <2>3. /\ Len(p) = Cardinality(1..n)
        /\ \A i \in 1..Len(p) : p[i] \in 1..n
        /\ \A i, j \in 1..Len(p) : i # j => p[i] # p[j]
        /\ \A c \in 1..n : \E i \in 1..Len(p) : p[i] = c
    BY ONLY <2>1, <2>2, OrderFacts
  <2> QED BY ONLY <2>1, <2>3
<1>5. PICK s : s = [i \in 1..n |-> l.list[p[i]]]
  OBVIOUS
<1>6. s \in Seq(Items) /\ Len(s) = n /\ DOMAIN s = 1..n /\ \A i \in 1..n : s[i] = l.list[p[i]]
  <2>1. \A i \in 1..n : l.list[p[i]] \in Items
    BY <1>2, <1>4
  <2>2. s \in [1..n -> Items] /\ \A i \in 1..n : s[i] = l.list[p[i]]
    BY ONLY <1>5, <2>1
  <2> QED BY ONLY <1>2, <2>2
<1>7. PICK k : k = [l EXCEPT !.list = s]
  OBVIOUS
<1>8. k \in ListType /\ Same(l, k) /\ k.list = s
  BY <1>6, <1>7, OnlyList
<1>9. m = invalidateAllVisible(k)
  BY <1>2, <1>3, <1>5, <1>7
<1>0. DOMAIN k.list = 1..n /\ \A i \in 1..n : k.list[i].conn = l.list[p[i]].conn
  BY <1>6, <1>8
<1>10. NoTwice(k)
  <2>1. \A i, j \in 1..n : l.list[i].conn = l.list[j].conn => i = j
    BY <1>2 DEF NoTwice
  <2>2. ASSUME NEW i \in 1..n, NEW j \in 1..n, k.list[i].conn = k.list[j].conn PROVE i = j
    <3>1. p[i] \in 1..n /\ p[j] \in 1..n /\ l.list[p[i]].conn = l.list[p[j]].conn
      BY ONLY <1>0, <1>4, <2>2
    <3>2. p[i] = p[j]
      BY ONLY <2>1, <3>1
    <3> QED BY ONLY <1>4, <2>2, <3>2
  <2> QED BY <1>0, <2>2 DEF NoTwice
<1>11. Stored(k, d) /\ Bounded(k)
  <2>1. \A i \in 1..n : l.list[i].conn \in d.storage
    BY <1>2 DEF Stored
  <2>2. Stored(k, d)
    BY ONLY <1>0, <1>4, <2>1, Zenon DEF Stored
  <2>3. Len(k.list) = Len(l.list)
    BY <1>1, <1>6, <1>8
  <2> QED BY <1>8, <2>2, <2>3 DEF Bounded, Same, SameMode
<1>12. \A c : containsItem(k, c) <=> containsItem(l, c)
  <2>1. ASSUME NEW c, containsItem(k, c) PROVE containsItem(l, c)
    <3>1. PICK i \in 1..n : k.list[i].conn = c
      BY <1>0, <2>1 DEF containsItem
    <3>2. p[i] \in 1..n /\ l.list[p[i]].conn = c
      BY <1>0, <1>4, <3>1
    <3> QED BY <1>2, <3>2 DEF containsItem
  <2>2. ASSUME NEW c, containsItem(l, c) PROVE containsItem(k, c)
    <3>1. PICK j \in 1..n : l.list[j].conn = c
      BY <1>2, <2>2 DEF containsItem
    <3>2. PICK i \in 1..n : p[i] = j
      BY <1>4, <3>1
    <3> QED BY <1>0, <3>1, <3>2 DEF containsItem
  <2> QED BY <2>1, <2>2
<1>13. Sorted(k, d)
  <2>1. PICK f : f = [i \in 1..n |-> Key(l, d, s[i].conn)]
    OBVIOUS
  <2>2. \A i \in 1..n : f[i] \in Int
    <3>1. \A i \in 1..n : s[i].conn \in Conns
      BY <1>2, <1>4, <1>6
    <3> QED BY <2>1, <3>1, Compare
  <2>3. ASSUME NEW i \in 1..n - 1 PROVE f[i] <= f[i + 1]
    <3>1. i \in 1..n /\ i + 1 \in 1..n /\ i \in 1..(Len(p) - 1)
      BY <1>2, <1>4
    <3>2. PICK a, b : a = l.list[p[i]].conn /\ b = l.list[p[i + 1]].conn
      OBVIOUS
    <3>3. a \in Conns /\ b \in Conns /\ ~compareFunc(l, d, b, a)
      BY <1>2, <1>3, <1>4, <3>1, <3>2
    <3>4. Key(l, d, a) \in Int /\ Key(l, d, b) \in Int /\ ~(Key(l, d, b) < Key(l, d, a))
      BY <3>3, Compare
    <3>5. f[i] = Key(l, d, a) /\ f[i + 1] = Key(l, d, b)
      BY <1>6, <2>1, <3>1, <3>2
    <3> QED BY ONLY <3>4, <3>5
  <2>4. \A i, j \in 1..n : i < j => f[i] <= f[j]
    BY ONLY <1>2, <2>2, <2>3, AdjacentSorted
  <2>5. \A i \in 1..n : Key(k, d, k.list[i].conn) = f[i]
    BY <1>8, <2>1, SameKey DEF Same
  <2> QED BY <1>6, <1>8, <2>4, <2>5 DEF Sorted
<1>14. Marks(k, m) /\ m.refresh = TRUE /\ AllFresh(m)
  BY <1>8, <1>9, AllVisible
<1>15. /\ NoTwice(m) /\ Stored(m, d) /\ Sorted(m, d) /\ Bounded(m) /\ m \in ListType
       /\ Len(m.list) = Len(k.list) /\ \A c : containsItem(m, c) <=> containsItem(k, c)
  BY <1>8, <1>10, <1>11, <1>13, <1>14, SameConnsOK DEF Marks, Same
<1>16. Same(l, m)
  BY <1>8, <1>14 DEF Marks, Same, SameMode
<1> QED BY <1>1, <1>6, <1>8, <1>12, <1>14, <1>15, <1>16 DEF Reorders, ListOK, Marked

\* find
LEMMA Find ==
    ASSUME NEW l \in ListType, NEW c
    PROVE  /\ find(l, c) \in 0..Len(l.list)
           /\ find(l, c) > 0 <=> containsItem(l, c)
           /\ find(l, c) > 0 => find(l, c) \in DOMAIN l.list /\ l.list[find(l, c)].conn = c
<1>1. PICK n : n = Len(l.list)
  OBVIOUS
<1>2. n \in Nat /\ DOMAIN l.list = 1..n
  BY <1>1, ListFields
<1>3. PICK I : I = {i \in 1..n : l.list[i].conn = c}
  OBVIOUS
<1>4. find(l, c) = IF I # {} THEN Min(I) ELSE 0
  BY <1>1, <1>3 DEF find, SelectInSeq
<1>5. CASE I = {}
  BY <1>1, <1>2, <1>3, <1>4, <1>5 DEF containsItem
<1>6. CASE I # {}
  <2>1. \E x \in I : \A y \in I : x <= y
    <3>1. I \subseteq Nat
      BY <1>2, <1>3
    <3> QED BY ONLY <1>6, <3>1, LeastNatural
  <2>2. Min(I) \in I
    BY <2>1, Zenon DEF Min
  <2> QED BY <1>1, <1>2, <1>3, <1>4, <1>6, <2>2 DEF containsItem
<1> QED BY <1>5, <1>6

-----------------------------------------------------------------------------
(***************************************************************************)
(* The operations: from one state in which the list is in order to another *)
(* one, and what is drawn again.                                           *)
(***************************************************************************)
ListInv(l, d) ==
    /\ ListOK(l, d) /\ Marked(l)
    /\ l.targetSize > 0 => Full(l, d)
    /\ l.cursorPos <= getCursorMaxPos(l)

\* A cursor on a row stays on a row if the list does not become shorter.
LEMMA CursorStays ==
    ASSUME NEW l \in ListType, NEW m \in ListType, m.scrollOffset = l.scrollOffset,
           m.cursorPos = l.cursorPos, Len(l.list) <= Len(m.list), l.cursorPos <= getCursorMaxPos(l)
    PROVE  m.cursorPos <= getCursorMaxPos(m)
<1>1. /\ Len(l.list) \in Nat /\ Len(m.list) \in Nat /\ l.scrollOffset \in Nat /\ l.cursorPos \in Nat
  BY ListFields
<1>2. /\ getSize(l) = (IF Len(l.list) > l.scrollOffset THEN Len(l.list) - l.scrollOffset ELSE 0)
      /\ getCursorMaxPos(l) = (IF getSize(l) > 0 THEN getSize(l) - 1 ELSE 0)
      /\ getSize(m) = (IF Len(m.list) > m.scrollOffset THEN Len(m.list) - m.scrollOffset ELSE 0)
      /\ getCursorMaxPos(m) = (IF getSize(m) > 0 THEN getSize(m) - 1 ELSE 0)
  BY Window
<1> QED BY ONLY <1>1, <1>2, m.scrollOffset = l.scrollOffset, m.cursorPos = l.cursorPos,
                Len(l.list) <= Len(m.list), l.cursorPos <= getCursorMaxPos(l)

\* Data that changed without an effect on the items of the list.
LEMMA OtherData ==
    ASSUME NEW d, NEW e \in DataType, NEW l, ListOK(l, d),
           \A i \in DOMAIN l.list :
               l.list[i].conn \in e.storage /\ Key(l, e, l.list[i].conn) = Key(l, d, l.list[i].conn)
    PROVE  ListOK(l, e)
<1>1. Stored(l, e)
  BY DEF Stored
<1>2. Sorted(l, e)
  BY DEF ListOK, Sorted
<1> QED BY <1>1, <1>2 DEF ListOK

\* The key of a connection depends on the names and on its traffic only.
LEMMA SameData ==
    ASSUME NEW l, NEW d, NEW e, NEW c, e.name = d.name, e.traffic[c] = d.traffic[c]
    PROVE  Key(l, e, c) = Key(l, d, c)
BY DEF Key, updateCompareFunc, hostnameKey, serviceKey, trafficKey

\* A list that grew out of one in order is in order.
LEMMA GrowsInv ==
    ASSUME NEW d, NEW l \in ListType, Marked(l), l.targetSize > 0 => Full(l, d),
           l.cursorPos <= getCursorMaxPos(l), NEW m, Grows(l, m, d)
    PROVE  ListInv(m, d) /\ Same(l, m) /\ KeepsRows(l, m)
<1>1. m \in ListType /\ Same(l, m) /\ KeepsRows(l, m) /\ ListOK(m, d)
  BY DEF Grows, ListOK
<1>2. m.scrollOffset = l.scrollOffset /\ m.cursorPos = l.cursorPos /\ m.targetSize = l.targetSize
  BY <1>1 DEF Same, SameMode
<1>3. m.targetSize > 0 => Full(m, d)
  BY <1>2, FullStays
<1>4. m.cursorPos <= getCursorMaxPos(m)
  BY <1>1, <1>2, CursorStays DEF Grows
<1>5. Marked(m)
  BY DEF Grows, Marked
<1> QED BY <1>1, <1>3, <1>4, <1>5 DEF ListInv

\* So is one that was filled.
LEMMA FillsInv ==
    ASSUME NEW d, NEW l \in ListType, Marked(l), l.cursorPos <= getCursorMaxPos(l), NEW m, Fills(l, m, d)
    PROVE  ListInv(m, d) /\ Same(l, m) /\ KeepsRows(l, m)
<1>1. m \in ListType /\ Same(l, m) /\ KeepsRows(l, m) /\ ListOK(m, d)
  BY DEF Fills, ListOK
<1>2. m.scrollOffset = l.scrollOffset /\ m.cursorPos = l.cursorPos /\ m.targetSize = l.targetSize
  BY <1>1 DEF Same, SameMode
<1>3. m.targetSize > 0 => Full(m, d)
  BY <1>2 DEF Fills
<1>4. m.cursorPos <= getCursorMaxPos(m)
  BY <1>1, <1>2, CursorStays DEF Fills
<1>5. Marked(m)
  BY DEF Fills, Marked
<1> QED BY <1>1, <1>3, <1>4, <1>5 DEF ListInv

\* e is d with the connection c.
Adds(d, e, c) ==
    /\ c \notin d.storage /\ e.storage = d.storage \cup {c} /\ e.name = d.name
    /\ \A b \in d.storage : e.traffic[b] = d.traffic[b]

\* handleNewConnection
LEMMA NewConnection ==
    ASSUME NEW d \in DataType, NEW e \in DataType, NEW c \in Conns, Adds(d, e, c), NEW l, ListInv(l, d),
           NEW m, m = handleNewConnection(l, e, c)
    PROVE  ListInv(m, e) /\ Same(l, m) /\ KeepsRows(l, m)
<1>1. l \in ListType /\ Marked(l) /\ l.cursorPos <= getCursorMaxPos(l) /\ (l.targetSize > 0 => Full(l, d))
  BY DEF ListInv, ListOK
<1>2. \A i \in DOMAIN l.list : l.list[i].conn \in d.storage
  BY DEF ListInv, ListOK, Stored
<1>3. ListOK(l, e)
  <2>1. ASSUME NEW i \in DOMAIN l.list
        PROVE  l.list[i].conn \in e.storage /\ Key(l, e, l.list[i].conn) = Key(l, d, l.list[i].conn)
    BY <1>2, SameData DEF Adds
  <2> QED BY <2>1, OtherData DEF ListInv
<1>4. c \in e.storage /\ ~containsItem(l, c)
  BY <1>2 DEF Adds, containsItem
<1>5. /\ Len(l.list) \in Nat /\ l.scrollOffset \in Nat /\ l.targetSize \in Nat
      /\ Len(l.list) <= l.scrollOffset + l.targetSize
      /\ getSize(l) = IF Len(l.list) > l.scrollOffset THEN Len(l.list) - l.scrollOffset ELSE 0
  BY <1>1, <1>3, ListFields, Window DEF ListOK, Bounded
<1>6. CASE getSize(l) >= l.targetSize /\ (l.list = <<>> \/ ~compareFunc(l, e, c, back(l)))
  <2>1. ~(l.list # <<>> /\ compareFunc(l, e, c, back(l))) /\ ~(getSize(l) < l.targetSize)
    BY <1>5, <1>6
  <2>2. m = l
    BY <2>1 DEF handleNewConnection
  <2>3. l.targetSize > 0 => Full(l, e)
    BY <1>5, <1>6 DEF Full
  <2> QED BY <1>1, <1>3, <2>2, <2>3, KeepsItself DEF ListInv
<1>7. CASE ~(getSize(l) >= l.targetSize /\ (l.list = <<>> \/ ~compareFunc(l, e, c, back(l))))
  <2>1. Takes(l, m, e, c)
    <3>1. CASE l.list # <<>> /\ compareFunc(l, e, c, back(l))
      <4>1. m = insertItem(l, e, c)
        BY <3>1 DEF handleNewConnection
      <4> QED BY <1>3, <1>4, <3>1, <4>1, InsertItem
    <3>2. CASE ~(l.list # <<>> /\ compareFunc(l, e, c, back(l)))
      <4>1. getSize(l) < l.targetSize /\ Len(l.list) < l.scrollOffset + l.targetSize
        BY <1>5, <1>7, <3>2
      <4>2. m = push_back(l, c)
        BY <3>2, <4>1 DEF handleNewConnection
      <4> QED BY <1>3, <1>4, <3>2, <4>1, <4>2, PushBack
    <3> QED BY <3>1, <3>2
  <2>2. m \in ListType /\ ListOK(m, e) /\ Same(l, m) /\ KeepsRows(l, m) /\ Marked(m)
    BY <2>1 DEF Takes, ListOK, Marked
  <2>3. m.scrollOffset = l.scrollOffset /\ m.cursorPos = l.cursorPos /\ m.targetSize = l.targetSize
    BY <2>2 DEF Same, SameMode
  <2>4. m.cursorPos <= getCursorMaxPos(m)
    BY <1>1, <2>1, <2>2, <2>3, CursorStays DEF Takes
  <2>5. m.targetSize > 0 => Full(m, e)
    <3>1. CASE Len(m.list) = m.scrollOffset + m.targetSize
      BY <3>1 DEF Full
    <3>2. CASE Len(m.list) # m.scrollOffset + m.targetSize
      <4>1. Len(l.list) # l.scrollOffset + l.targetSize
        <5>1. Len(l.list) <= Len(m.list) /\ Len(m.list) <= m.scrollOffset + m.targetSize /\ Len(m.list) \in Nat
          BY <2>1, <2>2, ListFields DEF Takes, ListOK, Bounded
        <5> QED BY <1>5, <2>3, <3>2, <5>1
      <4>2. containsItem(m, c) /\ \A b : containsItem(l, b) => containsItem(m, b)
        BY <2>1, <3>2 DEF Takes
      <4> QED BY <1>1, <2>3, <4>1, <4>2 DEF Full, Adds
    <3> QED BY <3>1, <3>2
  <2> QED BY <2>2, <2>4, <2>5 DEF ListInv
<1> QED BY <1>6, <1>7

\* e is d without the connection c.
Removes(d, e, c) ==
    /\ e.storage = d.storage \ {c} /\ e.name = d.name
    /\ \A b \in e.storage : e.traffic[b] = d.traffic[b]

\* The dialog is told.
Forgets(l, m, c) ==
    /\ m.detail = (IF l.detail = c THEN None ELSE l.detail)
    /\ m.detailStale = (IF l.detail = c THEN Fields ELSE l.detailStale)

\* The item at position i is gone, or nothing if there was none.
ErasedAt(l, m, i) ==
    \/ i = 0 /\ m.list = l.list
    \/ /\ i \in 1..Len(l.list) /\ Len(m.list) = Len(l.list) - 1
       /\ \A j \in 1..Len(l.list) - 1 : m.list[j] = IF j < i THEN l.list[j] ELSE l.list[j + 1]

\* erase
LEMMA Erase ==
    ASSUME NEW l \in ListType, NEW c \in Conns, NEW m, m = erase(l, c)
    PROVE  /\ m \in ListType /\ SameMode(l, m) /\ m.cursorPos = l.cursorPos /\ m.refresh = l.refresh
           /\ Forgets(l, m, c) /\ ErasedAt(l, m, find(l, c))
<1>1. PICK i : i = find(l, c)
  OBVIOUS
<1>2. i \in 0..Len(l.list) /\ (i > 0 <=> containsItem(l, c)) /\ Len(l.list) \in Nat /\ l.list \in Seq(Items)
  BY <1>1, Find, ListFields
<1>3. PICK s, x, y : /\ s = IF containsItem(l, c) THEN RemoveAt(l.list, find(l, c)) ELSE l.list
                     /\ x = IF l.detail = c THEN None ELSE l.detail
                     /\ y = IF l.detail = c THEN Fields ELSE l.detailStale
  OBVIOUS
<1>4. m = [l EXCEPT !.detail = x, !.detailStale = y, !.list = s]
  BY <1>3, Zenon DEF erase
<1>5. s \in Seq(Items) /\ \/ i = 0 /\ s = l.list
                          \/ /\ i \in 1..Len(l.list) /\ Len(s) = Len(l.list) - 1
                             /\ \A j \in 1..Len(l.list) - 1 : s[j] = IF j < i THEN l.list[j] ELSE l.list[j + 1]
  <2>1. CASE i = 0
    BY <1>2, <1>3, <2>1
  <2>2. CASE i # 0
    <3>1. i \in 1..Len(l.list) /\ s = RemoveAt(l.list, i)
      BY <1>1, <1>2, <1>3, <2>2
    <3>2. PICK q : q = l.list
      OBVIOUS
    <3>3. q \in Seq(Items) /\ i \in 1..Len(q) /\ s = RemoveAt(q, i)
      BY <1>2, <3>1, <3>2
    <3>4. /\ RemoveAt(q, i) \in Seq(Items) /\ Len(RemoveAt(q, i)) = Len(q) - 1
          /\ \A j \in 1..Len(q) - 1 : RemoveAt(q, i)[j] = IF j < i THEN q[j] ELSE q[j + 1]
      BY ONLY <3>3, RemoveAtFacts
    <3> QED BY ONLY <3>1, <3>2, <3>3, <3>4
  <2> QED BY <2>1, <2>2
<1>6. x \in Conns \cup {None} /\ y \subseteq Fields
  BY <1>3, ListFields
<1>7. /\ m \in ListType /\ SameMode(l, m) /\ m.cursorPos = l.cursorPos /\ m.refresh = l.refresh
      /\ m.detail = x /\ m.detailStale = y /\ m.list = s
  BY <1>4, <1>5, <1>6 DEF ListType, SameMode
<1>8. Forgets(l, m, c)
  BY <1>3, <1>7 DEF Forgets
<1>9. ErasedAt(l, m, i)
  BY <1>5, <1>7 DEF ErasedAt
<1> QED BY <1>1, <1>7, <1>8, <1>9

\* What is left is in order.
LEMMA ErasedOK ==
    ASSUME NEW d \in DataType, NEW e \in DataType, NEW c \in Conns, Removes(d, e, c), NEW l, ListOK(l, d),
           NEW m \in ListType, SameMode(l, m), NEW i, i = find(l, c), ErasedAt(l, m, i)
    PROVE  ListOK(m, e)
<1>1. l \in ListType
  BY DEF ListOK
<1>2. PICK n : n = Len(l.list)
  OBVIOUS
<1>3. /\ n \in Nat /\ DOMAIN l.list = 1..n /\ i \in 0..n /\ DOMAIN m.list = 1..Len(m.list)
      /\ i > 0 <=> containsItem(l, c)
      /\ i > 0 => l.list[i].conn = c
  BY <1>1, <1>2, Find, ListFields
<1> DEFINE From(j) == IF i = 0 \/ j < i THEN j ELSE j + 1
<1>4. /\ Len(m.list) \in Nat /\ Len(m.list) <= n
      /\ \A j \in DOMAIN m.list : From(j) \in 1..n /\ From(j) # i /\ m.list[j] = l.list[From(j)]
  <2>1. CASE i = 0
    <3>1. m.list = l.list
      BY <1>3, <2>1 DEF ErasedAt
    <3> QED BY <1>2, <1>3, <2>1, <3>1
  <2>2. CASE i # 0
    <3>1. /\ i \in 1..n /\ Len(m.list) = n - 1
          /\ \A j \in 1..n - 1 : m.list[j] = IF j < i THEN l.list[j] ELSE l.list[j + 1]
      BY <1>2, <1>3, <2>2 DEF ErasedAt
    <3> QED BY <1>3, <2>2, <3>1
  <2> QED BY <2>1, <2>2
<1>5. \A j, k \in DOMAIN m.list : j < k => From(j) < From(k)
  BY <1>3, <1>4
<1> HIDE DEF From
<1>6. \A j \in 1..n : j # i => l.list[j].conn # c
  <2>1. \A j, k \in 1..n : l.list[j].conn = l.list[k].conn => j = k
    BY <1>3 DEF ListOK, NoTwice
  <2>2. CASE i = 0
    BY <1>3, <2>2 DEF containsItem
  <2>3. CASE i # 0
    <3>1. i \in 1..n /\ l.list[i].conn = c
      BY <1>3, <2>3
    <3> QED BY <2>1, <3>1
  <2> QED BY <2>2, <2>3
<1>7. \A j \in DOMAIN m.list : m.list[j].conn \in d.storage /\ m.list[j].conn \in e.storage
  <2>1. \A j \in 1..n : l.list[j].conn \in d.storage
    BY <1>3 DEF ListOK, Stored
  <2> QED BY <1>4, <1>6, <2>1 DEF Removes
<1>8. Stored(m, e)
  BY <1>7 DEF Stored
<1>9. NoTwice(m)
  <2>1. SUFFICES ASSUME NEW j \in DOMAIN m.list, NEW k \in DOMAIN m.list, j < k
                 PROVE  m.list[j].conn # m.list[k].conn
    <3>1. \A j, k \in DOMAIN m.list : j < k \/ k < j \/ j = k
      BY <1>3, <1>4
    <3> QED BY <3>1 DEF NoTwice
  <2>2. From(j) \in 1..n /\ From(k) \in 1..n /\ From(j) # From(k)
    BY <1>4, <1>5, <2>1
  <2> QED BY <1>3, <1>4, <2>1, <2>2 DEF ListOK, NoTwice
<1>10. Sorted(m, e)
  <2>1. SUFFICES ASSUME NEW j \in DOMAIN m.list, NEW k \in DOMAIN m.list, j < k
                 PROVE  Key(m, e, m.list[j].conn) <= Key(m, e, m.list[k].conn)
    BY DEF Sorted
  <2>2. From(j) \in 1..n /\ From(k) \in 1..n /\ From(j) < From(k)
    BY <1>4, <1>5, <2>1
  <2>3. Key(l, d, l.list[From(j)].conn) <= Key(l, d, l.list[From(k)].conn)
    BY <1>3, <2>2 DEF ListOK, Sorted
  <2>4. \A b \in e.storage : Key(m, e, b) = Key(l, d, b)
    BY SameKey, SameData DEF Removes
  <2> QED BY <1>4, <1>7, <2>1, <2>3, <2>4
<1>11. Bounded(m)
  <2>1. n <= l.scrollOffset + l.targetSize /\ l.scrollOffset \in Nat /\ l.targetSize \in Nat
    BY <1>1, <1>2, ListFields DEF ListOK, Bounded
  <2> QED BY <1>3, <1>4, <2>1 DEF Bounded, SameMode
<1> QED BY <1>8, <1>9, <1>10, <1>11 DEF ListOK

\* handleRemovedConnection
LEMMA RemovedConnection ==
    ASSUME NEW d \in DataType, NEW e \in DataType, NEW c \in Conns, Removes(d, e, c), NEW l, ListInv(l, d),
           NEW m \in handleRemovedConnection(l, e, c)
    PROVE  ListInv(m, e) /\ SameMode(l, m) /\ Forgets(l, m, c) /\ KeepsRows(l, m)
<1>1. l \in ListType /\ ListOK(l, d)
  BY DEF ListInv, ListOK
<1>2. PICK i, gone : i = find(l, c) /\ gone = erase(l, c)
  OBVIOUS
<1>3. PICK W : W = {j \in Visible(gone) : i > 0 /\ j >= i}
  OBVIOUS
<1>4. PICK marked : marked = Mark(gone, Fields, W)
  OBVIOUS
<1>5. PICK k \in fill(marked, e) : m = [clampCursor(k) EXCEPT !.refresh = TRUE]
  BY <1>2, <1>3, <1>4 DEF handleRemovedConnection
<1>6. /\ gone \in ListType /\ SameMode(l, gone) /\ gone.cursorPos = l.cursorPos
      /\ Forgets(l, gone, c) /\ ErasedAt(l, gone, i)
  BY <1>1, <1>2, Erase
<1>7. ListOK(gone, e)
  BY <1>1, <1>2, <1>6, ErasedOK
<1>8. /\ marked \in ListType /\ Same(gone, marked) /\ SameConns(gone, marked)
      /\ MarkedAt(gone, marked, Fields, W)
  BY <1>4, <1>6, MarkFacts
<1>9. ListOK(marked, e)
  BY <1>6, <1>7, <1>8, SameConnsOK DEF ListOK, Same
<1>10. KeepsRows(l, marked)
  <2>1. SUFFICES ASSUME NEW j \in DOMAIN marked.list, j > marked.scrollOffset, marked.list[j].stale # Fields
                 PROVE  KeepsRow(l, marked, j)
    BY DEF KeepsRows, KeepsRow
  <2>2. /\ j \in DOMAIN gone.list /\ j > gone.scrollOffset
        /\ gone.scrollOffset = l.scrollOffset /\ marked.scrollOffset = l.scrollOffset
        /\ marked.cursorPos = l.cursorPos
    BY <1>6, <1>8, <2>1 DEF SameConns, Same, SameMode
  <2>3. j \in Visible(gone) /\ gone.list[j].stale \subseteq Fields
    BY <1>6, <2>2, Window, ListFields
  <2>4. j \notin W
    BY <1>8, <2>1, <2>2, <2>3 DEF MarkedAt
  <2>5. i \in 0..Len(l.list) /\ Len(l.list) \in Nat /\ DOMAIN l.list = 1..Len(l.list)
        /\ DOMAIN gone.list = 1..Len(gone.list)
    BY <1>1, <1>2, <1>6, Find, ListFields
  <2>6. i = 0 \/ j < i
    BY <1>3, <2>2, <2>3, <2>4, <2>5
  <2>7. j \in DOMAIN l.list /\ gone.list[j] = l.list[j]
    <3>1. CASE i = 0
      BY <1>6, <2>2, <2>5, <3>1 DEF ErasedAt
    <3>2. CASE i # 0
      <4>1. /\ Len(gone.list) = Len(l.list) - 1
            /\ \A h \in 1..Len(l.list) - 1 : gone.list[h] = IF h < i THEN l.list[h] ELSE l.list[h + 1]
        BY <1>6, <3>2 DEF ErasedAt
      <4> QED BY <2>2, <2>5, <2>6, <3>2, <4>1
    <3> QED BY <3>1, <3>2
  <2>8. marked.list[j].conn = gone.list[j].conn /\ marked.list[j].stale = gone.list[j].stale
    BY <1>8, <2>2, <2>4 DEF SameConns, MarkedAt
  <2> QED BY <2>2, <2>7, <2>8 DEF KeepsRow
<1>11. Fills(marked, k, e)
  BY <1>5, <1>9, Fill
<1>12. k \in ListType /\ ListOK(k, e) /\ Same(marked, k) /\ KeepsRows(marked, k) /\ (k.targetSize > 0 => Full(k, e))
  BY <1>11 DEF Fills, ListOK, Same, SameMode
<1>13. PICK h : h = clampCursor(k)
  OBVIOUS
<1>14. /\ h \in ListType /\ SameButCursor(k, h) /\ SameConns(k, h) /\ KeepsRows(k, h)
       /\ h.cursorPos <= getCursorMaxPos(h)
  BY <1>12, <1>13, Clamp
<1>15. ListOK(h, e) /\ (h.targetSize > 0 => Full(h, e))
  BY <1>12, <1>14, SameConnsOK DEF ListOK, SameButCursor, SameMode
<1>16. m \in ListType /\ Same(h, m) /\ m.list = h.list /\ m.refresh = TRUE
  BY <1>5, <1>13, <1>14, Refreshed
<1>17. SameConns(h, m) /\ KeepsRows(h, m) /\ SameMode(h, m)
  BY <1>16 DEF SameConns, KeepsRows, KeepsRow, Same, SameMode
<1>18. ListOK(m, e) /\ (m.targetSize > 0 => Full(m, e))
  BY <1>14, <1>15, <1>16, <1>17, SameConnsOK DEF ListOK, SameMode
<1>19. m.cursorPos <= getCursorMaxPos(m)
  BY <1>14, <1>16 DEF getCursorMaxPos, getSize, Same, SameMode
<1>20. KeepsRows(l, m)
  <2>1. KeepsRows(l, k)
    BY <1>1, <1>8, <1>10, <1>12, KeepsTransitive
  <2>2. KeepsRows(l, h)
    BY <1>1, <1>12, <1>14, <2>1, KeepsTransitive
  <2> QED BY <1>1, <1>14, <1>16, <1>17, <2>2, KeepsTransitive
<1>21. SameMode(l, m)
  BY <1>6, <1>8, <1>12, <1>14, <1>17 DEF Same, SameButCursor, SameMode
<1>22. Forgets(l, m, c)
  BY <1>6, <1>8, <1>12, <1>14, <1>16 DEF Forgets, Same, SameButCursor
<1> QED BY <1>16, <1>18, <1>19, <1>20, <1>21, <1>22 DEF ListInv, Marked

\* clear
LEMMA Clear ==
    ASSUME NEW d \in DataType, d.storage = {}, NEW l \in ListType, NEW m, m = clear(l)
    PROVE  ListInv(m, d) /\ SameMode(l, m) /\ m.detail = None /\ m.detailStale = Fields /\ KeepsRows(l, m)
<1>1. <<>> \in Seq(Items) /\ 0 \in Nat /\ None \in Conns \cup {None} /\ Fields \subseteq Fields
  OBVIOUS
<1>2. /\ m \in ListType /\ SameMode(l, m) /\ m.list = <<>> /\ m.cursorPos = 0
      /\ m.detail = None /\ m.detailStale = Fields /\ m.refresh = TRUE
  BY <1>1 DEF clear, ListType, SameMode
<1>3. DOMAIN m.list = {} /\ Len(m.list) = 0
  BY <1>2
<1>4. NoTwice(m) /\ Stored(m, d) /\ Sorted(m, d) /\ Marked(m) /\ KeepsRows(l, m)
  BY <1>2, <1>3 DEF NoTwice, Stored, Sorted, Marked, KeepsRows
<1>5. Bounded(m) /\ Full(m, d) /\ m.cursorPos <= getCursorMaxPos(m)
  BY <1>2, <1>3, ListFields, Window DEF Bounded, Full
<1> QED BY <1>2, <1>4, <1>5 DEF ListInv, ListOK

\* m draws again, of every visible connection, what Has says; if it is all, whatever was there.
Follows(l, m, Has) ==
    /\ KeepsRows(l, m)
    /\ \A i \in DOMAIN m.list : i > m.scrollOffset => Has[m.list[i].conn] \subseteq m.list[i].stale

\* What is to be drawn stays to be drawn.
LEMMA FollowsKept ==
    ASSUME NEW l \in ListType, NEW m \in ListType, NEW n \in ListType, NEW Has \in [Conns -> SUBSET Fields],
           Follows(l, m, Has), KeepsRows(m, n)
    PROVE  Follows(l, n, Has)
<1>1. KeepsRows(l, n)
  BY KeepsTransitive DEF Follows
<1>2. ASSUME NEW i \in DOMAIN n.list, i > n.scrollOffset
      PROVE  Has[n.list[i].conn] \subseteq n.list[i].stale
  <2>1. n.list[i].conn \in Conns
    BY ListFields
  <2>2. CASE n.list[i].stale = Fields
    BY <2>1, <2>2
  <2>3. CASE n.list[i].stale # Fields
    <3>1. /\ m.scrollOffset = n.scrollOffset /\ i \in DOMAIN m.list
          /\ n.list[i].conn = m.list[i].conn /\ m.list[i].stale \subseteq n.list[i].stale
      BY <1>2, <2>3 DEF KeepsRows, KeepsRow
    <3>2. Has[m.list[i].conn] \subseteq m.list[i].stale
      BY <1>2, <3>1 DEF Follows
    <3> QED BY <3>1, <3>2
  <2> QED BY <2>2, <2>3
<1> QED BY <1>1, <1>2 DEF Follows

\* Only the dialog is told.
LEMMA Told ==
    ASSUME NEW l \in ListType, NEW y, y \subseteq Fields, NEW m, m = [l EXCEPT !.detailStale = y]
    PROVE  /\ m \in ListType /\ SameMode(l, m) /\ m.cursorPos = l.cursorPos /\ m.detail = l.detail
           /\ m.detailStale = y /\ m.list = l.list /\ m.refresh = l.refresh
           /\ SameConns(l, m) /\ KeepsRows(l, m) /\ (Marked(l) => Marked(m))
           /\ getCursorMaxPos(m) = getCursorMaxPos(l)
<1>1. /\ m \in ListType /\ SameMode(l, m) /\ m.cursorPos = l.cursorPos /\ m.detail = l.detail
      /\ m.detailStale = y /\ m.list = l.list /\ m.refresh = l.refresh
  BY DEF ListType, SameMode
<1>2. SameConns(l, m) /\ KeepsRows(l, m)
  BY <1>1 DEF SameConns, KeepsRows, KeepsRow, SameMode
<1>3. Marked(l) => Marked(m)
  BY <1>1 DEF Marked, SameMode
<1>4. getCursorMaxPos(m) = getCursorMaxPos(l)
  BY <1>1 DEF getCursorMaxPos, getSize, SameMode
<1> QED BY <1>1, <1>2, <1>3, <1>4

\* An item whose data changed is in its place if it is in order with the ones beside it.
LEMMA UpdatedSorted ==
    ASSUME NEW d \in DataType, NEW e \in DataType, NEW l, ListOK(l, d), NEW i \in DOMAIN l.list,
           \A j \in DOMAIN l.list : j # i => Key(l, e, l.list[j].conn) = Key(l, d, l.list[j].conn),
           i > 1 => ~compareFunc(l, e, l.list[i].conn, l.list[i - 1].conn),
           i # Len(l.list) => ~compareFunc(l, e, l.list[i + 1].conn, l.list[i].conn)
    PROVE  Sorted(l, e)
<1>1. l \in ListType
  BY DEF ListOK
<1>2. PICK n : n = Len(l.list)
  OBVIOUS
<1>3. n \in Nat /\ DOMAIN l.list = 1..n /\ i \in 1..n /\ \A j \in 1..n : l.list[j].conn \in Conns
  BY <1>1, <1>2, ListFields
<1>4. PICK f : f = [j \in 1..n |-> Key(l, e, l.list[j].conn)]
  OBVIOUS
<1>5. \A j \in 1..n : f[j] \in Int
  BY <1>1, <1>3, <1>4, Compare
<1>6. ASSUME NEW j \in 1..n - 1 PROVE f[j] <= f[j + 1]
  <2>1. j \in 1..n /\ j + 1 \in 1..n /\ j < j + 1
    BY <1>3
  <2>2. compareFunc(l, e, l.list[j + 1].conn, l.list[j].conn) <=> f[j + 1] < f[j]
    BY <1>1, <1>3, <1>4, <2>1, Compare
  <2>3. CASE j = i
    <3>1. i # Len(l.list)
      BY <1>2, <1>3, <2>1, <2>3
    <3>2. ~(f[j + 1] < f[j])
      BY <2>2, <2>3, <3>1
    <3> QED BY <1>5, <2>1, <3>2
  <2>4. CASE j + 1 = i
    <3>1. i > 1 /\ i - 1 = j
      BY <1>3, <2>1, <2>4
    <3>2. ~(f[j + 1] < f[j])
      BY <2>2, <2>4, <3>1
    <3> QED BY <1>5, <2>1, <3>2
  <2>5. CASE j # i /\ j + 1 # i
    <3>1. Key(l, d, l.list[j].conn) <= Key(l, d, l.list[j + 1].conn)
      BY <1>3, <2>1 DEF ListOK, Sorted
    <3> QED BY <1>3, <1>4, <2>1, <2>5, <3>1
  <2> QED BY <2>3, <2>4, <2>5
<1>7. \A j, k \in 1..n : j < k => f[j] <= f[k]
  BY ONLY <1>3, <1>5, <1>6, AdjacentSorted
<1> QED BY <1>3, <1>4, <1>7 DEF Sorted

\* A list with the items of one that is in order, itself in order by the new data.
LEMMA MovesInv ==
    ASSUME NEW d, NEW e, e.storage = d.storage, NEW l, ListInv(l, d), NEW m, ListOK(m, e), Marked(m),
           SameMode(l, m), m.cursorPos = l.cursorPos,
           Len(m.list) = Len(l.list), \A c : containsItem(m, c) <=> containsItem(l, c)
    PROVE  ListInv(m, e)
<1>1. l \in ListType /\ m \in ListType
  BY DEF ListInv, ListOK
<1>2. m.scrollOffset = l.scrollOffset /\ m.targetSize = l.targetSize
  BY DEF SameMode
<1>3. m.targetSize > 0 => Full(m, e)
  BY <1>2 DEF Full, ListInv
<1>4. m.cursorPos <= getCursorMaxPos(m)
  <2>1. Len(l.list) <= Len(m.list)
    BY <1>1, ListFields
  <2> QED BY <1>1, <1>2, <2>1, CursorStays DEF ListInv
<1> QED BY <1>3, <1>4 DEF ListInv

\* e is d with other traffic of the connection c.
Counts(d, e, c) ==
    /\ e.storage = d.storage /\ e.name = d.name
    /\ \A b \in d.storage : b # c => e.traffic[b] = d.traffic[b]

\* What changed in each connection if F changed in c.
Only(c, F) == [b \in Conns |-> IF b = c THEN F ELSE {}]

\* The dialog is told about F if it shows c.
Tells(l, m, c, F) ==
    m.detail = l.detail /\ m.detailStale = (IF l.detail = c THEN F ELSE l.detailStale)

\* The item at i is to be drawn again if it is visible.
LEMMA DrawItem ==
    ASSUME NEW l \in ListType, Marked(l), NEW c \in Conns, NEW F, F \subseteq Fields,
           NEW i \in DOMAIN l.list, l.list[i].conn = c, NoTwice(l),
           NEW b, b = getListBeginIndex(l),
           NEW m, m = [Mark(l, F, IF i > b THEN {i} ELSE {}) EXCEPT !.refresh = @ \/ i > b]
    PROVE  m \in ListType /\ Same(l, m) /\ SameConns(l, m) /\ Marked(m) /\ Follows(l, m, Only(c, F))
<1>1. PICK W, k : W = (IF i > b THEN {i} ELSE {}) /\ k = Mark(l, F, W)
  OBVIOUS
<1>2. k \in ListType /\ Same(l, k) /\ SameConns(l, k) /\ k.refresh = l.refresh /\ MarkedAt(l, k, F, W)
  BY <1>1, MarkFacts
<1>3. PICK r \in BOOLEAN : m = [k EXCEPT !.refresh = r] /\ (i > b => r = TRUE) /\ (~(i > b) => r = l.refresh)
  <2>1. k.refresh \in BOOLEAN
    BY <1>2, ListFields
  <2>2. m = [k EXCEPT !.refresh = (k.refresh \/ i > b)]
    BY <1>1, Zenon
  <2>3. CASE i > b
    <3>1. (k.refresh \/ i > b) = TRUE
      BY <2>3
    <3> QED BY <2>2, <2>3, <3>1
  <2>4. CASE ~(i > b)
    <3>1. (k.refresh \/ i > b) = k.refresh
      BY <2>1, <2>4
    <3> QED BY <1>2, <2>1, <2>2, <2>4, <3>1
  <2> QED BY <2>3, <2>4
<1>6. m \in ListType /\ Same(k, m) /\ m.list = k.list /\ m.refresh = r
  BY <1>2, <1>3 DEF ListType, Same, SameMode
<1>7. Same(l, m) /\ SameConns(l, m) /\ MarkedAt(l, m, F, W)
  BY <1>2, <1>6 DEF Same, SameMode, SameConns, MarkedAt
<1>8. KeepsRows(l, m)
  <2>1. ASSUME NEW j \in DOMAIN l.list PROVE l.list[j].stale \subseteq m.list[j].stale
    <3>1. PICK s, u : s = l.list[j].stale /\ u = m.list[j].stale
      OBVIOUS
    <3>2. u = IF j \in W THEN s \cup F ELSE s
      BY <1>7, <3>1 DEF MarkedAt
    <3>3. s \subseteq u
      BY ONLY <3>2
    <3> QED BY <3>1, <3>3
  <2> QED BY <1>7, <2>1 DEF KeepsRows, KeepsRow, Same, SameMode, SameConns
<1>9. \A j \in DOMAIN l.list : j > l.scrollOffset /\ j = i => i > b
  <2>1. DOMAIN l.list = 1..Len(l.list) /\ Len(l.list) \in Nat /\ l.scrollOffset \in Nat
    BY ListFields
  <2> QED BY <2>1 DEF getListBeginIndex
<1>10. Marked(m)
  <2>1. CASE i > b
    BY <1>3, <1>6, <2>1 DEF Marked
  <2>2. CASE ~(i > b)
    <3>1. \A j \in DOMAIN l.list : m.list[j].stale = l.list[j].stale
      BY <1>1, <1>7, <2>2 DEF MarkedAt
    <3>2. m.refresh = l.refresh /\ DOMAIN m.list = DOMAIN l.list /\ m.scrollOffset = l.scrollOffset
      BY <1>3, <1>6, <1>7, <2>2 DEF SameConns, Same, SameMode
    <3> QED BY <3>1, <3>2 DEF Marked
  <2> QED BY <2>1, <2>2
<1>11. ASSUME NEW j \in DOMAIN m.list, j > m.scrollOffset PROVE Only(c, F)[m.list[j].conn] \subseteq m.list[j].stale
  <2>1. j \in DOMAIN l.list /\ j > l.scrollOffset /\ m.list[j].conn = l.list[j].conn /\ l.list[j].conn \in Conns
    BY <1>7, <1>11, ListFields DEF SameConns, Same, SameMode
  <2>2. CASE j = i
    <3>1. m.list[j].stale = l.list[j].stale \cup F
      BY <1>1, <1>7, <1>9, <2>1, <2>2 DEF MarkedAt
    <3> QED BY <2>1, <2>2, <3>1 DEF Only
  <2>3. CASE j # i
    <3>1. l.list[j].conn # c
      BY <2>1, <2>3 DEF NoTwice
    <3> QED BY <2>1, <3>1 DEF Only
  <2> QED BY <2>2, <2>3
<1> QED BY <1>6, <1>7, <1>8, <1>10, <1>11 DEF Follows

\* If c is not in the list, nothing that is drawn changed.
LEMMA NotThere ==
    ASSUME NEW l \in ListType, NEW m, KeepsRows(l, m), NEW c \in Conns, NEW F, F \subseteq Fields,
           ~containsItem(l, c), m \in ListType
    PROVE  Follows(l, m, Only(c, F))
<1>1. ASSUME NEW i \in DOMAIN m.list, i > m.scrollOffset PROVE Only(c, F)[m.list[i].conn] \subseteq m.list[i].stale
  <2>1. m.list[i].conn \in Conns
    BY ListFields
  <2>2. CASE m.list[i].conn = c
    <3>1. m.list[i].stale = Fields
      BY <1>1, <2>2 DEF KeepsRows, KeepsRow, containsItem
    <3> QED BY <2>1, <2>2, <3>1 DEF Only
  <2>3. CASE m.list[i].conn # c
    BY <2>1, <2>3 DEF Only
  <2> QED BY <2>2, <2>3
<1> QED BY <1>1 DEF Follows

\* update
LEMMA Update ==
    ASSUME NEW d \in DataType, NEW e \in DataType, NEW c \in Conns, c \in d.storage, Counts(d, e, c),
           NEW F, F \subseteq Fields, NEW l, ListInv(l, d), NEW m \in update(l, e, c, F)
    PROVE  /\ ListInv(m, e) /\ SameMode(l, m) /\ Tells(l, m, c, F) /\ Follows(l, m, Only(c, F))
<1>1. l \in ListType /\ ListOK(l, d) /\ Marked(l) /\ NoTwice(l) /\ Stored(l, d) /\ Bounded(l)
  BY DEF ListInv, ListOK
<1> DEFINE i == find(l, c)
           begin == getListBeginIndex(l)
           y == IF l.detail = c THEN F ELSE l.detailStale
           told == [l EXCEPT !.detailStale = y]
           drawn == [Mark(told, F, IF i > begin THEN {i} ELSE {}) EXCEPT !.refresh = @ \/ i > begin]
           isLess(a, b) == compareFunc(l, e, l.list[a].conn, l.list[b].conn)
           isSortRequired == (i > 1 /\ isLess(i, i - 1)) \/ (~(i = Len(l.list)) /\ isLess(i + 1, i))
           isFillRequired == IF i = Len(l.list) THEN ~isSortRequired ELSE isLess(Len(l.list), i)
           S == IF isSortRequired THEN sort(drawn, e) ELSE {drawn}
           X == IF isFillRequired THEN UNION {fill(x, e) : x \in S} ELSE S
           Y == {IF compareFunc(l, e, c, back(l)) THEN insertItem(told, e, c) ELSE told}
<1>2. m \in CASE l.list = <<>> -> {told} [] i > 0 -> X [] l.list # <<>> /\ i = 0 -> Y
  BY Zenon DEF update
<1>3. y \subseteq Fields
  BY <1>1, ListFields
<1> HIDE DEF i, begin, y, told, drawn, isSortRequired, isFillRequired, S, X, Y
<1>5. /\ told \in ListType /\ SameMode(l, told) /\ told.cursorPos = l.cursorPos /\ told.detail = l.detail
      /\ told.detailStale = y /\ told.list = l.list /\ told.refresh = l.refresh
      /\ SameConns(l, told) /\ KeepsRows(l, told) /\ Marked(told)
  BY <1>1, <1>3, Told DEF told
<1>6. /\ ListOK(told, d) /\ Len(told.list) = Len(l.list)
      /\ \A b : containsItem(told, b) <=> containsItem(l, b)
  BY <1>1, <1>5, SameConnsOK DEF ListOK
<1>8. /\ i \in 0..Len(l.list) /\ Len(l.list) \in Nat /\ DOMAIN l.list = 1..Len(l.list)
      /\ i > 0 <=> containsItem(l, c)
      /\ i > 0 => i \in DOMAIN l.list /\ l.list[i].conn = c
  BY <1>1, Find, ListFields DEF i
<1>9. Tells(l, told, c, F)
  BY <1>5 DEF Tells, y
<1>10. c \in e.storage /\ e.storage = d.storage
  BY DEF Counts
<1>11. CASE i = 0
  <2>1. m = told \/ (l.list # <<>> /\ m = insertItem(told, e, c))
    <3>1. CASE l.list = <<>>
      BY <1>2, <1>11, <3>1
    <3>2. CASE l.list # <<>>
      <4>1. m \in Y
        BY <1>2, <1>11, <3>2
      <4> QED BY <3>2, <4>1 DEF Y
    <3> QED BY <3>1, <3>2
  <2>2. ~containsItem(l, c) /\ ~containsItem(told, c)
    BY <1>6, <1>8, <1>11
  <2>3. ListOK(told, e)
    <3>1. ASSUME NEW j \in DOMAIN told.list
          PROVE  told.list[j].conn \in e.storage /\ Key(told, e, told.list[j].conn) = Key(told, d, told.list[j].conn)
      <4>1. told.list[j].conn \in d.storage /\ told.list[j].conn # c
        BY <1>6, <2>2 DEF containsItem, ListOK, Stored
      <4> QED BY <1>10, <4>1, SameData DEF Counts
    <3> QED BY <1>6, <3>1, OtherData
  <2>4. ListInv(told, e)
    BY <1>5, <1>6, <1>10, <2>3, MovesInv
  <2>5. ListInv(m, e) /\ Same(told, m) /\ KeepsRows(told, m)
    <3>1. CASE m = told
      BY <2>4, <3>1, KeepsItself
    <3>2. CASE l.list # <<>> /\ m = insertItem(told, e, c)
      <4>1. Takes(told, m, e, c)
        BY <1>5, <1>10, <2>2, <2>3, <3>2, InsertItem
      <4>2. Grows(told, m, e)
        BY <4>1 DEF Takes, Grows
      <4> QED BY <1>5, <2>4, <4>2, GrowsInv DEF ListInv
    <3> QED BY <2>1, <3>1, <3>2
  <2>6. m \in ListType
    BY <2>5 DEF ListInv, ListOK
  <2>7. KeepsRows(l, m)
    BY <1>1, <1>5, <2>5, <2>6, KeepsTransitive
  <2>8. Follows(l, m, Only(c, F))
    BY <1>1, <2>2, <2>6, <2>7, NotThere
  <2> QED BY <1>5, <1>9, <2>5, <2>8 DEF Same, SameMode, Tells
<1>12. CASE i > 0
  <2>1. i \in DOMAIN l.list /\ l.list[i].conn = c /\ l.list # <<>>
    BY <1>8, <1>12
  <2>4. /\ drawn \in ListType /\ Same(told, drawn) /\ SameConns(told, drawn) /\ Marked(drawn)
        /\ Follows(told, drawn, Only(c, F))
    <3>1. begin = getListBeginIndex(told)
      BY <1>5 DEF getListBeginIndex, SameMode, begin
    <3>2. NoTwice(told) /\ i \in DOMAIN told.list /\ told.list[i].conn = c
      BY <1>5, <1>6, <2>1 DEF ListOK
    <3> QED BY <1>5, <3>1, <3>2, DrawItem DEF drawn
  <2>5. /\ ListOK(drawn, d) /\ NoTwice(drawn) /\ Bounded(drawn) /\ Len(drawn.list) = Len(l.list)
        /\ \A b : containsItem(drawn, b) <=> containsItem(l, b)
    BY <1>5, <1>6, <2>4, SameConnsOK DEF ListOK, Same
  <2>6. Stored(drawn, e)
    BY <1>10, <2>5 DEF ListOK, Stored
  <2>7. SameMode(l, drawn) /\ drawn.cursorPos = l.cursorPos /\ SameConns(l, drawn) /\ Tells(l, drawn, c, F)
    BY <1>5, <1>9, <2>4 DEF Same, SameMode, SameConns, Tells
  <2>8. m \in X
    BY <1>2, <1>12, <2>1
  <2>10. m \in S \/ \E x \in S : m \in fill(x, e)
    <3>1. CASE isFillRequired
      <4>1. m \in UNION {fill(x, e) : x \in S}
        BY <2>8, <3>1 DEF X
      <4> QED BY ONLY <4>1, Zenon
    <3>2. CASE ~isFillRequired
      BY <2>8, <3>2 DEF X
    <3> QED BY <3>1, <3>2
  <2>11. ASSUME NEW x \in S
         PROVE  ListInv(x, e) /\ Same(drawn, x) /\ KeepsRows(drawn, x)
    <3>1. CASE isSortRequired
      <4>1. x \in sort(drawn, e)
        BY <2>11, <3>1 DEF S
      <4>2. Reorders(drawn, x, e)
        BY <2>4, <2>5, <2>6, <4>1, Sort
      <4>3. /\ ListOK(x, e) /\ Marked(x) /\ Same(drawn, x) /\ KeepsRows(drawn, x)
            /\ Len(x.list) = Len(l.list) /\ \A b : containsItem(x, b) <=> containsItem(l, b)
        BY <2>5, <4>2, FreshKeeps DEF Reorders, Marked
      <4>4. SameMode(l, x) /\ x.cursorPos = l.cursorPos
        BY <2>7, <4>3 DEF Same, SameMode
      <4> QED BY <1>10, <4>3, <4>4, MovesInv
    <3>2. CASE ~isSortRequired
      <4>1. x = drawn
        BY <2>11, <3>2 DEF S
      <4>2. Sorted(l, e)
        <5>1. \A j \in DOMAIN l.list : j # i => l.list[j].conn # c /\ l.list[j].conn \in d.storage
          BY <1>1, <2>1 DEF NoTwice, Stored
        <5>2. \A j \in DOMAIN l.list : j # i => Key(l, e, l.list[j].conn) = Key(l, d, l.list[j].conn)
          BY <5>1, SameData DEF Counts
        <5>3. /\ i > 1 => ~compareFunc(l, e, l.list[i].conn, l.list[i - 1].conn)
              /\ i # Len(l.list) => ~compareFunc(l, e, l.list[i + 1].conn, l.list[i].conn)
          BY <3>2 DEF isSortRequired, isLess
        <5> QED BY <1>1, <2>1, <5>2, <5>3, UpdatedSorted
      <4>3. Sorted(drawn, e)
        BY <1>1, <2>4, <2>7, <4>2, SameConnsOK
      <4>4. ListOK(drawn, e)
        BY <2>4, <2>5, <2>6, <4>3 DEF ListOK
      <4>5. ListInv(drawn, e)
        BY <1>10, <2>4, <2>5, <2>7, <4>4, MovesInv
      <4> QED BY <4>1, <4>5, KeepsItself
    <3> QED BY <3>1, <3>2
  <2>12. PICK x \in S : ListInv(m, e) /\ Same(x, m) /\ KeepsRows(x, m)
    <3>1. CASE m \in S
      BY <2>11, <3>1, KeepsItself
    <3>2. CASE \E x \in S : m \in fill(x, e)
      <4>1. PICK x \in S : m \in fill(x, e)
        BY <3>2
      <4>2. ListInv(x, e)
        BY <2>11
      <4>3. Fills(x, m, e)
        BY <4>1, <4>2, Fill DEF ListInv
      <4> QED BY <4>2, <4>3, FillsInv DEF ListInv, ListOK
    <3> QED BY <2>10, <3>1, <3>2
  <2>13. x \in ListType /\ m \in ListType
    BY <2>11, <2>12 DEF ListInv, ListOK
  <2>14. Follows(l, m, Only(c, F))
    <3>1. Only(c, F) \in [Conns -> SUBSET Fields]
      BY DEF Only
    <3>2. Follows(l, drawn, Only(c, F))
      BY <1>1, <1>5, <2>4, KeepsTransitive DEF Follows
    <3>3. Follows(l, x, Only(c, F))
      BY <1>1, <2>4, <2>11, <2>13, <3>1, <3>2, FollowsKept
    <3> QED BY <1>1, <2>12, <2>13, <3>1, <3>3, FollowsKept
  <2> QED BY <2>7, <2>11, <2>12, <2>14 DEF Same, SameMode, Tells
<1> QED BY <1>8, <1>11, <1>12

\* The visible items draw again what changed.
MarkChanged(l, told, changed) ==
    [told EXCEPT !.list = [i \in DOMAIN l.list |->
                     IF i \in Visible(l) THEN [l.list[i] EXCEPT !.stale = @ \cup changed[i]] ELSE l.list[i]],
                 !.refresh = @ \/ \E i \in Visible(l) : changed[i] # {}]

\* No visible item that changed is left out.
LEMMA DrawChanged ==
    ASSUME NEW l \in ListType, Marked(l), NEW Has \in [Conns -> SUBSET Fields], NEW told \in ListType,
           told.list = l.list, told.refresh = l.refresh, told.scrollOffset = l.scrollOffset,
           NEW changed, changed = [i \in DOMAIN l.list |-> Has[l.list[i].conn]],
           NEW m, m = MarkChanged(l, told, changed)
    PROVE  m \in ListType /\ Same(told, m) /\ SameConns(told, m) /\ Marked(m) /\ Follows(told, m, Has)
<1>1. PICK s : s = [i \in DOMAIN l.list |->
                      IF i \in Visible(l) THEN [l.list[i] EXCEPT !.stale = @ \cup changed[i]] ELSE l.list[i]]
  OBVIOUS
<1>2. PICK n : n = Len(l.list)
  OBVIOUS
<1>3. /\ n \in Nat /\ DOMAIN l.list = 1..n /\ l.scrollOffset \in Nat /\ l.refresh \in BOOLEAN
      /\ \A i \in 1..n : l.list[i] \in Items /\ l.list[i].conn \in Conns /\ changed[i] = Has[l.list[i].conn]
      /\ \A i \in 1..n : i \in Visible(l) <=> i > l.scrollOffset
  BY <1>2, ListFields, Window
<1>5. ASSUME NEW i \in 1..n
      PROVE  /\ s[i] \in Items /\ s[i].conn = l.list[i].conn
             /\ i > l.scrollOffset => s[i].stale = l.list[i].stale \cup changed[i]
             /\ ~(i > l.scrollOffset) => s[i].stale = l.list[i].stale
  <2>1. changed[i] \subseteq Fields
    BY <1>3
  <2>2. CASE i > l.scrollOffset
    <3>1. s[i] = [l.list[i] EXCEPT !.stale = @ \cup changed[i]]
      BY <1>1, <1>3, <2>2
    <3>2. PICK x, F, y : x = l.list[i] /\ F = changed[i] /\ y = s[i]
      OBVIOUS
    <3>3. x \in Items /\ F \subseteq Fields /\ y = [x EXCEPT !.stale = @ \cup F]
      BY <1>3, <2>1, <3>1, <3>2
    <3>4. y \in Items /\ y.conn = x.conn /\ y.stale = x.stale \cup F
      BY ONLY <3>3 DEF Items
    <3> QED BY <2>2, <3>2, <3>4
  <2>3. CASE ~(i > l.scrollOffset)
    <3>1. s[i] = l.list[i]
      BY <1>1, <1>3, <2>3
    <3> QED BY <1>3, <2>3, <3>1
  <2> QED BY <2>2, <2>3
<1>6. s \in Seq(Items) /\ DOMAIN s = 1..n
  <2>1. DOMAIN s = 1..n /\ s = [i \in 1..n |-> s[i]]
    BY <1>1, <1>3
  <2>2. s \in [1..n -> Items]
    BY ONLY <1>5, <2>1
  <2> QED BY ONLY <1>3, <2>1, <2>2
<1>7. PICK r \in BOOLEAN :
        /\ m = [told EXCEPT !.list = s, !.refresh = r]
        /\ r = TRUE \/ (r = l.refresh /\ \A i \in Visible(l) : changed[i] = {})
  <2>1. m = [told EXCEPT !.list = s, !.refresh = (told.refresh \/ \E i \in Visible(l) : changed[i] # {})]
    BY <1>1, Zenon DEF MarkChanged
  <2>2. CASE \E i \in Visible(l) : changed[i] # {}
    <3>1. (told.refresh \/ \E i \in Visible(l) : changed[i] # {}) = TRUE
      BY <2>2
    <3>2. m = [told EXCEPT !.list = s, !.refresh = TRUE]
      BY ONLY <2>1, <3>1, Zenon
    <3> QED BY <3>2
  <2>3. CASE ~\E i \in Visible(l) : changed[i] # {}
    <3>1. (told.refresh \/ \E i \in Visible(l) : changed[i] # {}) = l.refresh
      BY <1>3, <2>3
    <3>2. m = [told EXCEPT !.list = s, !.refresh = l.refresh]
      BY ONLY <2>1, <3>1, Zenon
    <3> QED BY <1>3, <2>3, <3>2
  <2> QED BY <2>2, <2>3
<1>8. m \in ListType /\ Same(told, m) /\ m.list = s /\ m.refresh = r
  <2>1. m = [told EXCEPT !.list = s, !.refresh = r]
    BY <1>7
  <2> QED BY ONLY told \in ListType, r \in BOOLEAN, <1>6, <2>1 DEF ListType, Same, SameMode
<1>9. SameConns(told, m) /\ m.scrollOffset = l.scrollOffset /\ DOMAIN m.list = 1..n
  BY <1>3, <1>5, <1>6, <1>8 DEF SameConns, Same, SameMode
<1>10. Marked(m)
  <2>1. CASE r = TRUE
    BY <1>8, <2>1 DEF Marked
  <2>2. CASE r # TRUE
    <3>1. l.refresh # TRUE /\ \A i \in Visible(l) : changed[i] = {}
      BY <1>7, <2>2
    <3>2. \A i \in 1..n : i > l.scrollOffset => l.list[i].stale = {} /\ changed[i] = {}
      BY <1>3, <3>1 DEF Marked
    <3>3. \A i \in 1..n : i > l.scrollOffset => s[i].stale = {}
      BY <1>5, <3>2
    <3> QED BY <1>8, <1>9, <3>3 DEF Marked
  <2> QED BY <2>1, <2>2
<1>11. \A i \in 1..n : i > l.scrollOffset =>
         told.list[i].stale \subseteq m.list[i].stale /\ Has[m.list[i].conn] \subseteq m.list[i].stale
  BY <1>3, <1>5, <1>8
<1>12. KeepsRows(told, m)
  BY <1>3, <1>8, <1>9, <1>11 DEF KeepsRows, KeepsRow, SameConns, Same, SameMode
<1> QED BY <1>8, <1>9, <1>10, <1>11, <1>12 DEF Follows

\* e is d with other names, of which Has says what they change.
Names(d, e, l, Has, mayAffectOrder) ==
    /\ e.storage = d.storage
    /\ \A c \in d.storage : ~mayAffectOrder \/ Has[c] = {} => Key(l, e, c) = Key(l, d, c)

\* The dialog is told what changed in its connection.
TellsOf(l, m, Has) ==
    /\ m.detail = l.detail
    /\ m.detailStale = l.detailStale \cup (IF l.detail = None THEN {} ELSE Has[l.detail])

\* dataUpdated
LEMMA DataUpdated ==
    ASSUME NEW d \in DataType, NEW e \in DataType, NEW Has \in [Conns -> SUBSET Fields], NEW may \in BOOLEAN,
           NEW l, ListInv(l, d), Names(d, e, l, Has, may), NEW m \in dataUpdated(l, e, Has, may)
    PROVE  ListInv(m, e) /\ SameMode(l, m) /\ TellsOf(l, m, Has) /\ Follows(l, m, Has)
<1>1. l \in ListType /\ ListOK(l, d) /\ Marked(l) /\ NoTwice(l) /\ Stored(l, d) /\ Bounded(l)
  BY DEF ListInv, ListOK
<1> DEFINE y == l.detailStale \cup (IF l.detail = None THEN {} ELSE Has[l.detail])
           told == [l EXCEPT !.detailStale = y]
           changed == [i \in DOMAIN l.list |-> Has[l.list[i].conn]]
           contains == \E i \in DOMAIN changed : changed[i] # {}
           marked == MarkChanged(l, told, changed)
           offered == {c \in Conns : Has[c] # {}}
           S == IF contains THEN sort(marked, e) ELSE {marked}
           X == UNION {{offerAll(x, e, order, offered, FALSE) : order \in SetToSeqs(e.storage)} : x \in S}
<1>2. m \in CASE l.list = <<>> -> {told} [] l.list # <<>> /\ ~may -> {marked} [] l.list # <<>> /\ may -> X
  BY Zenon DEF dataUpdated, MarkChanged
<1>3. y \subseteq Fields
  BY <1>1, ListFields
<1> HIDE DEF y, told, changed, contains, marked, offered, S, X
<1>4. /\ told \in ListType /\ SameMode(l, told) /\ told.cursorPos = l.cursorPos /\ told.detail = l.detail
      /\ told.detailStale = y /\ told.list = l.list /\ told.refresh = l.refresh
      /\ SameConns(l, told) /\ KeepsRows(l, told) /\ Marked(told)
  <2>1. l \in ListType /\ Marked(l)
    BY <1>1
  <2>2. told = [l EXCEPT !.detailStale = y]
    BY DEF told
  <2>3. PICK t, z : t = told /\ z = y
    OBVIOUS
  <2>4. l \in ListType /\ Marked(l) /\ z \subseteq Fields /\ t = [l EXCEPT !.detailStale = z]
    BY <1>3, <2>1, <2>2, <2>3
  <2>5. /\ t \in ListType /\ SameMode(l, t) /\ t.cursorPos = l.cursorPos /\ t.detail = l.detail
        /\ t.detailStale = z /\ t.list = l.list /\ t.refresh = l.refresh
        /\ SameConns(l, t) /\ KeepsRows(l, t) /\ Marked(t)
    BY ONLY <2>4, Told
  <2> QED BY <2>3, <2>5
<1>5. TellsOf(l, told, Has)
  BY <1>4 DEF TellsOf, y
<1>6. e.storage = d.storage
  BY DEF Names
<1>7. /\ marked \in ListType /\ Same(told, marked) /\ SameConns(told, marked) /\ Marked(marked)
      /\ Follows(told, marked, Has)
  <2>1. told.scrollOffset = l.scrollOffset
    BY <1>4 DEF SameMode
  <2>2. l \in ListType /\ Marked(l) /\ told \in ListType /\ told.list = l.list /\ told.refresh = l.refresh
    BY <1>1, <1>4
  <2>3. marked = MarkChanged(l, told, changed) /\ changed = [i \in DOMAIN l.list |-> Has[l.list[i].conn]]
    BY DEF marked, changed
  <2> QED BY ONLY Has \in [Conns -> SUBSET Fields], <2>1, <2>2, <2>3, DrawChanged
<1>8. Follows(l, marked, Has)
  BY <1>1, <1>4, <1>7, KeepsTransitive DEF Follows
<1>9. SameMode(l, marked) /\ marked.cursorPos = l.cursorPos /\ SameConns(l, marked) /\ TellsOf(l, marked, Has)
  BY <1>4, <1>5, <1>7 DEF Same, SameMode, SameConns, TellsOf
<1>10. /\ ListOK(marked, d) /\ NoTwice(marked) /\ Bounded(marked) /\ Len(marked.list) = Len(l.list)
       /\ \A c : containsItem(marked, c) <=> containsItem(l, c)
  BY <1>1, <1>7, <1>9, SameConnsOK DEF ListOK
<1>11. ~may \/ ~contains => ListInv(marked, e)
  <2>1. SUFFICES ASSUME ~may \/ ~contains PROVE ListInv(marked, e)
    OBVIOUS
  <2>2. ASSUME NEW i \in DOMAIN l.list
        PROVE  l.list[i].conn \in e.storage /\ Key(l, e, l.list[i].conn) = Key(l, d, l.list[i].conn)
    <3>1. l.list[i].conn \in d.storage
      BY <1>1 DEF Stored
    <3>2. ~contains => Has[l.list[i].conn] = {}
      BY DEF contains, changed
    <3> QED BY <2>1, <3>1, <3>2 DEF Names
  <2>3. ListOK(l, e)
    BY <1>1, <2>2, OtherData
  <2>4. ListOK(marked, e)
    BY <1>7, <1>9, <2>3, SameConnsOK DEF ListOK
  <2> QED BY <1>6, <1>7, <1>9, <1>10, <2>4, MovesInv
<1>12. CASE l.list = <<>>
  <2>1. m = told
    BY <1>2, <1>12
  <2>2. ListOK(told, e)
    <3>1. \A i \in DOMAIN told.list : FALSE
      BY <1>4, <1>12
    <3>2. ListOK(told, d)
      BY <1>1, <1>4, SameConnsOK DEF ListOK
    <3> QED BY <3>1, <3>2, OtherData
  <2>3. ListInv(told, e)
    <3>1. Len(told.list) = Len(l.list) /\ \A c : containsItem(told, c) <=> containsItem(l, c)
      BY <1>1, <1>4, SameConnsOK
    <3> QED BY <1>4, <1>6, <2>2, <3>1, MovesInv
  <2>4. Follows(l, told, Has)
    BY <1>4, <1>12 DEF Follows
  <2> QED BY <1>4, <1>5, <2>1, <2>3, <2>4
<1>13. CASE l.list # <<>> /\ ~may
  <2>1. m = marked
    BY <1>2, <1>13
  <2> QED BY <1>8, <1>9, <1>11, <1>13, <2>1
<1>14. CASE l.list # <<>> /\ may
  <2>1. m \in X
    BY <1>2, <1>14
  <2>2. PICK x \in S, order \in SetToSeqs(e.storage) : m = offerAll(x, e, order, offered, FALSE)
    BY <2>1 DEF X
  <2>3. ListInv(x, e) /\ Same(marked, x) /\ KeepsRows(marked, x) /\ Len(x.list) = Len(l.list)
    <3>1. CASE contains
      <4>1. x \in sort(marked, e)
        BY <2>2, <3>1 DEF S
      <4>2. Stored(marked, e)
        BY <1>6, <1>10 DEF ListOK, Stored
      <4>3. Reorders(marked, x, e)
        BY <1>7, <1>10, <4>1, <4>2, Sort
      <4>4. /\ ListOK(x, e) /\ Marked(x) /\ Same(marked, x) /\ KeepsRows(marked, x)
            /\ Len(x.list) = Len(l.list) /\ \A c : containsItem(x, c) <=> containsItem(l, c)
        BY <1>10, <4>3, FreshKeeps DEF Reorders, Marked
      <4>5. SameMode(l, x) /\ x.cursorPos = l.cursorPos
        BY <1>9, <4>4 DEF Same, SameMode
      <4> QED BY <1>6, <4>4, <4>5, MovesInv
    <3>2. CASE ~contains
      <4>1. x = marked
        BY <2>2, <3>2 DEF S
      <4> QED BY <1>10, <1>11, <3>2, <4>1, KeepsItself
    <3> QED BY <3>1, <3>2
  <2>4. x \in ListType /\ ListOK(x, e) /\ x.list # <<>>
    <3>1. x \in ListType /\ ListOK(x, e)
      BY <2>3 DEF ListInv, ListOK
    <3>2. l.list \in Seq(Items) /\ Len(l.list) # 0
      BY <1>1, <1>14, ListFields
    <3> QED BY <2>3, <3>1, <3>2
  <2>5. Grows(x, m, e)
    BY <2>2, <2>4, OfferAll
  <2>6. ListInv(m, e) /\ Same(x, m) /\ KeepsRows(x, m)
    BY <2>3, <2>4, <2>5, GrowsInv DEF ListInv
  <2>7. Follows(l, m, Has)
    <3>1. m \in ListType
      BY <2>6 DEF ListInv, ListOK
    <3>2. Follows(l, x, Has)
      BY <1>1, <1>7, <1>8, <2>3, <2>4, FollowsKept
    <3> QED BY <1>1, <2>4, <2>6, <3>1, <3>2, FollowsKept
  <2> QED BY <1>9, <2>3, <2>6, <2>7 DEF Same, SameMode, TellsOf
<1> QED BY <1>12, <1>13, <1>14

-----------------------------------------------------------------------------
(***************************************************************************)
(* Keys.                                                                   *)
(***************************************************************************)
\* What scrolling leaves alone.
SameButScroll(l, m) ==
    /\ m.targetSize = l.targetSize /\ m.sortMode = l.sortMode /\ m.ascending = l.ascending
    /\ m.cursorPos = l.cursorPos /\ m.detail = l.detail /\ m.detailStale = l.detailStale

\* The keys do not depend on where the window is.
LEMMA SameKeyScrolled ==
    ASSUME NEW l, NEW m, SameButScroll(l, m), NEW d, NEW c
    PROVE  Key(m, d, c) = Key(l, d, c)
BY DEF SameButScroll, Key, updateCompareFunc

\* The window somewhere else.
LEMMA WithScroll ==
    ASSUME NEW l \in ListType, NEW n \in Nat, NEW m, m = [l EXCEPT !.scrollOffset = n]
    PROVE  /\ m \in ListType /\ SameButScroll(l, m) /\ m.list = l.list /\ m.scrollOffset = n
           /\ m.refresh = l.refresh
BY DEF ListType, SameButScroll

\* The list is in order wherever the window is.
LEMMA ScrolledOK ==
    ASSUME NEW d, NEW l, ListOK(l, d), NEW m \in ListType, SameButScroll(l, m), m.list = l.list
    PROVE  NoTwice(m) /\ Stored(m, d) /\ Sorted(m, d)
BY SameKeyScrolled DEF ListOK, NoTwice, Stored, Sorted

\* What is drawn from scratch stays so.
LEMMA FreshStays ==
    ASSUME NEW l \in ListType, NEW m \in ListType, AllFresh(l), KeepsRows(l, m)
    PROVE  AllFresh(m)
<1>1. SUFFICES ASSUME NEW i \in DOMAIN m.list, i > m.scrollOffset, m.list[i].stale # Fields PROVE FALSE
  BY DEF AllFresh
<1>2. m.scrollOffset = l.scrollOffset /\ i \in DOMAIN l.list /\ l.list[i].stale \subseteq m.list[i].stale
  BY <1>1 DEF KeepsRows, KeepsRow
<1>3. l.list[i].stale = Fields /\ m.list[i].stale \subseteq Fields
  BY <1>1, <1>2, ListFields DEF AllFresh
<1> QED BY <1>1, <1>2, <1>3

\* doScroll up
LEMMA ScrollUp ==
    ASSUME NEW d \in DataType, NEW l, ListInv(l, d), l.targetSize > 0, NEW up \in Nat, up > 0,
           up <= l.scrollOffset, NEW upTo \in ListType, SameButScroll(l, upTo), upTo.list = l.list,
           upTo.scrollOffset = l.scrollOffset - up,
           NEW m, m = invalidateAllVisible(pop_back(upTo, Max({0, getSize(upTo) - l.targetSize})))
    PROVE  /\ ListInv(m, d) /\ SameButScroll(l, m) /\ AllFresh(m) /\ m.refresh = TRUE
           /\ m.scrollOffset = l.scrollOffset - up
<1>1. l \in ListType /\ ListOK(l, d) /\ NoTwice(l) /\ Stored(l, d)
  BY DEF ListInv, ListOK
<1>2. PICK n, s, t, c : n = Len(l.list) /\ s = l.scrollOffset /\ t = l.targetSize /\ c = l.cursorPos
  OBVIOUS
<1>3. n \in Nat /\ s \in Nat /\ t \in Nat /\ c \in Nat /\ n <= s + t /\ up <= s /\ t > 0
  BY <1>1, <1>2, ListFields DEF ListOK, Bounded
<1>4. upTo.scrollOffset = s - up
  BY <1>2
<1>5. PICK g : g = getSize(upTo)
  OBVIOUS
<1>6. g = (IF n > s - up THEN n - (s - up) ELSE 0) /\ g \in Nat
  BY <1>2, <1>4, <1>5, Window
<1>7. PICK p : p = Max({0, getSize(upTo) - l.targetSize})
  OBVIOUS
<1>8. p = (IF g > t THEN g - t ELSE 0) /\ p \in 0..n
  <2>1. p = IF 0 <= g - t THEN g - t ELSE 0
    <3>1. PICK x : x = g - t
      OBVIOUS
    <3>2. x \in Int /\ 0 \in Int
      BY <1>3, <1>6, <3>1
    <3>3. p = Max({0, x})
      BY ONLY <1>2, <1>5, <1>7, <3>1, Zenon
    <3> QED BY ONLY <3>1, <3>2, <3>3, MinMax
  <2> QED BY <1>3, <1>6, <2>1
<1>9. PICK k : k = pop_back(upTo, p)
  OBVIOUS
<1>10. /\ k \in ListType /\ Same(upTo, k) /\ Prefix(upTo, k) /\ Len(k.list) = n - p
  <2>1. p \in 0..Len(upTo.list)
    BY <1>2, <1>4, <1>8
  <2> QED BY <1>2, <1>4, <1>9, <2>1, PopBack
<1>11. NoTwice(k) /\ Stored(k, d) /\ Sorted(k, d)
  <2>1. NoTwice(upTo) /\ Stored(upTo, d) /\ Sorted(upTo, d)
    BY <1>1, <1>4, ScrolledOK
  <2> QED BY <1>4, <1>10, <2>1, PrefixOK DEF Same
<1>12. k.scrollOffset = s - up /\ k.targetSize = t /\ k.cursorPos = c /\ SameButScroll(l, k)
  BY <1>2, <1>4, <1>10 DEF Same, SameMode, SameButScroll
<1>13. Bounded(k)
  BY <1>3, <1>6, <1>8, <1>10, <1>12 DEF Bounded
<1>14. Full(k, d)
  <2>1. CASE p > 0
    BY <1>3, <1>6, <1>8, <1>10, <1>12, <2>1 DEF Full
  <2>2. CASE p = 0
    <3>1. n # s + t
      BY <1>3, <1>6, <1>8, <2>2
    <3>2. \A b \in d.storage : containsItem(l, b)
      BY <1>2, <1>3, <3>1 DEF ListInv, Full
    <3>3. DOMAIN k.list = DOMAIN l.list /\ \A i \in DOMAIN k.list : k.list[i] = l.list[i]
      <4>1. Len(k.list) = n /\ DOMAIN k.list = 1..Len(k.list) /\ DOMAIN l.list = 1..n
        BY <1>1, <1>2, <1>3, <1>10, <2>2, ListFields
      <4> QED BY <1>4, <1>10, <4>1 DEF Prefix
    <3>4. \A b : containsItem(l, b) => containsItem(k, b)
      BY <3>3 DEF containsItem
    <3> QED BY <3>2, <3>4 DEF Full
  <2> QED BY <1>8, <2>1, <2>2
<1>15. m = invalidateAllVisible(k)
  BY <1>7, <1>9
<1>16. Marks(k, m) /\ m.refresh = TRUE /\ AllFresh(m)
  BY <1>10, <1>15, AllVisible
<1>17. m \in ListType /\ Same(k, m) /\ SameConns(k, m)
  BY <1>16 DEF Marks
<1>18. ListOK(m, d) /\ Full(m, d) /\ Len(m.list) = n - p
  BY <1>10, <1>11, <1>13, <1>14, <1>17, SameConnsOK DEF ListOK, Same
<1>19. m.scrollOffset = s - up /\ m.cursorPos = c /\ SameButScroll(l, m)
  BY <1>12, <1>17 DEF Same, SameMode, SameButScroll
<1>20. m.cursorPos <= getCursorMaxPos(m)
  <2>1. c <= (IF (IF n > s THEN n - s ELSE 0) > 0 THEN (IF n > s THEN n - s ELSE 0) - 1 ELSE 0)
    <3>1. l.cursorPos <= getCursorMaxPos(l)
      BY DEF ListInv
    <3> QED BY <1>1, <1>2, <3>1, Window
  <2>2. PICK h : h = getSize(m)
    OBVIOUS
  <2>3. /\ h = (IF n - p > s - up THEN (n - p) - (s - up) ELSE 0)
        /\ getCursorMaxPos(m) = (IF h > 0 THEN h - 1 ELSE 0)
    BY <1>17, <1>18, <1>19, <2>2, Window
  <2> QED BY <1>3, <1>6, <1>8, <1>19, <2>1, <2>3
<1> QED BY <1>2, <1>16, <1>18, <1>19, <1>20 DEF ListInv, Marked

\* doScroll down
LEMMA ScrollDown ==
    ASSUME NEW d \in DataType, NEW l, ListInv(l, d), l.targetSize > 0, NEW down \in Nat, down > 0,
           down <= Cardinality(d.storage) - Len(l.list),
           NEW m \in fill(invalidateAllVisible([l EXCEPT !.scrollOffset = l.scrollOffset + down]), d)
    PROVE  /\ ListInv(m, d) /\ SameButScroll(l, m) /\ AllFresh(m) /\ m.refresh = TRUE
           /\ m.scrollOffset = l.scrollOffset + down
<1>1. l \in ListType /\ ListOK(l, d) /\ NoTwice(l) /\ Stored(l, d)
  BY DEF ListInv, ListOK
<1>2. PICK n, s, t, c : n = Len(l.list) /\ s = l.scrollOffset /\ t = l.targetSize /\ c = l.cursorPos
  OBVIOUS
<1>3. n \in Nat /\ s \in Nat /\ t \in Nat /\ c \in Nat /\ n <= s + t /\ t > 0
  BY <1>1, <1>2, ListFields DEF ListOK, Bounded
<1>4. PICK k, h, z : z = s + down /\ k = [l EXCEPT !.scrollOffset = z] /\ h = invalidateAllVisible(k)
  OBVIOUS
<1>5. m \in fill(h, d) /\ z \in Nat
  BY <1>2, <1>3, <1>4
<1>6. k \in ListType /\ SameButScroll(l, k) /\ k.list = l.list /\ k.scrollOffset = z
  BY <1>1, <1>4, <1>5, WithScroll
<1>7. Marks(k, h) /\ h.refresh = TRUE /\ AllFresh(h)
  BY <1>4, <1>6, AllVisible
<1>8. ListOK(k, d)
  <2>1. NoTwice(k) /\ Stored(k, d) /\ Sorted(k, d)
    BY <1>1, <1>6, ScrolledOK
  <2>2. Bounded(k)
    BY <1>2, <1>3, <1>4, <1>6 DEF Bounded, SameButScroll
  <2> QED BY <1>6, <2>1, <2>2 DEF ListOK
<1>9. h \in ListType /\ ListOK(h, d) /\ Same(k, h)
  BY <1>6, <1>7, <1>8, SameConnsOK DEF Marks, ListOK, Same
<1>10. Fills(h, m, d)
  BY <1>5, <1>9, Fill
<1>11. m \in ListType /\ ListOK(m, d) /\ Same(h, m) /\ KeepsRows(h, m) /\ m.refresh = TRUE
  BY <1>7, <1>10 DEF Fills, ListOK
<1>12. AllFresh(m)
  BY <1>7, <1>9, <1>11, FreshStays
<1>13. m.scrollOffset = s + down /\ m.targetSize = t /\ m.cursorPos = c /\ SameButScroll(l, m)
  BY <1>2, <1>4, <1>6, <1>9, <1>11 DEF Same, SameMode, SameButScroll
<1>14. Full(m, d)
  BY <1>3, <1>10, <1>11, <1>13 DEF Fills, Same, SameMode
<1>15. PICK q : q = Len(m.list)
  OBVIOUS
<1>16. q \in Nat /\ (q = s + down + t \/ q >= n + down)
  <2>1. Len(m.list) = Cardinality(d.storage) <=> \A b \in d.storage : containsItem(m, b)
    BY <1>11, CountList DEF ListOK
  <2>2. q \in Nat /\ Cardinality(d.storage) \in Nat
    BY <1>11, <1>15, CountList, ListFields DEF ListOK
  <2>3. q = s + down + t \/ q = Cardinality(d.storage)
    BY <1>13, <1>14, <1>15, <2>1 DEF Full
  <2> QED BY <1>2, <1>3, <2>2, <2>3
<1>17. m.cursorPos <= getCursorMaxPos(m)
  <2>1. c <= (IF (IF n > s THEN n - s ELSE 0) > 0 THEN (IF n > s THEN n - s ELSE 0) - 1 ELSE 0)
    <3>1. l.cursorPos <= getCursorMaxPos(l)
      BY DEF ListInv
    <3> QED BY <1>1, <1>2, <3>1, Window
  <2>2. PICK g : g = getSize(m)
    OBVIOUS
  <2>3. /\ g = (IF q > s + down THEN q - (s + down) ELSE 0)
        /\ getCursorMaxPos(m) = (IF g > 0 THEN g - 1 ELSE 0)
    BY <1>11, <1>13, <1>15, <2>2, Window
  <2> QED BY <1>3, <1>13, <1>16, <2>1, <2>3
<1> QED BY <1>2, <1>11, <1>12, <1>13, <1>14, <1>17 DEF ListInv, Marked

\* doScroll
LEMMA DoScroll ==
    ASSUME NEW d \in DataType, NEW l, ListInv(l, d), l.targetSize > 0, NEW a \in Int, NEW m \in doScroll(l, d, a)
    PROVE  /\ ListInv(m, d) /\ SameButScroll(l, m)
           /\ m = l \/ (AllFresh(m) /\ m.refresh = TRUE)
           /\ m = l => m.scrollOffset = l.scrollOffset
           /\ a < 0 => m.scrollOffset = (IF -a <= l.scrollOffset THEN l.scrollOffset + a ELSE 0)
           /\ a > 0 => m.scrollOffset =
                         IF a <= Cardinality(d.storage) - Len(l.list) THEN l.scrollOffset + a
                         ELSE l.scrollOffset + (Cardinality(d.storage) - Len(l.list))
<1>1. l \in ListType /\ ListOK(l, d) /\ NoTwice(l) /\ Stored(l, d)
  BY DEF ListInv, ListOK
<1>2. PICK n, s, q : n = Len(l.list) /\ s = l.scrollOffset /\ q = Cardinality(d.storage) - Len(l.list)
  OBVIOUS
<1>3. n \in Nat /\ s \in Nat /\ q \in Nat
  BY <1>1, <1>2, ListFields, CountList
<1> DEFINE up == Min({-a, l.scrollOffset})
           down == Min({a, Cardinality(d.storage) - Len(l.list)})
           upTo == [l EXCEPT !.scrollOffset = l.scrollOffset - up]
           U == {invalidateAllVisible(pop_back(upTo, Max({0, getSize(upTo) - l.targetSize})))}
           D == fill(invalidateAllVisible([l EXCEPT !.scrollOffset = l.scrollOffset + down]), d)
<1>4. m \in CASE a < 0 /\ up > 0 -> U [] a > 0 /\ down > 0 -> D
              [] a = 0 \/ (a < 0 /\ up = 0) \/ (a > 0 /\ down <= 0) -> {l}
  BY Zenon DEF doScroll
<1>5. up = (IF -a <= s THEN -a ELSE s) /\ down = (IF a <= q THEN a ELSE q)
  <2>1. Min({-a, s}) = IF -a <= s THEN -a ELSE s
    <3>1. -a \in Int /\ s \in Int
      BY <1>3
    <3> QED BY ONLY <3>1, MinMax
  <2>2. Min({a, q}) = IF a <= q THEN a ELSE q
    <3>1. a \in Int /\ q \in Int
      BY <1>3
    <3> QED BY ONLY <3>1, MinMax
  <2> QED BY <1>2, <2>1, <2>2
<1> HIDE DEF up, down, U, D, upTo
<1>6. CASE a < 0 /\ up > 0
  <2>1. m \in U
    BY <1>4, <1>6
  <2>2. up \in Nat /\ up > 0 /\ up <= l.scrollOffset
    BY <1>2, <1>3, <1>5, <1>6
  <2>3. /\ ListInv(m, d) /\ SameButScroll(l, m) /\ AllFresh(m) /\ m.refresh = TRUE
        /\ m.scrollOffset = l.scrollOffset - up
    <3>1. upTo = [l EXCEPT !.scrollOffset = l.scrollOffset - up]
      BY DEF upTo
    <3>2. m = invalidateAllVisible(pop_back(upTo, Max({0, getSize(upTo) - l.targetSize})))
      BY <2>1 DEF U
    <3>3. PICK z, k : z = l.scrollOffset - up /\ k = upTo
      OBVIOUS
    <3>4. z \in Nat /\ k = [l EXCEPT !.scrollOffset = z]
      BY <1>2, <1>3, <2>2, <3>1, <3>3
    <3>5. k \in ListType /\ SameButScroll(l, k) /\ k.list = l.list /\ k.scrollOffset = z
      BY <1>1, <3>4, WithScroll
    <3>6. PICK u : u = up
      OBVIOUS
    <3>7. m = invalidateAllVisible(pop_back(k, Max({0, getSize(k) - l.targetSize})))
      BY ONLY <3>2, <3>3, Zenon
    <3>8. u \in Nat /\ u > 0 /\ u <= l.scrollOffset /\ k.scrollOffset = l.scrollOffset - u
      BY <2>2, <3>3, <3>5, <3>6
    <3>9. /\ ListInv(m, d) /\ SameButScroll(l, m) /\ AllFresh(m) /\ m.refresh = TRUE
          /\ m.scrollOffset = l.scrollOffset - u
      BY ONLY d \in DataType, ListInv(l, d), l.targetSize > 0, <3>5, <3>7, <3>8, ScrollUp
    <3> QED BY <3>6, <3>9
  <2>4. a < 0 => m.scrollOffset = (IF -a <= l.scrollOffset THEN l.scrollOffset + a ELSE 0)
    BY <1>2, <1>3, <1>5, <2>3
  <2> QED BY <1>6, <2>3, <2>4
<1>7. CASE a > 0 /\ down > 0
  <2>1. m \in D
    <3>1. ~(a < 0 /\ up > 0) /\ ~(a = 0 \/ (a < 0 /\ up = 0) \/ (a > 0 /\ down <= 0))
      BY <1>3, <1>5, <1>7
    <3> QED BY ONLY <1>4, <1>7, <3>1
  <2>2. down \in Nat /\ down > 0 /\ down <= Cardinality(d.storage) - Len(l.list)
    BY <1>2, <1>3, <1>5, <1>7
  <2>3. /\ ListInv(m, d) /\ SameButScroll(l, m) /\ AllFresh(m) /\ m.refresh = TRUE
        /\ m.scrollOffset = l.scrollOffset + down
    BY <2>1, <2>2, ScrollDown DEF D
  <2> QED BY <1>2, <1>3, <1>5, <1>7, <2>3
<1>8. CASE ~(a < 0 /\ up > 0) /\ ~(a > 0 /\ down > 0)
  <2>1. a = 0 \/ (a < 0 /\ up = 0) \/ (a > 0 /\ down <= 0)
    BY <1>3, <1>5, <1>8
  <2>2. m = l
    BY <1>4, <1>8, <2>1
  <2>3. SameButScroll(l, l)
    BY DEF SameButScroll
  <2> QED BY <1>2, <1>3, <1>5, <1>8, <2>2, <2>3
<1> QED BY <1>6, <1>7, <1>8

\* What the keys that move leave alone.
SameButPlace(l, m) ==
    /\ m.targetSize = l.targetSize /\ m.sortMode = l.sortMode /\ m.ascending = l.ascending
    /\ m.detail = l.detail /\ m.detailStale = l.detailStale

\* h is k with the cursor on row p.
Moved(k, h, p) ==
    /\ h \in ListType /\ SameButCursor(k, h) /\ h.list = k.list /\ h.refresh = k.refresh
    /\ p \in Nat /\ h.cursorPos = p

\* m is l with the cursor on row p, and it is drawn.
CursorAt(l, m, d, p) ==
    /\ ListInv(m, d) /\ KeepsRows(l, m) /\ m.refresh = TRUE /\ SameButPlace(l, m)
    /\ m.scrollOffset = l.scrollOffset /\ m.cursorPos = p

\* The cursor on another row of the window: the old and the new one are drawn again.
LEMMA CursorMoved ==
    ASSUME NEW d, NEW l, ListInv(l, d), getSize(l) > 0, NEW p, p <= getCursorMaxPos(l),
           NEW k, k = invalidateCursor(l), NEW h, Moved(k, h, p), NEW m, m = invalidateCursor(h)
    PROVE  CursorAt(l, m, d, p)
<1>0. /\ h \in ListType /\ SameButCursor(k, h) /\ h.list = k.list /\ h.refresh = k.refresh
      /\ p \in Nat /\ h.cursorPos = p
  BY DEF Moved
<1>1. l \in ListType /\ ListOK(l, d)
  BY DEF ListInv, ListOK
<1>2. /\ Marks(l, k) /\ k.refresh = TRUE
      /\ \A i \in DOMAIN k.list :
           i > k.scrollOffset /\ i = l.scrollOffset + l.cursorPos + 1 => k.list[i].stale = Fields
  BY <1>1, AtCursor
<1>3. k \in ListType /\ Same(l, k) /\ SameConns(l, k) /\ KeepsRows(l, k)
  BY <1>2 DEF Marks
<1>4. /\ Marks(h, m) /\ m.refresh = TRUE
      /\ \A i \in DOMAIN m.list :
           i > m.scrollOffset /\ i = h.scrollOffset + h.cursorPos + 1 => m.list[i].stale = Fields
  BY <1>0, <1>2, AtCursor
<1>5. m \in ListType /\ Same(h, m) /\ SameConns(h, m) /\ KeepsRows(h, m)
  BY <1>4 DEF Marks
<1>6. /\ m.scrollOffset = l.scrollOffset /\ m.cursorPos = p /\ SameMode(l, m) /\ SameButPlace(l, m)
      /\ SameConns(l, m) /\ h.scrollOffset = l.scrollOffset /\ k.scrollOffset = l.scrollOffset
  BY <1>0, <1>3, <1>5 DEF Same, SameMode, SameButCursor, SameButPlace, SameConns
<1>7. ListOK(m, d) /\ (m.targetSize > 0 => Full(m, d)) /\ Len(m.list) = Len(l.list)
  BY <1>1, <1>5, <1>6, SameConnsOK DEF ListInv, ListOK, SameMode
<1>8. m.cursorPos <= getCursorMaxPos(m)
  <2>1. getCursorMaxPos(m) = getCursorMaxPos(l)
    BY <1>6, <1>7 DEF getCursorMaxPos, getSize
  <2> QED BY <1>6, <2>1
<1>9. KeepsRows(l, m)
  <2>1. SUFFICES ASSUME NEW i \in DOMAIN m.list, i > m.scrollOffset, m.list[i].stale # Fields
                 PROVE  KeepsRow(l, m, i)
    BY DEF KeepsRows, KeepsRow
  <2>2. /\ i \in DOMAIN k.list /\ m.list[i].conn = k.list[i].conn /\ k.list[i].stale \subseteq m.list[i].stale
    BY <1>0, <1>5, <2>1 DEF KeepsRows, KeepsRow
  <2>3. m.list[i].stale \subseteq Fields
    BY <1>5, ListFields
  <2>4. k.list[i].stale # Fields /\ i > k.scrollOffset
    BY <1>6, <2>1, <2>2, <2>3
  <2>5. i # l.scrollOffset + l.cursorPos + 1 /\ i # m.scrollOffset + m.cursorPos + 1
    BY <1>0, <1>2, <1>4, <1>6, <2>1, <2>2, <2>4
  <2>6. i \in DOMAIN l.list /\ k.list[i].conn = l.list[i].conn /\ l.list[i].stale \subseteq k.list[i].stale
    BY <1>3, <2>2, <2>4 DEF KeepsRows, KeepsRow
  <2> QED BY <1>6, <2>2, <2>5, <2>6 DEF KeepsRow
<1> QED BY <1>4, <1>6, <1>7, <1>8, <1>9 DEF ListInv, Marked, CursorAt

\* Where a key that moves by a leads to, among count connections.
Target(l, count, a) == Max({0, Min({count - 1, l.scrollOffset + l.cursorPos + a})})

\* moveCursor
LEMMA MoveCursor ==
    ASSUME NEW d \in DataType, NEW l, ListInv(l, d), l.targetSize > 0, NEW a \in Int, NEW m \in moveCursor(l, d, a)
    PROVE  /\ ListInv(m, d) /\ SameButPlace(l, m) /\ KeepsRows(l, m)
           /\ m = l \/ m.refresh = TRUE
           /\ getSize(l) > 0 => m.scrollOffset + m.cursorPos = Target(l, Cardinality(d.storage), a)
<1>1. l \in ListType /\ ListOK(l, d) /\ NoTwice(l) /\ Stored(l, d)
  BY DEF ListInv, ListOK
<1>2. PICK n, s, c, g, count : /\ n = Len(l.list) /\ s = l.scrollOffset /\ c = l.cursorPos
                               /\ g = getSize(l) /\ count = Cardinality(d.storage)
  OBVIOUS
<1>3. /\ n \in Nat /\ s \in Nat /\ c \in Nat /\ count \in Nat /\ n <= count /\ g \in Nat
      /\ g = (IF n > s THEN n - s ELSE 0)
      /\ getCursorMaxPos(l) = (IF g > 0 THEN g - 1 ELSE 0)
      /\ c <= getCursorMaxPos(l) /\ getCursorMaxPos(l) \in Nat
  BY <1>1, <1>2, ListFields, CountList, Window DEF ListInv
<1> DEFINE maxPos == getCursorMaxPos(l)
           toEdge == IF a < 0 THEN l.cursorPos ELSE maxPos - l.cursorPos
           isMore == IF a < 0 THEN l.scrollOffset > 0 ELSE Cardinality(d.storage) > Len(l.list)
           steps  == Max({a, -a})
           sign   == IF a < 0 THEN -1 ELSE 1
           edge   == IF a < 0 THEN 0 ELSE maxPos
           moved  == [invalidateCursor(l) EXCEPT !.cursorPos = @ + sign * Min({steps, toEdge})]
           scrolls == doScroll([l EXCEPT !.cursorPos = edge], d, sign * (steps - toEdge))
           stays == {IF toEdge > 0 /\ steps > 0 THEN invalidateCursor(moved) ELSE l}
<1>4. m \in CASE steps > toEdge /\ isMore -> scrolls [] ~(steps > toEdge /\ isMore) -> stays
  BY Zenon DEF moveCursor
<1>5. /\ steps = (IF a <= -a THEN -a ELSE a) /\ steps \in Nat /\ toEdge \in Nat
      /\ toEdge = (IF a < 0 THEN c ELSE maxPos - c)
  <2>1. -a \in Int
    OBVIOUS
  <2>2. steps = (IF a <= -a THEN -a ELSE a)
    BY ONLY a \in Int, <2>1, MinMax
  <2> HIDE DEF steps
  <2> QED BY <1>2, <1>3, <2>2
<1>6. /\ maxPos = (IF g > 0 THEN g - 1 ELSE 0) /\ maxPos \in Nat /\ c <= maxPos
      /\ edge = (IF a < 0 THEN 0 ELSE maxPos)
      /\ isMore <=> IF a < 0 THEN s > 0 ELSE count > n
  BY <1>2, <1>3
<1>7. Min({steps, toEdge}) = IF steps <= toEdge THEN steps ELSE toEdge
  <2> HIDE DEF steps, toEdge
  <2> QED BY <1>5, MinMax
<1>8. g > 0 => LET w == IF count - 1 <= s + c + a THEN count - 1 ELSE s + c + a
               IN  Target(l, Cardinality(d.storage), a) = IF 0 <= w THEN w ELSE 0
  <2>1. PICK x, y : x = count - 1 /\ y = s + c + a
    OBVIOUS
  <2>2. x \in Int /\ y \in Int
    BY <1>3, <2>1
  <2>3. PICK w : w = IF x <= y THEN x ELSE y
    OBVIOUS
  <2>4. Min({x, y}) = w /\ w \in Int
    BY <2>2, <2>3, MinMax
  <2>5. Max({0, w}) = IF 0 <= w THEN w ELSE 0
    <3>1. 0 \in Int
      OBVIOUS
    <3> QED BY ONLY <2>4, <3>1, MinMax
  <2>6. Target(l, Cardinality(d.storage), a) = Max({0, w})
    BY <1>2, <2>1, <2>4 DEF Target
  <2> QED BY <2>1, <2>3, <2>5, <2>6
<1> HIDE DEF maxPos, toEdge, isMore, steps, sign, edge, moved, scrolls, stays
<1>9. CASE steps > toEdge /\ isMore
  <2>1. PICK b : b = IF a < 0 THEN -(steps - toEdge) ELSE steps - toEdge
    OBVIOUS
  <2>2. b \in Int /\ b = sign * (steps - toEdge)
    BY <1>5, <2>1 DEF sign
  <2>3. edge \in Nat /\ edge <= maxPos
    BY <1>6
  <2>4. PICK k : k = [l EXCEPT !.cursorPos = edge]
    OBVIOUS
  <2>5. m \in doScroll(k, d, b)
    <3>1. m \in scrolls
      BY <1>4, <1>9
    <3> QED BY <2>2, <2>4, <3>1 DEF scrolls
  <2>6. k \in ListType /\ SameButCursor(l, k) /\ k.list = l.list /\ k.refresh = l.refresh /\ k.cursorPos = edge
    BY <1>1, <2>3, <2>4, WithCursor
  <2>7. ListInv(k, d)
    <3>1. SameConns(l, k) /\ SameMode(l, k)
      BY <2>6 DEF SameConns, SameButCursor
    <3>2. ListOK(k, d) /\ (k.targetSize > 0 => Full(k, d))
      BY <1>1, <2>6, <3>1, SameConnsOK DEF ListInv, ListOK, SameMode
    <3>3. Marked(k)
      BY <2>6, <3>1 DEF ListInv, Marked, SameMode
    <3>4. k.cursorPos <= getCursorMaxPos(k)
      <4>1. getCursorMaxPos(k) = maxPos
        BY <2>6, <3>1 DEF getCursorMaxPos, getSize, SameMode, maxPos
      <4> QED BY <2>3, <2>6, <4>1
    <3> QED BY <3>2, <3>3, <3>4 DEF ListInv
  <2>8. k.targetSize > 0 /\ k.scrollOffset = s /\ Len(k.list) = n
    BY <1>2, <2>6 DEF SameButCursor, SameMode
  <2>9. /\ ListInv(m, d) /\ SameButScroll(k, m)
        /\ m = k \/ (AllFresh(m) /\ m.refresh = TRUE)
        /\ m = k => m.scrollOffset = k.scrollOffset
        /\ b < 0 => m.scrollOffset = (IF -b <= k.scrollOffset THEN k.scrollOffset + b ELSE 0)
        /\ b > 0 => m.scrollOffset = IF b <= Cardinality(d.storage) - Len(k.list) THEN k.scrollOffset + b
                                     ELSE k.scrollOffset + (Cardinality(d.storage) - Len(k.list))
    <3>1. b \in Int /\ k.targetSize > 0
      BY <2>2, <2>8
    <3> QED BY ONLY d \in DataType, <2>5, <2>7, <3>1, DoScroll
  <2>10. /\ a < 0 => b < 0 /\ b = a + c /\ s > 0
         /\ ~(a < 0) => b > 0 /\ b = a - (maxPos - c) /\ count > n
    BY <1>3, <1>5, <1>6, <1>9, <2>1
  <2>11. /\ a < 0 => m.scrollOffset = (IF -b <= s THEN s + b ELSE 0)
         /\ ~(a < 0) => m.scrollOffset = IF b <= count - n THEN s + b ELSE s + (count - n)
    BY <1>2, <2>8, <2>9, <2>10
  <2>12. m # k
    <3>1. m.scrollOffset # s
      BY <1>3, <2>2, <2>10, <2>11
    <3> QED BY <2>8, <2>9, <3>1
  <2>13. AllFresh(m) /\ m.refresh = TRUE /\ m.cursorPos = edge
    BY <2>6, <2>9, <2>12 DEF SameButScroll
  <2>14. KeepsRows(l, m)
    BY <2>13, FreshKeeps
  <2>15. SameButPlace(l, m)
    BY <2>6, <2>9 DEF SameButPlace, SameButScroll, SameButCursor, SameMode
  <2>16. g > 0 => m.scrollOffset + m.cursorPos = Target(l, Cardinality(d.storage), a)
    <3>1. SUFFICES ASSUME g > 0 PROVE m.scrollOffset + m.cursorPos = Target(l, Cardinality(d.storage), a)
      OBVIOUS
    <3>2. PICK w : w = (IF count - 1 <= s + c + a THEN count - 1 ELSE s + c + a)
                   /\ Target(l, Cardinality(d.storage), a) = IF 0 <= w THEN w ELSE 0
      BY <1>8, <3>1
    <3>3. PICK x : x = m.scrollOffset
      OBVIOUS
    <3>4. CASE a < 0
      <4>1. x = (IF -b <= s THEN s + b ELSE 0) /\ b = a + c /\ m.cursorPos = 0 /\ b \in Int
        BY <1>6, <2>2, <2>10, <2>11, <2>13, <3>3, <3>4
      <4>2. n = s + g /\ c <= g - 1
        BY <1>3, <1>6, <3>1
      <4> QED BY <1>3, <3>1, <3>2, <3>3, <3>4, <4>1, <4>2
    <3>5. CASE ~(a < 0)
      <4>1. /\ x = (IF b <= count - n THEN s + b ELSE s + (count - n)) /\ b = a - ((g - 1) - c)
            /\ m.cursorPos = g - 1 /\ b \in Int
        BY <1>6, <2>2, <2>10, <2>11, <2>13, <3>1, <3>3, <3>5
      <4>2. n = s + g /\ c <= g - 1 /\ count > n
        BY <1>3, <1>6, <2>10, <3>1, <3>5
      <4> QED BY <1>3, <3>1, <3>2, <3>3, <3>5, <4>1, <4>2
    <3> QED BY <3>4, <3>5
  <2> QED BY <1>2, <2>9, <2>13, <2>14, <2>15, <2>16
<1>10. CASE ~(steps > toEdge /\ isMore)
  <2>1. m \in stays
    BY <1>4, <1>10
  <2>2. CASE toEdge > 0 /\ steps > 0
    <3>1. m = invalidateCursor(moved)
      BY <2>1, <2>2 DEF stays
    <3>2. PICK p : p = IF a < 0 THEN (IF steps <= toEdge THEN c - steps ELSE c - toEdge)
                       ELSE (IF steps <= toEdge THEN c + steps ELSE c + toEdge)
      OBVIOUS
    <3>3. p = c + sign * Min({steps, toEdge}) /\ p \in Nat /\ p <= maxPos
      <4>1. p = c + sign * Min({steps, toEdge})
        BY <1>3, <1>5, <1>7, <3>2 DEF sign
      <4>2. p \in Nat /\ p <= maxPos
        BY <1>3, <1>5, <1>6, <3>2
      <4> QED BY <4>1, <4>2
    <3>4. PICK k : k = invalidateCursor(l)
      OBVIOUS
    <3>5. k \in ListType /\ k.cursorPos = c
      BY <1>1, <1>2, <3>4, AtCursor DEF Marks, Same
    <3>6. PICK h : h = [k EXCEPT !.cursorPos = p]
      OBVIOUS
    <3>7. h = moved
      BY <3>3, <3>4, <3>5, <3>6 DEF moved
    <3>8. h \in ListType /\ SameButCursor(k, h) /\ h.list = k.list /\ h.refresh = k.refresh /\ h.cursorPos = p
      BY <3>3, <3>5, <3>6, WithCursor
    <3>9. g > 0
      BY <1>3, <1>5, <1>6, <2>2
    <3>10. /\ ListInv(m, d) /\ KeepsRows(l, m) /\ m.refresh = TRUE /\ SameButPlace(l, m)
           /\ m.scrollOffset = l.scrollOffset /\ m.cursorPos = p
      <4>1. getSize(l) > 0 /\ p <= getCursorMaxPos(l) /\ m = invalidateCursor(h)
        BY <1>2, <3>1, <3>3, <3>7, <3>9 DEF maxPos
      <4>2. Moved(k, h, p)
        BY <3>3, <3>8 DEF Moved
      <4>3. CursorAt(l, m, d, p)
        BY ONLY ListInv(l, d), <3>4, <4>1, <4>2, CursorMoved
      <4> QED BY <4>3 DEF CursorAt
    <3>11. s + p = Target(l, Cardinality(d.storage), a)
      <4>1. PICK w : w = (IF count - 1 <= s + c + a THEN count - 1 ELSE s + c + a)
                     /\ Target(l, Cardinality(d.storage), a) = IF 0 <= w THEN w ELSE 0
        BY <1>8, <3>9
      <4>2. n = s + g /\ maxPos = g - 1
        BY <1>3, <1>6, <3>9
      <4>3. steps > toEdge => IF a < 0 THEN s = 0 ELSE count = n
        BY <1>3, <1>6, <1>10
      <4> QED BY <1>3, <1>5, <1>6, <3>2, <3>9, <4>1, <4>2, <4>3
    <3> QED BY <1>2, <3>10, <3>11
  <2>3. CASE ~(toEdge > 0 /\ steps > 0)
    <3>1. m = l
      BY <2>1, <2>3 DEF stays
    <3>2. g > 0 => s + c = Target(l, Cardinality(d.storage), a)
      <4>1. SUFFICES ASSUME g > 0 PROVE s + c = Target(l, Cardinality(d.storage), a)
        OBVIOUS
      <4>2. PICK w : w = (IF count - 1 <= s + c + a THEN count - 1 ELSE s + c + a)
                     /\ Target(l, Cardinality(d.storage), a) = IF 0 <= w THEN w ELSE 0
        BY <1>8, <4>1
      <4>3. n = s + g /\ maxPos = g - 1
        BY <1>3, <1>6, <4>1
      <4>4. steps > toEdge => IF a < 0 THEN s = 0 ELSE count = n
        BY <1>3, <1>6, <1>10
      <4> QED BY <1>3, <1>5, <1>6, <2>3, <4>1, <4>2, <4>3, <4>4
    <3> QED BY <1>2, <3>1, <3>2, KeepsItself DEF SameButPlace
  <2> QED BY <2>2, <2>3
<1> QED BY <1>9, <1>10

-----------------------------------------------------------------------------
(***************************************************************************)
(* Another size of the window.                                             *)
(***************************************************************************)
\* What stays when the window gets another size.
SameButTarget(l, m) ==
    /\ m.scrollOffset = l.scrollOffset /\ m.sortMode = l.sortMode /\ m.ascending = l.ascending
    /\ m.detail = l.detail /\ m.detailStale = l.detailStale

\* The keys do not depend on the size.
LEMMA SameKeyResized ==
    ASSUME NEW l, NEW m, SameButTarget(l, m), NEW d, NEW c
    PROVE  Key(m, d, c) = Key(l, d, c)
BY DEF SameButTarget, Key, updateCompareFunc

\* The size.
LEMMA WithTarget ==
    ASSUME NEW l \in ListType, NEW n \in Nat, NEW m, m = [l EXCEPT !.targetSize = n]
    PROVE  /\ m \in ListType /\ SameButTarget(l, m) /\ m.list = l.list /\ m.cursorPos = l.cursorPos
           /\ m.refresh = l.refresh /\ m.targetSize = n
BY DEF ListType, SameButTarget

\* What fits the list into the window.
LEMMA Fitted ==
    ASSUME NEW d \in DataType, NEW l, ListInv(l, d), NEW size \in Nat, NEW k, k = [l EXCEPT !.targetSize = size],
           NEW m,
           m \in CASE getSize(l) > size -> {[pop_back(k, getSize(l) - size) EXCEPT !.refresh = TRUE]}
                   [] getSize(l) < size -> fill(k, d)
                   [] getSize(l) = size -> {k}
    PROVE  /\ ListOK(m, d) /\ Marked(m) /\ m.targetSize = size /\ (m.targetSize > 0 => Full(m, d))
           /\ SameButTarget(l, m)
<1>1. l \in ListType /\ ListOK(l, d) /\ Marked(l)
  BY DEF ListInv, ListOK
<1>2. PICK n, s, g : n = Len(l.list) /\ s = l.scrollOffset /\ g = getSize(l)
  OBVIOUS
<1>3. n \in Nat /\ s \in Nat /\ g \in Nat /\ g = (IF n > s THEN n - s ELSE 0)
  BY <1>1, <1>2, ListFields, Window
<1>4. /\ k \in ListType /\ SameButTarget(l, k) /\ k.list = l.list /\ k.cursorPos = l.cursorPos
      /\ k.refresh = l.refresh /\ k.targetSize = size
  BY <1>1, WithTarget
<1>5. NoTwice(k) /\ Stored(k, d) /\ Sorted(k, d) /\ Marked(k)
  <2>1. NoTwice(k) /\ Stored(k, d)
    BY <1>1, <1>4 DEF ListOK, NoTwice, Stored
  <2>2. Sorted(k, d)
    <3>1. \A c : Key(k, d, c) = Key(l, d, c)
      BY <1>4, SameKeyResized
    <3> QED BY <1>1, <1>4, <3>1 DEF ListOK, Sorted
  <2>3. Marked(k)
    BY <1>1, <1>4 DEF Marked, SameButTarget
  <2> QED BY <2>1, <2>2, <2>3
<1>6. Len(k.list) = n /\ k.scrollOffset = s
  BY <1>2, <1>4 DEF SameButTarget
<1>7. CASE g > size
  <2>1. PICK x : x = pop_back(k, g - size)
    OBVIOUS
  <2>2. m = [x EXCEPT !.refresh = TRUE]
    BY <1>2, <1>3, <1>7, <2>1
  <2>3. g - size \in 0..n
    BY <1>3, <1>7
  <2>4. x \in ListType /\ Same(k, x) /\ Prefix(k, x) /\ Len(x.list) = n - (g - size)
    <3>1. g - size \in 0..Len(k.list)
      BY <1>6, <2>3
    <3> QED BY <1>4, <1>6, <2>1, <3>1, PopBack
  <2>5. m \in ListType /\ Same(x, m) /\ m.list = x.list /\ m.refresh = TRUE
    BY <2>2, <2>4, Refreshed
  <2>6. SameMode(k, m) /\ Prefix(k, m) /\ Len(m.list) = s + size /\ SameButTarget(l, m)
    <3>1. SameMode(k, m) /\ Prefix(k, m) /\ SameButTarget(l, m)
      BY <1>4, <2>4, <2>5 DEF Same, SameMode, Prefix, SameButTarget
    <3>2. Len(m.list) = s + size
      BY <1>3, <1>7, <2>4, <2>5
    <3> QED BY <3>1, <3>2
  <2>7. NoTwice(m) /\ Stored(m, d) /\ Sorted(m, d)
    BY <1>4, <1>5, <2>5, <2>6, PrefixOK
  <2>8. m.targetSize = size /\ m.scrollOffset = s
    BY <1>4, <1>6, <2>6 DEF SameMode
  <2>9. Bounded(m) /\ Full(m, d)
    BY <1>3, <2>6, <2>8 DEF Bounded, Full
  <2> QED BY <2>5, <2>6, <2>7, <2>8, <2>9 DEF ListOK, Marked
<1>8. CASE g < size
  <2>1. m \in fill(k, d)
    BY <1>2, <1>3, <1>8
  <2>2. Bounded(k)
    BY <1>3, <1>4, <1>6, <1>8 DEF Bounded
  <2>3. ListOK(k, d)
    BY <1>4, <1>5, <2>2 DEF ListOK
  <2>4. Fills(k, m, d)
    BY <2>1, <2>3, Fill
  <2>5. ListOK(m, d) /\ Same(k, m) /\ (k.targetSize > 0 => Full(m, d)) /\ (m = k \/ m.refresh = TRUE)
    BY <2>4 DEF Fills
  <2>6. Marked(m)
    BY <1>5, <2>5 DEF Marked
  <2>7. m.targetSize = size /\ SameButTarget(l, m)
    BY <1>4, <2>5 DEF Same, SameMode, SameButTarget
  <2> QED BY <1>4, <2>5, <2>6, <2>7
<1>9. CASE g = size
  <2>1. m = k
    BY <1>2, <1>3, <1>9
  <2>2. Bounded(k) /\ (k.targetSize > 0 => Full(k, d))
    BY <1>3, <1>4, <1>6, <1>9 DEF Bounded, Full
  <2> QED BY <1>4, <1>5, <2>1, <2>2 DEF ListOK
<1> QED BY <1>3, <1>7, <1>8, <1>9

\* What a new size or a new order makes of the list l: every row of m is to be drawn.
Renewed(l, m, d, size) ==
    /\ ListInv(m, d) /\ AllFresh(m) /\ m.refresh = TRUE /\ m.targetSize = size
    /\ m.detail = l.detail /\ m.detailStale = l.detailStale

\* setTargetSize, and everything is drawn again.
LEMMA SetTargetSize ==
    ASSUME NEW d \in DataType, NEW l, ListInv(l, d), NEW size \in Nat, size # l.targetSize,
           NEW k \in setTargetSize(l, d, size), NEW m, m = invalidateAllVisible(k)
    PROVE  Renewed(l, m, d, size)
<1> DEFINE resized == [l EXCEPT !.targetSize = size]
           current == getSize(l)
           fitted  == CASE current > size -> {[pop_back(resized, current - size) EXCEPT !.refresh = TRUE]}
                        [] current < size -> fill(resized, d)
                        [] current = size -> {resized}
<1>1. PICK x \in fitted : k = clampCursor(x)
  <2>1. k \in IF l.targetSize = size THEN {l} ELSE {clampCursor(x) : x \in fitted}
    BY Zenon DEF setTargetSize
  <2> HIDE DEF fitted
  <2> QED BY <2>1
<1>2. /\ ListOK(x, d) /\ Marked(x) /\ x.targetSize = size /\ (x.targetSize > 0 => Full(x, d))
      /\ SameButTarget(l, x)
  <2>1. PICK r : r = resized
    OBVIOUS
  <2>2. x \in CASE getSize(l) > size -> {[pop_back(r, getSize(l) - size) EXCEPT !.refresh = TRUE]}
                [] getSize(l) < size -> fill(r, d)
                [] getSize(l) = size -> {r}
    BY <1>1, <2>1, Zenon
  <2>3. r = [l EXCEPT !.targetSize = size]
    BY <2>1
  <2> QED BY ONLY d \in DataType, ListInv(l, d), size \in Nat, <2>2, <2>3, Fitted
<1> HIDE DEF fitted
<1>3. /\ k \in ListType /\ SameButCursor(x, k) /\ SameConns(x, k) /\ Marked(k)
      /\ k.cursorPos <= getCursorMaxPos(k)
  BY <1>1, <1>2, Clamp DEF ListOK
<1>4. /\ m \in ListType /\ Same(k, m) /\ SameConns(k, m) /\ Marked(m) /\ m.refresh = TRUE /\ AllFresh(m)
  BY <1>3, AllVisible DEF Marks
<1>5. SameMode(x, m) /\ SameConns(x, m) /\ m.detail = x.detail /\ m.detailStale = x.detailStale
  BY <1>3, <1>4 DEF Same, SameMode, SameConns, SameButCursor
<1>6. ListOK(m, d) /\ (m.targetSize > 0 => Full(m, d)) /\ m.targetSize = size
  BY <1>2, <1>4, <1>5, SameConnsOK DEF ListOK, SameMode
<1>7. m.cursorPos <= getCursorMaxPos(m)
  <2>1. Len(k.list) <= Len(m.list) /\ m.scrollOffset = k.scrollOffset /\ m.cursorPos = k.cursorPos
    <3>1. Len(m.list) = Len(k.list) /\ Len(k.list) \in Nat
      BY <1>3, <1>4, SameConnsOK, ListFields DEF Same
    <3> QED BY <1>4, <3>1 DEF Same, SameMode
  <2> QED BY <1>3, <1>4, <2>1, CursorStays
<1> QED BY <1>2, <1>4, <1>5, <1>6, <1>7 DEF ListInv, SameButTarget, Renewed

\* What stays when the list is sorted by something else.
SameButOrder(l, m) ==
    /\ m.targetSize = l.targetSize /\ m.scrollOffset = l.scrollOffset /\ m.cursorPos = l.cursorPos
    /\ m.detail = l.detail /\ m.detailStale = l.detailStale

\* The empty list, in whatever order.
LEMMA Emptied ==
    ASSUME NEW l \in ListType, NEW mode \in SortModes, NEW asc \in BOOLEAN, NEW m,
           m = [l EXCEPT !.sortMode = mode, !.ascending = asc, !.list = <<>>]
    PROVE  m \in ListType /\ SameButOrder(l, m) /\ m.list = <<>>
<1>1. <<>> \in Seq(Items)
  OBVIOUS
<1> QED BY <1>1 DEF ListType, SameButOrder

\* How many items a window that is full shows does not depend on the order.
LEMMA FullLength ==
    ASSUME NEW d \in DataType, NEW l, ListOK(l, d), Full(l, d)
    PROVE  /\ Cardinality(d.storage) \in Nat
           /\ Len(l.list) = IF Cardinality(d.storage) <= l.scrollOffset + l.targetSize
                            THEN Cardinality(d.storage) ELSE l.scrollOffset + l.targetSize
<1>1. l \in ListType /\ NoTwice(l) /\ Stored(l, d) /\ Len(l.list) <= l.scrollOffset + l.targetSize
  BY DEF ListOK, Bounded
<1>2. /\ Cardinality(d.storage) \in Nat /\ Len(l.list) \in Nat /\ Len(l.list) <= Cardinality(d.storage)
      /\ Len(l.list) = Cardinality(d.storage) <=> \A c \in d.storage : containsItem(l, c)
  BY <1>1, CountList
<1>3. l.scrollOffset \in Nat /\ l.targetSize \in Nat
  BY <1>1, ListFields
<1>4. Len(l.list) = l.scrollOffset + l.targetSize \/ Len(l.list) = Cardinality(d.storage)
  BY <1>2 DEF Full
<1> QED BY <1>1, <1>2, <1>3, <1>4

\* setSortMode
LEMMA SetSortMode ==
    ASSUME NEW d \in DataType, NEW l, ListInv(l, d), NEW mode \in SortModes, NEW asc \in BOOLEAN,
           ~(l.sortMode = mode /\ l.ascending = asc), NEW m \in setSortMode(l, d, mode, asc)
    PROVE  Renewed(l, m, d, l.targetSize)
<1>1. l \in ListType /\ ListOK(l, d)
  BY DEF ListInv, ListOK
<1>2. PICK k : k = [l EXCEPT !.sortMode = mode, !.ascending = asc, !.list = <<>>]
  OBVIOUS
<1>3. PICK x \in fill(k, d) : m = [x EXCEPT !.refresh = TRUE]
  BY <1>2 DEF setSortMode
<1>4. k \in ListType /\ SameButOrder(l, k) /\ k.list = <<>>
  BY ONLY <1>1, mode \in SortModes, asc \in BOOLEAN, <1>2, Emptied
<1>5. DOMAIN k.list = {} /\ Len(k.list) = 0
  BY <1>4
<1>6. ListOK(k, d)
  BY <1>4, <1>5, ListFields DEF ListOK, NoTwice, Stored, Sorted, Bounded
<1>7. /\ x \in ListType /\ ListOK(x, d) /\ Same(k, x) /\ KeepsRows(k, x)
      /\ k.targetSize > 0 => Full(x, d)
  BY <1>3, <1>6, Fill DEF Fills, ListOK
<1>8. m \in ListType /\ Same(x, m) /\ m.list = x.list /\ m.refresh = TRUE
  BY <1>3, <1>7, Refreshed
<1>9. SameConns(x, m) /\ SameMode(x, m)
  BY <1>8 DEF SameConns, Same
<1>10. ListOK(m, d) /\ Marked(m) /\ (m.targetSize > 0 => Full(m, d))
  <2>1. NoTwice(m) /\ Stored(m, d) /\ Sorted(m, d) /\ Bounded(m) /\ (Full(x, d) => Full(m, d))
    BY <1>7, <1>8, <1>9, SameConnsOK DEF ListOK
  <2>2. m.targetSize = k.targetSize
    BY <1>7, <1>9 DEF Same, SameMode
  <2> QED BY <1>7, <1>8, <2>1, <2>2 DEF ListOK, Marked
<1>11. AllFresh(m)
  <2>1. AllFresh(x)
    BY <1>5, <1>7 DEF AllFresh, KeepsRows, KeepsRow
  <2> QED BY <1>8, <2>1 DEF AllFresh, Same, SameMode
<1>12. SameButOrder(l, m)
  BY <1>4, <1>7, <1>8 DEF SameButOrder, Same, SameMode
<1>13. m.cursorPos <= getCursorMaxPos(m)
  <2>1. Len(l.list) <= Len(m.list) \/ Len(l.list) <= l.scrollOffset
    <3>1. CASE l.targetSize > 0
      <4>1. Full(l, d) /\ Full(m, d) /\ m.targetSize = l.targetSize /\ m.scrollOffset = l.scrollOffset
        BY <1>10, <1>12, <3>1 DEF ListInv, SameButOrder
      <4>2. Len(l.list) = Len(m.list)
        BY <1>1, <1>10, <4>1, FullLength
      <4> QED BY <1>1, <4>2, ListFields
    <3>2. CASE ~(l.targetSize > 0)
      BY <1>1, <3>2, ListFields DEF ListOK, Bounded
    <3> QED BY <3>1, <3>2
  <2>2. CASE Len(l.list) <= Len(m.list)
    BY <1>1, <1>8, <1>12, <2>2, CursorStays DEF ListInv, SameButOrder
  <2>3. CASE Len(l.list) <= l.scrollOffset
    <3>1. getCursorMaxPos(l) = 0 /\ l.cursorPos \in Nat
      BY <1>1, <2>3, Window, ListFields
    <3>2. getCursorMaxPos(m) \in Nat
      BY <1>8, Window
    <3> QED BY <1>12, <3>1, <3>2 DEF ListInv, SameButOrder
  <2> QED BY <2>1, <2>2, <2>3
<1> QED BY <1>8, <1>10, <1>11, <1>12, <1>13 DEF ListInv, SameButOrder, Renewed

\* Everything was handed out to be drawn.
AllDrawn(l, m) ==
    /\ SameMode(l, m) /\ SameConns(l, m) /\ m.cursorPos = l.cursorPos /\ m.detail = l.detail
    /\ m.refresh = FALSE
    /\ \A i \in DOMAIN m.list : i > m.scrollOffset => m.list[i].stale = {}

\* getNextUpdate until there is no more
LEMMA NextUpdate ==
    ASSUME NEW d, NEW l, ListInv(l, d), NEW m, m = getNextUpdate(l)
    PROVE  ListInv(m, d) /\ AllDrawn(l, m)
<1>1. l \in ListType /\ ListOK(l, d) /\ Marked(l)
  BY DEF ListInv, ListOK
<1>2. l.refresh \in BOOLEAN
  BY <1>1, ListFields
<1>3. CASE l.refresh = FALSE
  <2>1. m = l
    BY <1>3 DEF getNextUpdate
  <2> QED BY <1>1, <1>3, <2>1, KeepsItself DEF AllDrawn, Same, Marked
<1>4. CASE l.refresh = TRUE
  <2>1. PICK s : s = [i \in DOMAIN l.list |->
                        IF i \in Visible(l) THEN [l.list[i] EXCEPT !.stale = {}] ELSE l.list[i]]
    OBVIOUS
  <2>2. m = [l EXCEPT !.list = s, !.refresh = FALSE]
    BY <1>4, <2>1 DEF getNextUpdate
  <2>3. ASSUME NEW x \in Items, NEW y, y = [x EXCEPT !.stale = {}]
        PROVE  y \in Items /\ y.conn = x.conn /\ y.stale = {}
    BY <2>3 DEF Items
  <2>4. l.list \in Seq(Items) /\ Len(l.list) \in Nat /\ DOMAIN l.list = 1..Len(l.list)
        /\ \A i \in DOMAIN l.list : l.list[i] \in Items
    BY <1>1, ListFields
  <2>5. ASSUME NEW i \in DOMAIN l.list
        PROVE  s[i] \in Items /\ s[i].conn = l.list[i].conn /\ (i \in Visible(l) => s[i].stale = {})
    BY <2>1, <2>3, <2>4
  <2>6. s \in Seq(Items) /\ DOMAIN s = DOMAIN l.list
    <3>1. DOMAIN s = 1..Len(l.list) /\ s = [i \in 1..Len(l.list) |-> s[i]]
      BY <2>1, <2>4
    <3>2. \A i \in 1..Len(l.list) : s[i] \in Items
      BY <2>4, <2>5
    <3>3. s \in [1..Len(l.list) -> Items]
      BY ONLY <3>1, <3>2
    <3>4. s \in Seq(Items)
      BY ONLY <2>4, <3>3
    <3> QED BY <2>4, <3>1, <3>4
  <2>7. m \in ListType /\ Same(l, m) /\ m.list = s /\ m.refresh = FALSE
    BY <1>1, <2>2, <2>6, WithList
  <2>8. SameConns(l, m) /\ SameMode(l, m)
    BY <2>5, <2>6, <2>7 DEF SameConns, Same
  <2>9. \A i \in DOMAIN m.list : i > m.scrollOffset => m.list[i].stale = {}
    BY <1>1, <2>5, <2>6, <2>7, <2>8, Window DEF SameMode
  <2>10. ListOK(m, d) /\ Marked(m) /\ (m.targetSize > 0 => Full(m, d)) /\ Len(m.list) = Len(l.list)
    BY <1>1, <2>7, <2>8, <2>9, SameConnsOK DEF ListOK, ListInv, Marked, SameMode
  <2>11. m.cursorPos <= getCursorMaxPos(m)
    <3>1. Len(l.list) <= Len(m.list)
      BY <2>4, <2>10
    <3> QED BY <1>1, <2>7, <3>1, CursorStays DEF ListInv, Same, SameMode
  <2> QED BY <2>7, <2>8, <2>9, <2>10, <2>11 DEF ListInv, AllDrawn, Same
<1> QED BY <1>2, <1>3, <1>4

\* Operations that only mark keep the list in order.
LEMMA MarksInv ==
    ASSUME NEW d, NEW l, ListInv(l, d), NEW m, Marks(l, m)
    PROVE  ListInv(m, d)
<1>1. l \in ListType /\ ListOK(l, d) /\ Marked(l)
  BY DEF ListInv, ListOK
<1>2. m \in ListType /\ Same(l, m) /\ SameMode(l, m) /\ SameConns(l, m) /\ Marked(m)
  BY <1>1 DEF Marks, Same
<1>3. ListOK(m, d) /\ (m.targetSize > 0 => Full(m, d)) /\ Len(m.list) = Len(l.list)
  BY <1>1, <1>2, SameConnsOK DEF ListOK, ListInv, SameMode
<1>4. Len(l.list) <= Len(m.list)
  BY <1>1, <1>3, ListFields
<1>5. m.cursorPos <= getCursorMaxPos(m)
  BY <1>1, <1>2, <1>4, CursorStays DEF ListInv, Same, SameMode
<1> QED BY <1>2, <1>3, <1>5 DEF ListInv

\* The dialog does not matter to the list.
LEMMA OtherDetail ==
    ASSUME NEW d, NEW l, ListInv(l, d), NEW m \in ListType, SameMode(l, m), m.list = l.list,
           m.cursorPos = l.cursorPos, m.refresh = l.refresh
    PROVE  ListInv(m, d)
<1>1. l \in ListType /\ ListOK(l, d) /\ Marked(l) /\ SameConns(l, m)
  BY DEF ListInv, ListOK, SameConns
<1>2. ListOK(m, d) /\ (m.targetSize > 0 => Full(m, d)) /\ Marked(m)
  BY <1>1, SameConnsOK DEF ListOK, ListInv, SameMode, Marked
<1>3. m.cursorPos <= getCursorMaxPos(m)
  BY DEF ListInv, SameMode, getCursorMaxPos, getSize
<1> QED BY <1>2, <1>3 DEF ListInv

\* What updateList leaves behind: everything handed out, the dialog told.
LEMMA HandedOut ==
    ASSUME NEW d, NEW l, ListInv(l, d), NEW m, m = resetConnectionDetailRefresh(getNextUpdate(l))
    PROVE  ListInv(m, d) /\ AllDrawn(l, m) /\ m.detailStale = {}
<1>1. PICK k : k = getNextUpdate(l)
  OBVIOUS
<1>2. ListInv(k, d) /\ AllDrawn(l, k) /\ k \in ListType
  BY <1>1, NextUpdate DEF ListInv, ListOK
<1>3. m = [k EXCEPT !.detailStale = {}]
  BY <1>1 DEF resetConnectionDetailRefresh
<1>4. {} \subseteq Fields
  OBVIOUS
<1>5. /\ m \in ListType /\ SameMode(k, m) /\ m.cursorPos = k.cursorPos /\ m.detail = k.detail
      /\ m.detailStale = {} /\ m.list = k.list /\ m.refresh = k.refresh
  BY <1>2, <1>3, <1>4, Told
<1>6. ListInv(m, d)
  BY <1>2, <1>5, OtherDetail
<1>7. AllDrawn(l, m)
  BY <1>2, <1>5 DEF AllDrawn, SameMode, SameConns
<1> QED BY <1>5, <1>6, <1>7

\* initConnectionDetail: the connection at the cursor is there.
LEMMA InitDetail ==
    ASSUME NEW d, NEW l, ListInv(l, d), NEW m, m = initConnectionDetail(l)
    PROVE  /\ ListInv(m, d) /\ SameMode(l, m) /\ m.list = l.list /\ m.cursorPos = l.cursorPos
           /\ m.refresh = l.refresh /\ m.detail \in d.storage \cup {None} /\ m.detailStale = Fields
<1>1. l \in ListType /\ Stored(l, d)
  BY DEF ListInv, ListOK
<1>2. PICK c : c = IF getSize(l) = 0 THEN None ELSE l.list[l.scrollOffset + l.cursorPos + 1].conn
  OBVIOUS
<1>3. c \in d.storage \cup {None} /\ c \in Conns \cup {None}
  <2>1. CASE getSize(l) = 0
    BY <1>2, <2>1
  <2>2. CASE getSize(l) # 0
    <3>1. PICK i : i = l.scrollOffset + l.cursorPos + 1
      OBVIOUS
    <3>2. i \in DOMAIN l.list
      <4>1. /\ Len(l.list) \in Nat /\ l.scrollOffset \in Nat /\ l.cursorPos \in Nat
            /\ DOMAIN l.list = 1..Len(l.list)
            /\ getSize(l) = (IF Len(l.list) > l.scrollOffset THEN Len(l.list) - l.scrollOffset ELSE 0)
            /\ getCursorMaxPos(l) = (IF getSize(l) > 0 THEN getSize(l) - 1 ELSE 0)
            /\ l.cursorPos <= getCursorMaxPos(l)
        BY <1>1, ListFields, Window DEF ListInv
      <4> QED BY <2>2, <3>1, <4>1
    <3>3. c = l.list[i].conn
      BY <1>2, <2>2, <3>1
    <3>4. l.list[i].conn \in Conns
      BY <1>1, <3>2, ListFields
    <3> QED BY <1>1, <3>2, <3>3, <3>4 DEF Stored
  <2> QED BY <2>1, <2>2
<1>4. m = [l EXCEPT !.detail = c, !.detailStale = Fields]
  BY <1>2 DEF initConnectionDetail
<1>5. /\ m \in ListType /\ SameMode(l, m) /\ m.list = l.list /\ m.cursorPos = l.cursorPos
      /\ m.refresh = l.refresh /\ m.detail = c /\ m.detailStale = Fields
  BY ONLY <1>1, <1>3, <1>4 DEF ListType, SameMode
<1>6. ListInv(m, d)
  BY <1>5, OtherDetail
<1> QED BY <1>3, <1>5, <1>6

-----------------------------------------------------------------------------
(***************************************************************************)
(* The answers of the resolver.                                            *)
(***************************************************************************)
\* e is d with another name for n.
Answers(d, e, n) ==
    /\ e.storage = d.storage /\ e.traffic = d.traffic
    /\ \A x \in Addresses \cup Ports : x # n => e.name[x] = d.name[x]

\* The keys that do not depend on names.
LEMMA SameWithoutNames ==
    ASSUME NEW d, NEW e, NEW n, Answers(d, e, n), NEW l \in ListType, NEW c \in Conns,
           l.sortMode = "DST_HOSTNAME" => n # Dst[c], l.sortMode = "DST_SERVICE" => n # Port[c]
    PROVE  Key(l, e, c) = Key(l, d, c)
<1>1. Dst[c] \in Addresses \cup Ports /\ Port[c] \in Addresses \cup Ports
  BY DEF Addresses, Ports
<1>2. l.sortMode \in SortModes
  BY ListFields
<1>3. updateCompareFunc(l, e, c) = updateCompareFunc(l, d, c)
  BY <1>1, <1>2 DEF updateCompareFunc, SortModes, Answers, hostnameKey, serviceKey, trafficKey
<1> QED BY <1>3 DEF Key

\* addressDataUpdated
LEMMA AddressUpdated ==
    ASSUME NEW d \in DataType, NEW e \in DataType, NEW a \in Addresses, Answers(d, e, a), NEW l, ListInv(l, d),
           NEW m \in addressDataUpdated(l, e, a)
    PROVE  /\ ListInv(m, e) /\ SameMode(l, m) /\ TellsOf(l, m, addressFields(a))
           /\ Follows(l, m, addressFields(a))
<1>1. l \in ListType
  BY DEF ListInv, ListOK
<1>2. PICK Has : Has = addressFields(a)
  OBVIOUS
<1>3. /\ Has \in [Conns -> SUBSET Fields]
      /\ \A c \in Conns : Has[c] = {} => a # Dst[c]
  <2>1. \A c \in Conns : Has[c] = {f \in {"SRC_ADDRESS", "DST_ADDRESS"} :
                                      a = IF f = "SRC_ADDRESS" THEN Src[c] ELSE Dst[c]}
    BY <1>2 DEF addressFields
  <2>2. ASSUME NEW c \in Conns PROVE Has[c] \subseteq Fields /\ (Has[c] = {} => a # Dst[c])
    <3>1. Has[c] \subseteq Fields
      BY <2>1 DEF Fields
    <3>2. "DST_ADDRESS" \in {"SRC_ADDRESS", "DST_ADDRESS"} /\ "DST_ADDRESS" # "SRC_ADDRESS"
      OBVIOUS
    <3>3. a = Dst[c] => "DST_ADDRESS" \in Has[c]
      BY <2>1, <3>2
    <3> QED BY <3>1, <3>3
  <2>3. Has = [c \in Conns |-> Has[c]]
    BY <1>2 DEF addressFields
  <2>4. \A c \in Conns : Has[c] \in SUBSET Fields
    BY <2>2
  <2> QED BY ONLY <2>2, <2>3, <2>4
<1>4. PICK may \in BOOLEAN : may <=> l.sortMode = "DST_HOSTNAME"
  OBVIOUS
<1>5. m \in dataUpdated(l, e, Has, may)
  <2>1. may = (l.sortMode = "DST_HOSTNAME")
    BY <1>4, Zenon
  <2> QED BY <1>2, <2>1, Zenon DEF addressDataUpdated
<1>6. \A c \in Conns : a # Port[c]
  BY ConnsAssumption DEF Addresses
<1>7. Names(d, e, l, Has, may)
  <2>1. ASSUME NEW c \in d.storage, ~may \/ Has[c] = {} PROVE Key(l, e, c) = Key(l, d, c)
    <3>1. c \in Conns
      BY DEF DataType
    <3>2. (l.sortMode = "DST_HOSTNAME" => a # Dst[c]) /\ (l.sortMode = "DST_SERVICE" => a # Port[c])
      BY <1>3, <1>4, <1>6, <2>1, <3>1
    <3> QED BY <1>1, <3>1, <3>2, SameWithoutNames
  <2> QED BY <2>1 DEF Names, Answers
<1>8. ListInv(m, e) /\ SameMode(l, m) /\ TellsOf(l, m, Has) /\ Follows(l, m, Has)
  BY <1>3, <1>5, <1>7, DataUpdated
<1> QED BY <1>2, <1>8

\* portDataUpdated
LEMMA PortUpdated ==
    ASSUME NEW d \in DataType, NEW e \in DataType, NEW p \in Ports, Answers(d, e, p), NEW l, ListInv(l, d),
           NEW m \in portDataUpdated(l, e, p)
    PROVE  /\ ListInv(m, e) /\ SameMode(l, m) /\ TellsOf(l, m, portFields(p))
           /\ Follows(l, m, portFields(p))
<1>1. l \in ListType
  BY DEF ListInv, ListOK
<1>2. PICK Has : Has = portFields(p)
  OBVIOUS
<1>3. /\ Has \in [Conns -> SUBSET Fields]
      /\ \A c \in Conns : Has[c] = {} => p # Port[c]
  <2>1. \A c \in Conns : Has[c] = IF p = Port[c] THEN {"DST_PORT"} ELSE {}
    BY <1>2 DEF portFields
  <2>2. \A c \in Conns : Has[c] \in SUBSET Fields
    BY <2>1 DEF Fields
  <2>3. Has = [c \in Conns |-> Has[c]]
    BY <1>2 DEF portFields
  <2>4. \A c \in Conns : Has[c] = {} => p # Port[c]
    BY <2>1
  <2> QED BY ONLY <2>2, <2>3, <2>4
<1>4. PICK may \in BOOLEAN : may <=> l.sortMode = "DST_SERVICE"
  OBVIOUS
<1>5. m \in dataUpdated(l, e, Has, may)
  <2>1. may = (l.sortMode = "DST_SERVICE")
    BY <1>4, Zenon
  <2> QED BY <1>2, <2>1, Zenon DEF portDataUpdated
<1>6. \A c \in Conns : p # Dst[c]
  BY ConnsAssumption DEF Ports
<1>7. Names(d, e, l, Has, may)
  <2>1. ASSUME NEW c \in d.storage, ~may \/ Has[c] = {} PROVE Key(l, e, c) = Key(l, d, c)
    <3>1. c \in Conns
      BY DEF DataType
    <3>2. (l.sortMode = "DST_HOSTNAME" => p # Dst[c]) /\ (l.sortMode = "DST_SERVICE" => p # Port[c])
      BY <1>3, <1>4, <1>6, <2>1, <3>1
    <3> QED BY <1>1, <3>1, <3>2, SameWithoutNames
  <2> QED BY <2>1 DEF Names, Answers
<1>8. ListInv(m, e) /\ SameMode(l, m) /\ TellsOf(l, m, Has) /\ Follows(l, m, Has)
  BY <1>3, <1>5, <1>7, DataUpdated
<1> QED BY <1>2, <1>8

-----------------------------------------------------------------------------
(***************************************************************************)
(* The rows of the window.                                                 *)
(***************************************************************************)
\* What is drawn: numbers, connections, or nothing.
Texts == Nat \cup Conns \cup {None}

RowType == [text : [Columns -> Texts], cursor : {"no", "yes", "mixed"}]

\* The colours of the row of position i.
cursorOf(sc, l, i) == IF sc /\ i = l.scrollOffset + l.cursorPos + 1 THEN "yes" ELSE "no"

\* The row of position i is to be drawn from scratch, or it shows what is not to be drawn.
RowShows(d, h, sc, l, w, i) ==
    \/ l.list[i].stale = Fields
    \/ /\ w[i - l.scrollOffset].cursor = cursorOf(sc, l, i)
       /\ \A f \in Columns : flagOf(f) \notin l.list[i].stale =>
            w[i - l.scrollOffset].text[f] = columnText(d, h, l.list[i].conn)[f]

Shows(d, h, sc, l, w) ==
    \A i \in DOMAIN l.list : i > l.scrollOffset => RowShows(d, h, sc, l, w, i)

\* The row of position i is right.
RowIsRight(d, h, sc, l, w, i) ==
    w[i - l.scrollOffset] = [text |-> columnText(d, h, l.list[i].conn), cursor |-> cursorOf(sc, l, i)]

\* The text of connection c is the same in d and e but for the fields F.
SameTexts(d, e, h, c, F) ==
    \A f \in Columns : flagOf(f) \notin F => columnText(e, h, c)[f] = columnText(d, h, c)[f]

\* columnText by its columns.
LEMMA ColumnTexts ==
    ASSUME NEW d \in DataType, NEW h \in BOOLEAN, NEW c \in Conns
    PROVE  /\ columnText(d, h, c) \in [Columns -> Texts]
           /\ columnText(d, h, c)["ROW"] = c
           /\ columnText(d, h, c)["SRC_ADDRESS"] = (IF h THEN d.name[Src[c]] ELSE 0)
           /\ columnText(d, h, c)["DST_ADDRESS"] = (IF h THEN d.name[Dst[c]] ELSE 0)
           /\ columnText(d, h, c)["DST_PORT"] = d.name[Port[c]]
           /\ columnText(d, h, c)["SRC_COUNTRY"] = d.name[Src[c]]
           /\ columnText(d, h, c)["DST_COUNTRY"] = d.name[Dst[c]]
           /\ columnText(d, h, c)["TRAFFIC"] = d.traffic[c]
<1>1. PICK t : t = columnText(d, h, c)
  OBVIOUS
<1>2. /\ d.name[Src[c]] \in Nat /\ d.name[Dst[c]] \in Nat /\ d.name[Port[c]] \in Nat /\ d.traffic[c] \in Nat
  <2>1. Src[c] \in Addresses \cup Ports /\ Dst[c] \in Addresses \cup Ports /\ Port[c] \in Addresses \cup Ports
    BY DEF Addresses, Ports
  <2> QED BY <2>1 DEF DataType
<1>3. /\ t["ROW"] = c
      /\ t["SRC_ADDRESS"] = (IF h THEN d.name[Src[c]] ELSE 0)
      /\ t["DST_ADDRESS"] = (IF h THEN d.name[Dst[c]] ELSE 0)
      /\ t["DST_PORT"] = d.name[Port[c]]
      /\ t["SRC_COUNTRY"] = d.name[Src[c]]
      /\ t["DST_COUNTRY"] = d.name[Dst[c]]
      /\ t["TRAFFIC"] = d.traffic[c]
  BY <1>1 DEF columnText, Columns, Fields, addressText, portText, geoText, trafficText
<1>4. ASSUME NEW f \in Columns PROVE t[f] \in Texts
  BY <1>2, <1>3 DEF Columns, Fields, Texts
<1>5. t = [f \in Columns |-> t[f]]
  <2> DEFINE g(f) == CASE f = "ROW"         -> c
                       [] f = "SRC_ADDRESS" -> addressText(d, h, Src[c])
                       [] f = "DST_ADDRESS" -> addressText(d, h, Dst[c])
                       [] f = "DST_PORT"    -> portText(d, c)
                       [] f = "SRC_COUNTRY" -> geoText(d, Src[c])
                       [] f = "DST_COUNTRY" -> geoText(d, Dst[c])
                       [] f = "TRAFFIC"     -> trafficText(d, c)
  <2>1. t = [f \in Columns |-> g(f)]
    BY <1>1, Zenon DEF columnText
  <2> HIDE DEF g
  <2> QED BY <2>1
<1>6. t \in [Columns -> Texts]
  BY ONLY <1>4, <1>5
<1> QED BY <1>1, <1>3, <1>6

\* A flag is a field.
LEMMA Flags ==
    /\ \A f \in Columns : flagOf(f) \in Fields
    /\ flagOf("ROW") = "ROW" /\ flagOf("SRC_ADDRESS") = "SRC_ADDRESS" /\ flagOf("DST_ADDRESS") = "DST_ADDRESS"
    /\ flagOf("DST_PORT") = "DST_PORT" /\ flagOf("TRAFFIC") = "TRAFFIC"
    /\ flagOf("SRC_COUNTRY") = "SRC_ADDRESS" /\ flagOf("DST_COUNTRY") = "DST_ADDRESS"
<1>1. /\ flagOf("ROW") = "ROW" /\ flagOf("SRC_ADDRESS") = "SRC_ADDRESS" /\ flagOf("DST_ADDRESS") = "DST_ADDRESS"
      /\ flagOf("DST_PORT") = "DST_PORT" /\ flagOf("TRAFFIC") = "TRAFFIC"
      /\ flagOf("SRC_COUNTRY") = "SRC_ADDRESS" /\ flagOf("DST_COUNTRY") = "DST_ADDRESS"
  BY DEF flagOf, Fields
<1> QED BY <1>1 DEF Columns, Fields

\* What changes a list and marks what it changed leaves the screen right where nothing is marked.
LEMMA ShowsStill ==
    ASSUME NEW d, NEW e, NEW h, NEW sc, NEW w, NEW l \in ListType, NEW m \in ListType,
           Stored(l, d), Stored(m, e),
           Shows(d, h, sc, l, w), NEW Has \in [Conns -> SUBSET Fields], Follows(l, m, Has),
           \A c \in d.storage \cap e.storage : SameTexts(d, e, h, c, Has[c])
    PROVE  Shows(e, h, sc, m, w)
<1>1. SUFFICES ASSUME NEW i \in DOMAIN m.list, i > m.scrollOffset, m.list[i].stale # Fields
               PROVE  RowShows(e, h, sc, m, w, i)
  BY DEF Shows, RowShows
<1>2. /\ m.scrollOffset = l.scrollOffset /\ i \in DOMAIN l.list
      /\ m.list[i].conn = l.list[i].conn /\ l.list[i].stale \subseteq m.list[i].stale
      /\ i = l.scrollOffset + l.cursorPos + 1 <=> i = m.scrollOffset + m.cursorPos + 1
  BY <1>1 DEF Follows, KeepsRows, KeepsRow
<1>3. m.list[i].stale \subseteq Fields
  BY ListFields
<1>4. l.list[i].stale # Fields /\ i > l.scrollOffset
  BY <1>1, <1>2, <1>3
<1>5. /\ w[i - l.scrollOffset].cursor = cursorOf(sc, l, i)
      /\ \A f \in Columns : flagOf(f) \notin l.list[i].stale =>
            w[i - l.scrollOffset].text[f] = columnText(d, h, l.list[i].conn)[f]
  BY <1>2, <1>4 DEF Shows, RowShows
<1>6. cursorOf(sc, m, i) = cursorOf(sc, l, i)
  BY <1>2 DEF cursorOf
<1>7. Has[m.list[i].conn] \subseteq m.list[i].stale
  BY <1>1 DEF Follows
<1>8. ASSUME NEW f \in Columns, flagOf(f) \notin m.list[i].stale
      PROVE  w[i - m.scrollOffset].text[f] = columnText(e, h, m.list[i].conn)[f]
  <2>1. flagOf(f) \notin l.list[i].stale /\ flagOf(f) \notin Has[l.list[i].conn]
    BY <1>2, <1>7, <1>8
  <2>2. columnText(e, h, l.list[i].conn)[f] = columnText(d, h, l.list[i].conn)[f]
    BY <1>2, <2>1 DEF SameTexts, Stored
  <2> QED BY <1>2, <1>5, <2>1, <2>2
<1> QED BY <1>2, <1>5, <1>6, <1>8 DEF RowShows

\* The same if the data did not change.
LEMMA ShowsKept ==
    ASSUME NEW d, NEW h, NEW sc, NEW w, NEW l \in ListType, NEW m \in ListType,
           Stored(l, d), Stored(m, d), Shows(d, h, sc, l, w), KeepsRows(l, m)
    PROVE  Shows(d, h, sc, m, w)
<1>1. PICK Has : Has = [c \in Conns |-> {}]
  OBVIOUS
<1>2. Has \in [Conns -> SUBSET Fields] /\ \A c \in Conns : Has[c] = {}
  BY <1>1
<1>3. Follows(l, m, Has)
  <2>1. \A i \in DOMAIN m.list : m.list[i].conn \in Conns
    BY ListFields
  <2> QED BY <1>2, <2>1 DEF Follows
<1>4. \A c \in d.storage \cap d.storage : SameTexts(d, d, h, c, Has[c])
  BY DEF SameTexts
<1> QED BY <1>2, <1>3, <1>4, ShowsStill

\* If everything is drawn again, nothing can be wrong.
LEMMA FreshShows ==
    ASSUME NEW d, NEW h, NEW sc, NEW w, NEW l, AllFresh(l)
    PROVE  Shows(d, h, sc, l, w)
BY DEF AllFresh, Shows, RowShows

\* The row old is to be drawn from scratch, or it shows what is not to be drawn of the item.
EntryShows(d, h, old, item, now) ==
    \/ item.stale = Fields
    \/ /\ old.cursor = now
       /\ \A f \in Columns : flagOf(f) \notin item.stale => old.text[f] = columnText(d, h, item.conn)[f]

\* The colours of a row.
colourOf(isCursor) == IF isCursor THEN "yes" ELSE "no"

\* drawListEntry makes the row right.
LEMMA DrawEntry ==
    ASSUME NEW d \in DataType, NEW h \in BOOLEAN, NEW old \in RowType, NEW item \in Items,
           NEW isCursor \in BOOLEAN, NEW now, now = colourOf(isCursor),
           EntryShows(d, h, old, item, now)
    PROVE  drawListEntry(d, h, old, item, isCursor) = [text |-> columnText(d, h, item.conn), cursor |-> now]
<1>1. PICK t, u : /\ t = columnText(d, h, item.conn)
                  /\ u = [f \in Columns |-> IF flagOf(f) \in item.stale THEN columnText(d, h, item.conn)[f]
                                            ELSE old.text[f]]
  OBVIOUS
<1>2. item.conn \in Conns /\ item.stale \subseteq Fields
  BY DEF Items
<1>3. t \in [Columns -> Texts]
  BY <1>1, <1>2, ColumnTexts
<1>4. ASSUME NEW f \in Columns PROVE u[f] = t[f]
  BY <1>1, Flags DEF EntryShows
<1>5. u = [f \in Columns |-> u[f]]
  BY <1>1
<1>6. u = t
  BY <1>3, <1>4, <1>5
<1> DEFINE c == CASE item.stale = {} \/ old.cursor = now                -> old.cursor
                  [] item.stale = Fields                                -> now
                  [] item.stale \notin {{}, Fields} /\ old.cursor # now -> "mixed"
<1>7. c = now
  <2>1. Fields # {}
    BY DEF Fields
  <2>2. CASE old.cursor = now
    BY <2>2
  <2>3. CASE old.cursor # now
    <3>1. item.stale = Fields
      BY <2>3 DEF EntryShows
    <3> QED BY <2>1, <2>3, <3>1
  <2> QED BY <2>2, <2>3
<1>8. drawListEntry(d, h, old, item, isCursor) = [text |-> u, cursor |-> c]
  BY <1>1, Zenon DEF drawListEntry, colourOf
<1> QED BY <1>1, <1>6, <1>7, <1>8

\* The rows updateList draws.
drawRows(d, h, window, l, isCursorShown, size) ==
    [r \in DOMAIN window |->
        CASE r <= getSize(l) /\ l.refresh ->
                 drawListEntry(d, h, window[r], l.list[l.scrollOffset + r],
                               isCursorShown /\ r - 1 = l.cursorPos)
          [] r <= getSize(l) /\ ~l.refresh -> window[r]
          [] r > getSize(l) ->
                 IF r <= size /\ getSize(l) < l.targetSize THEN Blank ELSE window[r]]

\* What the window is to show in row r.
rightRow(d, h, sc, l, r) ==
    IF r > getSize(l) THEN Blank
    ELSE [text   |-> columnText(d, h, l.list[l.scrollOffset + r].conn),
          cursor |-> IF sc /\ r - 1 = l.cursorPos THEN "yes" ELSE "no"]

IsRight(d, h, sc, l, w) == \A r \in 1..MaxRows : w[r] = rightRow(d, h, sc, l, r)

\* A row of the window and its item.
LEMMA RowItem ==
    ASSUME NEW d, NEW l, ListInv(l, d), l.targetSize <= MaxRows
    PROVE  /\ getSize(l) \in Nat /\ getSize(l) <= l.targetSize /\ getSize(l) <= MaxRows
           /\ \A r \in 1..MaxRows : r <= getSize(l) =>
                l.scrollOffset + r \in DOMAIN l.list /\ l.scrollOffset + r > l.scrollOffset
                /\ (l.scrollOffset + r) - l.scrollOffset = r
           /\ \A i \in DOMAIN l.list : i > l.scrollOffset =>
                /\ i - l.scrollOffset \in 1..MaxRows /\ i - l.scrollOffset <= getSize(l)
                /\ l.scrollOffset + (i - l.scrollOffset) = i
<1>1. /\ l \in ListType /\ Len(l.list) \in Nat /\ l.scrollOffset \in Nat /\ l.targetSize \in Nat
      /\ DOMAIN l.list = 1..Len(l.list) /\ Len(l.list) <= l.scrollOffset + l.targetSize
  BY ListFields DEF ListInv, ListOK, Bounded
<1>2. getSize(l) = IF Len(l.list) > l.scrollOffset THEN Len(l.list) - l.scrollOffset ELSE 0
  BY <1>1, Window
<1>3. MaxRows \in Nat
  BY ScreenAssumption
<1> QED BY <1>1, <1>2, <1>3

\* Blank is a row.
LEMMA BlankRow == Blank \in RowType
<1>1. PICK t : t = [f \in Columns |-> None]
  OBVIOUS
<1>2. None \in Texts
  BY DEF Texts
<1>3. t \in [Columns -> Texts]
  BY <1>1, <1>2
<1>4. Blank = [text |-> t, cursor |-> "no"]
  BY <1>1 DEF Blank
<1> QED BY <1>3, <1>4 DEF RowType

\* updateList leaves every row right.
LEMMA DrawWindow ==
    ASSUME NEW d \in DataType, NEW h \in BOOLEAN, NEW sc \in BOOLEAN, NEW l, ListInv(l, d),
           l.targetSize <= MaxRows, NEW w \in [1..MaxRows -> RowType], NEW size \in Nat,
           Shows(d, h, sc, l, w),
           \A r \in 1..MaxRows : r > getSize(l) /\ ~(r <= size /\ getSize(l) < l.targetSize) => w[r] = Blank,
           NEW v, v = drawRows(d, h, w, l, sc, size)
    PROVE  v \in [1..MaxRows -> RowType] /\ IsRight(d, h, sc, l, v)
<1>1. l \in ListType /\ Marked(l) /\ l.refresh \in BOOLEAN
  BY ListFields DEF ListInv, ListOK
<1>2. /\ getSize(l) \in Nat /\ getSize(l) <= l.targetSize /\ getSize(l) <= MaxRows
      /\ \A r \in 1..MaxRows : r <= getSize(l) =>
           l.scrollOffset + r \in DOMAIN l.list /\ l.scrollOffset + r > l.scrollOffset
           /\ (l.scrollOffset + r) - l.scrollOffset = r
  BY RowItem
<1> DEFINE V(r) ==
        CASE r <= getSize(l) /\ l.refresh ->
                 drawListEntry(d, h, w[r], l.list[l.scrollOffset + r], sc /\ r - 1 = l.cursorPos)
          [] r <= getSize(l) /\ ~l.refresh -> w[r]
          [] r > getSize(l) ->
                 IF r <= size /\ getSize(l) < l.targetSize THEN Blank ELSE w[r]
<1>3. DOMAIN w = 1..MaxRows
  OBVIOUS
<1>4. v = [r \in 1..MaxRows |-> V(r)]
  <2>1. v = [r \in DOMAIN w |-> V(r)]
    BY Zenon DEF drawRows
  <2> HIDE DEF V
  <2> QED BY <1>3, <2>1
<1>5. ASSUME NEW r \in 1..MaxRows PROVE V(r) = rightRow(d, h, sc, l, r) /\ V(r) \in RowType
  <2>1. CASE r > getSize(l)
    <3>1. ~(r <= getSize(l) /\ l.refresh) /\ ~(r <= getSize(l) /\ ~l.refresh)
      BY <1>2, <2>1
    <3>2. V(r) = IF r <= size /\ getSize(l) < l.targetSize THEN Blank ELSE w[r]
      BY <2>1, <3>1, Zenon
    <3>3. V(r) = Blank
      <4> HIDE DEF V
      <4> QED BY <2>1, <3>2
    <3> HIDE DEF V
    <3> QED BY <2>1, <3>3, BlankRow DEF rightRow
  <2>2. CASE r <= getSize(l)
    <3>1. PICK i, x : i = l.scrollOffset + r /\ x = l.list[i]
      OBVIOUS
    <3>2. i \in DOMAIN l.list /\ i > l.scrollOffset /\ i - l.scrollOffset = r
      BY <1>2, <2>2, <3>1
    <3>3. x \in Items /\ x.conn \in Conns
      BY <1>1, <3>1, <3>2, ListFields
    <3>4. PICK now, isCursor : /\ isCursor = (sc /\ r - 1 = l.cursorPos) /\ isCursor \in BOOLEAN
                               /\ now = (IF isCursor THEN "yes" ELSE "no")
      OBVIOUS
    <3>5. cursorOf(sc, l, i) = now
      <4>1. l.scrollOffset \in Nat /\ l.cursorPos \in Nat /\ r \in Int
        BY <1>1, ListFields
      <4>2. r - 1 = l.cursorPos <=> i = l.scrollOffset + l.cursorPos + 1
        BY <3>1, <4>1
      <4> QED BY <3>4, <4>2 DEF cursorOf
    <3>6. RowShows(d, h, sc, l, w, i)
      BY <3>2 DEF Shows
    <3>7. \/ x.stale = Fields
          \/ /\ w[r].cursor = now
             /\ \A f \in Columns : flagOf(f) \notin x.stale => w[r].text[f] = columnText(d, h, x.conn)[f]
      BY <3>1, <3>2, <3>5, <3>6 DEF RowShows
    <3>8. rightRow(d, h, sc, l, r) = [text |-> columnText(d, h, x.conn), cursor |-> now]
      <4>1. ~(r > getSize(l))
        BY <1>2, <2>2
      <4> QED BY <3>1, <3>4, <4>1 DEF rightRow
    <3>9. w[r] \in RowType
      OBVIOUS
    <3>10. rightRow(d, h, sc, l, r) \in RowType
      <4>1. columnText(d, h, x.conn) \in [Columns -> Texts]
        BY <3>3, ColumnTexts
      <4>2. now \in {"no", "yes", "mixed"}
        BY <3>4
      <4> QED BY <3>8, <4>1, <4>2 DEF RowType
    <3>11. CASE l.refresh = TRUE
      <4>0. /\ r <= getSize(l) /\ l.refresh
            /\ ~(r <= getSize(l) /\ ~l.refresh) /\ ~(r > getSize(l))
        BY <1>2, <2>2, <3>11
      <4>1. V(r) = drawListEntry(d, h, w[r], l.list[l.scrollOffset + r], sc /\ r - 1 = l.cursorPos)
        BY <4>0, Zenon
      <4> HIDE DEF V
      <4>2. V(r) = [text |-> columnText(d, h, x.conn), cursor |-> now]
        <5>1. V(r) = drawListEntry(d, h, w[r], x, isCursor)
          BY <3>1, <3>4, <4>1, Zenon
        <5>2. EntryShows(d, h, w[r], x, now)
          BY <3>7, Zenon DEF EntryShows
        <5>3. drawListEntry(d, h, w[r], x, isCursor) = [text |-> columnText(d, h, x.conn), cursor |-> now]
          <6>1. isCursor \in BOOLEAN /\ now = colourOf(isCursor) /\ x \in Items
            BY <3>3, <3>4 DEF colourOf
          <6> QED BY ONLY d \in DataType, h \in BOOLEAN, <3>9, <5>2, <6>1, DrawEntry
        <5> QED BY <5>1, <5>3
      <4> QED BY <3>8, <3>10, <4>2
    <3>12. CASE l.refresh = FALSE
      <4>0. /\ r <= getSize(l) /\ ~l.refresh
            /\ ~(r <= getSize(l) /\ l.refresh) /\ ~(r > getSize(l))
        BY <1>2, <2>2, <3>12
      <4>1. V(r) = w[r]
        BY <4>0, Zenon
      <4> HIDE DEF V
      <4>2. x.stale = {}
        BY <1>1, <3>1, <3>2, <3>12 DEF Marked
      <4>3. Fields # {}
        BY DEF Fields
      <4>4. w[r].cursor = now /\ \A f \in Columns : w[r].text[f] = columnText(d, h, x.conn)[f]
        BY <3>7, <4>2, <4>3
      <4>5. columnText(d, h, x.conn) \in [Columns -> Texts]
        BY <3>3, ColumnTexts
      <4>6. PICK t : t = columnText(d, h, x.conn)
        OBVIOUS
      <4>7. PICK y : y = w[r]
        OBVIOUS
      <4>8. y \in RowType /\ y.cursor = now /\ t \in [Columns -> Texts] /\ \A f \in Columns : y.text[f] = t[f]
        BY <3>9, <4>4, <4>5, <4>6, <4>7
      <4>9. y.text = t /\ y = [text |-> y.text, cursor |-> y.cursor]
        BY ONLY <4>8 DEF RowType
      <4> QED BY <3>8, <3>10, <4>1, <4>6, <4>7, <4>8, <4>9
    <3> HIDE DEF V
    <3> QED BY <1>1, <3>11, <3>12
  <2> HIDE DEF V
  <2> QED BY <1>2, <2>1, <2>2
<1> HIDE DEF V
<1>6. \A r \in 1..MaxRows : v[r] = rightRow(d, h, sc, l, r) /\ v[r] \in RowType
  BY <1>4, <1>5
<1> QED BY <1>4, <1>6 DEF IsRight

\* What is right stays right when it has been handed out.
LEMMA RightShows ==
    ASSUME NEW d, NEW h, NEW sc, NEW l, ListInv(l, d), NEW m, ListInv(m, d), AllDrawn(l, m),
           m.targetSize <= MaxRows, NEW w, IsRight(d, h, sc, l, w)
    PROVE  IsRight(d, h, sc, m, w) /\ Shows(d, h, sc, m, w) /\ getSize(m) = getSize(l)
<1>1. /\ l \in ListType /\ m \in ListType /\ SameMode(l, m) /\ SameConns(l, m) /\ m.cursorPos = l.cursorPos
      /\ m.scrollOffset = l.scrollOffset
  BY DEF ListInv, ListOK, AllDrawn, SameMode
<1>2. getSize(m) = getSize(l)
  <2>1. Len(m.list) = Len(l.list)
    BY <1>1, SameConnsOK
  <2> QED BY <1>1, <2>1 DEF getSize
<1>3. /\ getSize(m) \in Nat
      /\ \A r \in 1..MaxRows : r <= getSize(m) => m.scrollOffset + r \in DOMAIN m.list
      /\ \A i \in DOMAIN m.list : i > m.scrollOffset =>
           /\ i - m.scrollOffset \in 1..MaxRows /\ i - m.scrollOffset <= getSize(m)
           /\ m.scrollOffset + (i - m.scrollOffset) = i
  BY RowItem
<1>4. ASSUME NEW r \in 1..MaxRows PROVE rightRow(d, h, sc, m, r) = rightRow(d, h, sc, l, r)
  <2>1. CASE r > getSize(m)
    BY <1>2, <2>1 DEF rightRow
  <2>2. CASE ~(r > getSize(m))
    <3>1. m.scrollOffset + r \in DOMAIN m.list
      BY <1>3, <2>2
    <3>2. m.list[m.scrollOffset + r].conn = l.list[l.scrollOffset + r].conn
      BY <1>1, <3>1 DEF SameConns
    <3> QED BY <1>1, <1>2, <2>2, <3>2 DEF rightRow
  <2> QED BY <2>1, <2>2
<1>5. IsRight(d, h, sc, m, w)
  BY <1>4 DEF IsRight
<1>6. ASSUME NEW i \in DOMAIN m.list, i > m.scrollOffset PROVE RowShows(d, h, sc, m, w, i)
  <2>1. PICK r : r = i - m.scrollOffset
    OBVIOUS
  <2>2. r \in 1..MaxRows /\ ~(r > getSize(m)) /\ m.scrollOffset + r = i
    BY <1>3, <1>6, <2>1
  <2>3. w[r] = [text   |-> columnText(d, h, m.list[i].conn),
                cursor |-> IF sc /\ r - 1 = m.cursorPos THEN "yes" ELSE "no"]
    BY <1>5, <2>2 DEF IsRight, rightRow
  <2>4. r - 1 = m.cursorPos <=> i = m.scrollOffset + m.cursorPos + 1
    <3>1. m.scrollOffset \in Nat /\ m.cursorPos \in Nat
      BY <1>1, ListFields
    <3> QED BY <2>2, <3>1
  <2>5. w[r].cursor = cursorOf(sc, m, i)
    BY <2>3, <2>4 DEF cursorOf
  <2> QED BY <2>1, <2>3, <2>5 DEF RowShows
<1> QED BY <1>2, <1>5, <1>6 DEF Shows

-----------------------------------------------------------------------------
(***************************************************************************)
(* The dialog with the details of a connection.                            *)
(***************************************************************************)
BoxType == [content : {"NONE", "NORMAL", "REMOVED"}, text : [Fields -> Texts]]

\* The dialog shows what it is not going to be told.
DialogTells(d, l, box) ==
    /\ box.content = "REMOVED" => l.detail = None
    /\ box.content = "NORMAL" /\ l.detail = None => l.detailStale # {}
    /\ box.content = "NORMAL" /\ l.detail # None =>
         \A f \in Fields : f \notin l.detailStale => box.text[f] = detailText(d, l.detail)[f]

\* Only the traffic of its connection changes unseen: update replaces what the dialog is to be told.
DialogShows(d, l, box) ==
    box.content = "NORMAL" /\ l.detail # None =>
        \A f \in Fields : f # "TRAFFIC" => box.text[f] = detailText(d, l.detail)[f]

DialogIsRight(d, l, box) ==
    /\ box.content = "REMOVED" => l.detail = None
    /\ box.content = "NORMAL" => l.detail # None /\ box.text = detailText(d, l.detail)

\* What updateList draws in the dialog.
drawDialog(d, box, l) ==
    IF l.detailStale # {} THEN updateDialog(d, box, l.detail, l.detailStale) ELSE box

\* detailText by its fields.
LEMMA DetailTexts ==
    ASSUME NEW d \in DataType, NEW c \in Conns
    PROVE  /\ detailText(d, c) \in [Fields -> Texts]
           /\ detailText(d, c)["ROW"] = c
           /\ detailText(d, c)["SRC_ADDRESS"] = d.name[Src[c]]
           /\ detailText(d, c)["DST_ADDRESS"] = d.name[Dst[c]]
           /\ detailText(d, c)["DST_PORT"] = d.name[Port[c]]
           /\ detailText(d, c)["TRAFFIC"] = d.traffic[c]
<1>1. PICK t : t = detailText(d, c)
  OBVIOUS
<1>2. /\ d.name[Src[c]] \in Nat /\ d.name[Dst[c]] \in Nat /\ d.name[Port[c]] \in Nat /\ d.traffic[c] \in Nat
  <2>1. Src[c] \in Addresses \cup Ports /\ Dst[c] \in Addresses \cup Ports /\ Port[c] \in Addresses \cup Ports
    BY DEF Addresses, Ports
  <2> QED BY <2>1 DEF DataType
<1>3. /\ t["ROW"] = c
      /\ t["SRC_ADDRESS"] = d.name[Src[c]]
      /\ t["DST_ADDRESS"] = d.name[Dst[c]]
      /\ t["DST_PORT"] = d.name[Port[c]]
      /\ t["TRAFFIC"] = d.traffic[c]
  BY <1>1 DEF detailText, Fields
<1>4. ASSUME NEW f \in Fields PROVE t[f] \in Texts
  BY <1>2, <1>3 DEF Fields, Texts
<1>5. t = [f \in Fields |-> t[f]]
  <2> DEFINE g(f) == CASE f = "ROW"         -> c
                       [] f = "SRC_ADDRESS" -> d.name[Src[c]]
                       [] f = "DST_ADDRESS" -> d.name[Dst[c]]
                       [] f = "DST_PORT"    -> d.name[Port[c]]
                       [] f = "TRAFFIC"     -> d.traffic[c]
  <2>1. t = [f \in Fields |-> g(f)]
    BY <1>1, Zenon DEF detailText
  <2> HIDE DEF g
  <2> QED BY <2>1
<1>6. t \in [Fields -> Texts]
  BY ONLY <1>4, <1>5
<1> QED BY <1>1, <1>3, <1>6

\* The closed dialog.
LEMMA ClosedBox == Closed \in BoxType /\ Closed.content = "NONE" /\ Closed.text \in [Fields -> Texts]
<1>1. PICK t : t = [f \in Fields |-> IF f = "ROW" THEN None ELSE 0]
  OBVIOUS
<1>2. t \in [Fields -> Texts]
  BY <1>1 DEF Texts
<1>3. Closed = [content |-> "NONE", text |-> t]
  BY <1>1 DEF Closed
<1> QED BY <1>2, <1>3 DEF BoxType

\* The fields S are drawn, of which only those that differ are written.
redrawn(box, new, S) == [box EXCEPT !.text = drawUpdate(@, new, {f \in S : box.text[f] # new[f]})]

\* DialogConnectionDetails::drawUpdate of the fields that differ.
LEMMA DrawText ==
    ASSUME NEW box \in BoxType, NEW new \in [Fields -> Texts], NEW S, S \subseteq Fields,
           \A f \in Fields : f \notin S => box.text[f] = new[f],
           NEW b, b = redrawn(box, new, S)
    PROVE  b \in BoxType /\ b.text = new /\ b.content = box.content
<1>1. PICK t : t = drawUpdate(box.text, new, {f \in S : box.text[f] # new[f]})
  OBVIOUS
<1>2. /\ t = [f \in Fields |-> t[f]]
      /\ \A f \in Fields : t[f] = IF f \in {x \in S : box.text[x] # new[x]} THEN new[f] ELSE box.text[f]
  BY <1>1 DEF drawUpdate
<1>3. \A f \in Fields : t[f] = new[f]
  BY <1>2
<1>4. t = new
  BY <1>2, <1>3
<1>5. b = [box EXCEPT !.text = new]
  BY <1>1, <1>4 DEF redrawn
<1> QED BY <1>5 DEF BoxType

\* updateList leaves the dialog right.
LEMMA DrawDialog ==
    ASSUME NEW d \in DataType, NEW l \in ListType, NEW box \in BoxType, DialogTells(d, l, box),
           NEW b, b = drawDialog(d, box, l)
    PROVE  b \in BoxType /\ DialogIsRight(d, l, b)
<1>1. l.detail \in Conns \cup {None} /\ l.detailStale \subseteq Fields
  BY ListFields
<1>2. box.content \in {"NONE", "NORMAL", "REMOVED"} /\ box.text \in [Fields -> Texts]
  BY DEF BoxType
<1>3. CASE l.detailStale = {}
  <2>1. b = box
    BY <1>3 DEF drawDialog
  <2>2. CASE box.content = "NORMAL"
    <3>1. l.detail # None /\ \A f \in Fields : box.text[f] = detailText(d, l.detail)[f]
      BY <1>3, <2>2 DEF DialogTells
    <3>2. detailText(d, l.detail) \in [Fields -> Texts]
      BY <1>1, <3>1, DetailTexts
    <3>3. box.text = detailText(d, l.detail)
      BY <1>2, <3>1, <3>2
    <3> QED BY <2>1, <2>2, <3>1, <3>3 DEF DialogIsRight
  <2>3. CASE box.content # "NORMAL"
    BY <2>1, <2>3 DEF DialogTells, DialogIsRight
  <2> QED BY <2>2, <2>3
<1>4. CASE l.detailStale # {}
  <2>1. b = updateDialog(d, box, l.detail, l.detailStale)
    BY <1>4 DEF drawDialog
  <2>2. CASE box.content = "NONE"
    <3>1. b = box
      BY <2>1, <2>2 DEF updateDialog
    <3> QED BY <2>2, <3>1 DEF DialogIsRight
  <2>3. CASE box.content # "NONE" /\ l.detail = None
    <3>1. b = [Closed EXCEPT !.content = "REMOVED"]
      BY <2>1, <2>3 DEF updateDialog
    <3>2. b \in BoxType /\ b.content = "REMOVED"
      BY <3>1, ClosedBox DEF BoxType
    <3> QED BY <2>3, <3>2 DEF DialogIsRight
  <2>4. CASE box.content # "NONE" /\ l.detail # None
    <3>1. PICK new : new = detailText(d, l.detail)
      OBVIOUS
    <3>2. new \in [Fields -> Texts]
      BY <1>1, <2>4, <3>1, DetailTexts
    <3>3. b = redrawn(box, new, l.detailStale)
      BY <2>1, <2>4, <3>1 DEF updateDialog, redrawn
    <3>4. box.content = "NORMAL"
      BY <1>2, <2>4 DEF DialogTells
    <3>5. \A f \in Fields : f \notin l.detailStale => box.text[f] = new[f]
      BY <2>4, <3>1, <3>4 DEF DialogTells
    <3>6. b \in BoxType /\ b.text = new /\ b.content = box.content
      BY <1>1, <3>2, <3>3, <3>5, DrawText
    <3> QED BY <2>4, <3>1, <3>4, <3>6 DEF DialogIsRight
  <2> QED BY <2>2, <2>3, <2>4
<1> QED BY <1>3, <1>4

\* A dialog that is right needs to be told nothing.
LEMMA RightTells ==
    ASSUME NEW d, NEW l, NEW box, DialogIsRight(d, l, box)
    PROVE  DialogTells(d, l, box) /\ DialogShows(d, l, box)
BY DEF DialogIsRight, DialogTells, DialogShows

\* ENTER: the dialog is drawn from what is known.
LEMMA OpenBox ==
    ASSUME NEW d \in DataType, NEW c \in Conns, NEW b, b = updateDialog(d, drawStatic(c), c, Fields)
    PROVE  b \in BoxType /\ b.content = "NORMAL" /\ b.text = detailText(d, c)
<1>1. PICK box : box = drawStatic(c)
  OBVIOUS
<1>2. box \in BoxType /\ box.content = "NORMAL"
  <2>1. PICK t : t = [Closed.text EXCEPT !["ROW"] = c]
    OBVIOUS
  <2>2. c \in Texts
    BY DEF Texts
  <2>3. t \in [Fields -> Texts]
    BY <2>1, <2>2, ClosedBox
  <2>4. box = [content |-> "NORMAL", text |-> t]
    BY <1>1, <2>1 DEF drawStatic
  <2> QED BY <2>3, <2>4 DEF BoxType
<1>3. PICK new : new = detailText(d, c)
  OBVIOUS
<1>4. new \in [Fields -> Texts]
  BY <1>3, DetailTexts
<1>5. c # None
  BY ConnsAssumption
<1>6. b = redrawn(box, new, Fields)
  BY <1>1, <1>2, <1>3, <1>5 DEF updateDialog, redrawn
<1>7. b \in BoxType /\ b.text = new /\ b.content = box.content
  BY <1>2, <1>4, <1>6, DrawText
<1> QED BY <1>2, <1>3, <1>7

-----------------------------------------------------------------------------
(***************************************************************************)
(* The state.                                                              *)
(***************************************************************************)
\* Always: the list is in order, and what is drawn is right where nothing is marked.
Sound(d, l, w, size, sc, h, box) ==
    /\ d \in DataType /\ ListInv(l, d) /\ l.detail \in d.storage \cup {None} /\ l.targetSize <= MaxRows
    /\ sc \in BOOLEAN /\ h \in BOOLEAN
    /\ w \in [1..MaxRows -> RowType] /\ Shows(d, h, sc, l, w)
    /\ size \in Nat /\ size <= l.targetSize
    /\ \A r \in 1..MaxRows : r > size => w[r] = Blank
    /\ box \in BoxType /\ DialogTells(d, l, box) /\ DialogShows(d, l, box)

\* Between two handlers: nothing is marked.
Still(d, l, w, size, sc, h, hd, box) ==
    /\ l.refresh = FALSE /\ size = getSize(l) /\ hd = drawHeader(d, l)
    /\ IsRight(d, h, sc, l, w) /\ DialogIsRight(d, l, box)

ScreenInv ==
    /\ Sound(data, connList, rows, currentSize, showCursor, showHostname, dialog)
    /\ changes \in Nat
    /\ changes = 0 => Still(data, connList, rows, currentSize, showCursor, showHostname, header, dialog)

\* What can be drawn.
Drawable(d, l, w, size, sc, h, box) ==
    /\ d \in DataType /\ ListInv(l, d) /\ l.detail \in d.storage \cup {None} /\ l.targetSize <= MaxRows
    /\ sc \in BOOLEAN /\ h \in BOOLEAN
    /\ w \in [1..MaxRows -> RowType] /\ Shows(d, h, sc, l, w)
    /\ size \in Nat
    /\ \A r \in 1..MaxRows : r > getSize(l) /\ ~(r <= size /\ getSize(l) < l.targetSize) => w[r] = Blank
    /\ box \in BoxType /\ DialogTells(d, l, box)

\* What updateList leaves behind.
LEMMA Redraw ==
    ASSUME NEW d, NEW l, NEW w, NEW size, NEW sc, NEW h, NEW box, Drawable(d, l, w, size, sc, h, box),
           NEW v, v = drawRows(d, h, w, l, sc, size), NEW b, b = drawDialog(d, box, l),
           NEW m, m = resetConnectionDetailRefresh(getNextUpdate(l)), NEW n, n = getSize(l),
           NEW hd, hd = drawHeader(d, l)
    PROVE  Sound(d, m, v, n, sc, h, b) /\ Still(d, m, v, n, sc, h, hd, b)
<1>1. /\ d \in DataType /\ ListInv(l, d) /\ l.detail \in d.storage \cup {None} /\ l.targetSize <= MaxRows
      /\ sc \in BOOLEAN /\ h \in BOOLEAN
      /\ w \in [1..MaxRows -> RowType] /\ Shows(d, h, sc, l, w)
      /\ size \in Nat
      /\ \A r \in 1..MaxRows : r > getSize(l) /\ ~(r <= size /\ getSize(l) < l.targetSize) => w[r] = Blank
      /\ box \in BoxType /\ DialogTells(d, l, box) /\ l \in ListType
  BY DEF Drawable, ListInv, ListOK
<1>2. ListInv(m, d) /\ AllDrawn(l, m) /\ m.detailStale = {}
  BY <1>1, HandedOut
<1>3. v \in [1..MaxRows -> RowType] /\ IsRight(d, h, sc, l, v)
  BY <1>1, DrawWindow
<1>4. b \in BoxType /\ DialogIsRight(d, l, b)
  BY <1>1, DrawDialog
<1>5. /\ m.targetSize = l.targetSize /\ m.detail = l.detail /\ m.scrollOffset = l.scrollOffset
      /\ m.refresh = FALSE
  BY <1>2 DEF AllDrawn, SameMode
<1>6. IsRight(d, h, sc, m, v) /\ Shows(d, h, sc, m, v) /\ getSize(m) = getSize(l)
  <2>1. m.targetSize <= MaxRows
    BY <1>1, <1>5
  <2> QED BY ONLY <1>1, <1>2, <1>3, <2>1, RightShows
<1>7. DialogIsRight(d, m, b)
  BY <1>4, <1>5 DEF DialogIsRight
<1>8. DialogTells(d, m, b) /\ DialogShows(d, m, b)
  BY <1>7, RightTells
<1>9. n \in Nat /\ n <= m.targetSize
  BY <1>1, <1>5, RowItem
<1>10. \A r \in 1..MaxRows : r > n => v[r] = Blank
  BY <1>3 DEF IsRight, rightRow
<1>11. Still(d, m, v, n, sc, h, hd, b)
  BY <1>5, <1>6, <1>7 DEF Still, drawHeader
<1>12. Sound(d, m, v, n, sc, h, b)
  <2>1. m.detail \in d.storage \cup {None} /\ m.targetSize <= MaxRows
    BY <1>1, <1>5
  <2> QED BY <1>1, <1>2, <1>3, <1>4, <1>6, <1>8, <1>9, <1>10, <2>1 DEF Sound
<1> QED BY <1>11, <1>12

\* A list that took over from one that was sound can be drawn.
LEMMA CanBeDrawn ==
    ASSUME NEW d, NEW l, NEW w, NEW size, NEW sc, NEW h, NEW box, Sound(d, l, w, size, sc, h, box),
           NEW m, ListInv(m, d), m.detail = l.detail, m.detailStale = l.detailStale,
           m.targetSize = l.targetSize, KeepsRows(l, m)
    PROVE  Drawable(d, m, w, size, sc, h, box)
<1>1. /\ d \in DataType /\ ListInv(l, d) /\ l.detail \in d.storage \cup {None} /\ l.targetSize <= MaxRows
      /\ sc \in BOOLEAN /\ h \in BOOLEAN
      /\ w \in [1..MaxRows -> RowType] /\ Shows(d, h, sc, l, w)
      /\ size \in Nat /\ size <= l.targetSize
      /\ \A r \in 1..MaxRows : r > size => w[r] = Blank
      /\ box \in BoxType /\ DialogTells(d, l, box)
  BY DEF Sound
<1>2. l \in ListType /\ m \in ListType /\ Stored(l, d) /\ Stored(m, d)
  BY <1>1 DEF ListInv, ListOK
<1>3. Shows(d, h, sc, m, w)
  BY <1>1, <1>2, ShowsKept
<1>4. DialogTells(d, m, box)
  BY <1>1 DEF DialogTells
<1>5. ASSUME NEW r \in 1..MaxRows, r > getSize(m), ~(r <= size /\ getSize(m) < m.targetSize)
      PROVE  w[r] = Blank
  <2>1. getSize(m) \in Nat /\ m.targetSize \in Nat
    BY <1>2, Window, ListFields
  <2>2. r > size
    BY <1>1, <1>5, <2>1
  <2> QED BY <1>1, <2>2
<1> QED BY <1>1, <1>3, <1>4, <1>5 DEF Drawable

\* So can the list after a handler.
LEMMA SoundIsDrawable ==
    ASSUME NEW d, NEW l, NEW w, NEW size, NEW sc, NEW h, NEW box, Sound(d, l, w, size, sc, h, box)
    PROVE  Drawable(d, l, w, size, sc, h, box)
<1>1. ListInv(l, d)
  BY DEF Sound
<1> QED BY <1>1, KeepsItself, CanBeDrawn

\* The same connections show the same if nothing they show has changed.
LEMMA SameTraffic ==
    ASSUME NEW d \in DataType, NEW e \in DataType, NEW h \in BOOLEAN, NEW c \in Conns, e.name = d.name
    PROVE  /\ e.traffic[c] = d.traffic[c] => SameTexts(d, e, h, c, {})
           /\ SameTexts(d, e, h, c, {"TRAFFIC"})
           /\ e.traffic[c] = d.traffic[c] => detailText(e, c) = detailText(d, c)
           /\ \A f \in Fields : f # "TRAFFIC" => detailText(e, c)[f] = detailText(d, c)[f]
<1>1. SameTexts(d, e, h, c, {"TRAFFIC"})
  <2>1. ASSUME NEW f \in Columns, flagOf(f) \notin {"TRAFFIC"}
        PROVE  columnText(e, h, c)[f] = columnText(d, h, c)[f]
    <3>1. f # "TRAFFIC"
      BY <2>1, Flags
    <3> QED BY <3>1, ColumnTexts DEF Columns, Fields
  <2> QED BY <2>1 DEF SameTexts
<1>2. e.traffic[c] = d.traffic[c] => SameTexts(d, e, h, c, {})
  <2>1. ASSUME e.traffic[c] = d.traffic[c], NEW f \in Columns
        PROVE  columnText(e, h, c)[f] = columnText(d, h, c)[f]
    BY <2>1, ColumnTexts DEF Columns, Fields
  <2> QED BY <2>1 DEF SameTexts
<1>3. \A f \in Fields : f # "TRAFFIC" => detailText(e, c)[f] = detailText(d, c)[f]
  BY DetailTexts DEF Fields
<1>4. e.traffic[c] = d.traffic[c] => detailText(e, c) = detailText(d, c)
  <2>1. detailText(e, c) \in [Fields -> Texts] /\ detailText(d, c) \in [Fields -> Texts]
    BY DetailTexts
  <2>2. e.traffic[c] = d.traffic[c] => \A f \in Fields : detailText(e, c)[f] = detailText(d, c)[f]
    BY DetailTexts DEF Fields
  <2> QED BY <2>1, <2>2
<1> QED BY <1>1, <1>2, <1>3, <1>4

\* A change of the data that marks what it changed.
LEMMA SoundStill ==
    ASSUME NEW d, NEW l, NEW w, NEW size, NEW sc, NEW h, NEW box, Sound(d, l, w, size, sc, h, box),
           NEW e \in DataType, NEW m, ListInv(m, e), SameMode(l, m), m.detail \in e.storage \cup {None},
           NEW Has \in [Conns -> SUBSET Fields], Follows(l, m, Has),
           \A c \in d.storage \cap e.storage : SameTexts(d, e, h, c, Has[c]),
           DialogTells(e, m, box), DialogShows(e, m, box)
    PROVE  Sound(e, m, w, size, sc, h, box)
<1>1. /\ d \in DataType /\ ListInv(l, d) /\ l.targetSize <= MaxRows
      /\ sc \in BOOLEAN /\ h \in BOOLEAN
      /\ w \in [1..MaxRows -> RowType] /\ Shows(d, h, sc, l, w)
      /\ size \in Nat /\ size <= l.targetSize
      /\ \A r \in 1..MaxRows : r > size => w[r] = Blank
      /\ box \in BoxType
  BY DEF Sound
<1>2. l \in ListType /\ m \in ListType /\ Stored(l, d) /\ Stored(m, e) /\ m.targetSize = l.targetSize
  BY <1>1 DEF ListInv, ListOK, SameMode
<1>3. Shows(e, h, sc, m, w)
  BY <1>1, <1>2, ShowsStill
<1> QED BY <1>1, <1>2, <1>3 DEF Sound

\* Nothing that is drawn has changed.
LEMMA NothingShown ==
    ASSUME NEW l \in ListType, NEW m \in ListType, KeepsRows(l, m)
    PROVE  \E Has \in [Conns -> SUBSET Fields] : Follows(l, m, Has) /\ \A c \in Conns : Has[c] = {}
<1>1. PICK Has : Has = [c \in Conns |-> {}]
  OBVIOUS
<1>2. Has \in [Conns -> SUBSET Fields] /\ \A c \in Conns : Has[c] = {}
  BY <1>1
<1>3. Follows(l, m, Has)
  <2>1. \A i \in DOMAIN m.list : m.list[i].conn \in Conns
    BY ListFields
  <2> QED BY <1>2, <2>1 DEF Follows
<1> QED BY <1>2, <1>3

\* A connection more.
LEMMA SoundAdded ==
    ASSUME NEW d, NEW l, NEW w, NEW size, NEW sc, NEW h, NEW box, Sound(d, l, w, size, sc, h, box),
           NEW e \in DataType, NEW c \in Conns, Adds(d, e, c), NEW m, m = handleNewConnection(l, e, c)
    PROVE  Sound(e, m, w, size, sc, h, box)
<1>1. /\ d \in DataType /\ ListInv(l, d) /\ l.detail \in d.storage \cup {None} /\ h \in BOOLEAN
      /\ DialogTells(d, l, box) /\ DialogShows(d, l, box)
  BY DEF Sound
<1>2. ListInv(m, e) /\ Same(l, m) /\ KeepsRows(l, m)
  BY <1>1, NewConnection
<1>3. SameMode(l, m) /\ m.detail = l.detail /\ m.detailStale = l.detailStale
  BY <1>2 DEF Same
<1>4. l \in ListType /\ m \in ListType
  BY <1>1, <1>2 DEF ListInv, ListOK
<1>5. PICK Has \in [Conns -> SUBSET Fields] : Follows(l, m, Has) /\ \A b \in Conns : Has[b] = {}
  BY <1>2, <1>4, NothingShown
<1>6. ASSUME NEW b \in d.storage
      PROVE  b \in Conns /\ SameTexts(d, e, h, b, {}) /\ detailText(e, b) = detailText(d, b)
  <2>1. b \in Conns /\ e.name = d.name /\ e.traffic[b] = d.traffic[b]
    BY <1>1 DEF DataType, Adds
  <2> QED BY <1>1, <2>1, SameTraffic
<1>7. \A b \in d.storage \cap e.storage : SameTexts(d, e, h, b, Has[b])
  BY <1>5, <1>6
<1>8. m.detail \in e.storage \cup {None}
  BY <1>1, <1>3 DEF Adds
<1>9. DialogTells(e, m, box) /\ DialogShows(e, m, box)
  <2>1. l.detail # None => detailText(e, l.detail) = detailText(d, l.detail)
    BY <1>1, <1>6
  <2> QED BY <1>1, <1>3, <2>1 DEF DialogTells, DialogShows
<1> QED BY <1>2, <1>3, <1>5, <1>7, <1>8, <1>9, SoundStill

\* More traffic.
LEMMA SoundCounted ==
    ASSUME NEW d, NEW l, NEW w, NEW size, NEW sc, NEW h, NEW box, Sound(d, l, w, size, sc, h, box),
           NEW e \in DataType, NEW c \in Conns, c \in d.storage, Counts(d, e, c),
           NEW m \in update(l, e, c, {"TRAFFIC"})
    PROVE  Sound(e, m, w, size, sc, h, box)
<1>1. /\ d \in DataType /\ ListInv(l, d) /\ l.detail \in d.storage \cup {None} /\ h \in BOOLEAN
      /\ DialogTells(d, l, box) /\ DialogShows(d, l, box)
  BY DEF Sound
<1>2. PICK F : F = {"TRAFFIC"}
  OBVIOUS
<1>3. F \subseteq Fields
  BY <1>2 DEF Fields
<1>4. ListInv(m, e) /\ SameMode(l, m) /\ Tells(l, m, c, F) /\ Follows(l, m, Only(c, F))
  BY <1>1, <1>2, <1>3, Update
<1>5. PICK Has : Has = Only(c, F)
  OBVIOUS
<1>6. Has \in [Conns -> SUBSET Fields] /\ \A b \in Conns : Has[b] = IF b = c THEN F ELSE {}
  BY <1>3, <1>5 DEF Only
<1>7. ASSUME NEW b \in d.storage
      PROVE  /\ b \in Conns /\ SameTexts(d, e, h, b, {"TRAFFIC"})
             /\ b # c => SameTexts(d, e, h, b, {}) /\ detailText(e, b) = detailText(d, b)
             /\ \A f \in Fields : f # "TRAFFIC" => detailText(e, b)[f] = detailText(d, b)[f]
  <2>1. b \in Conns /\ e.name = d.name /\ (b # c => e.traffic[b] = d.traffic[b])
    BY <1>1 DEF DataType, Counts
  <2> QED BY <1>1, <2>1, SameTraffic
<1>8. \A b \in d.storage \cap e.storage : SameTexts(d, e, h, b, Has[b])
  BY <1>2, <1>6, <1>7
<1>9. m.detail = l.detail /\ m.detailStale = (IF l.detail = c THEN {"TRAFFIC"} ELSE l.detailStale)
  BY <1>2, <1>4 DEF Tells
<1>10. m.detail \in e.storage \cup {None}
  BY <1>1, <1>9 DEF Counts
<1>11. c # None
  BY ConnsAssumption
<1>12. DialogShows(e, m, box)
  BY <1>1, <1>7, <1>9 DEF DialogShows
<1>13. DialogTells(e, m, box)
  <2>1. CASE l.detail = c
    BY <1>1, <1>9, <1>11, <1>12, <2>1 DEF DialogTells, DialogShows
  <2>2. CASE l.detail # c
    BY <1>1, <1>7, <1>9, <2>2 DEF DialogTells
  <2> QED BY <2>1, <2>2
<1> QED BY <1>4, <1>5, <1>6, <1>8, <1>10, <1>12, <1>13, SoundStill

\* A connection less.
LEMMA SoundRemoved ==
    ASSUME NEW d, NEW l, NEW w, NEW size, NEW sc, NEW h, NEW box, Sound(d, l, w, size, sc, h, box),
           NEW e \in DataType, NEW c \in Conns, Removes(d, e, c), NEW m \in handleRemovedConnection(l, e, c)
    PROVE  Sound(e, m, w, size, sc, h, box)
<1>1. /\ d \in DataType /\ ListInv(l, d) /\ l.detail \in d.storage \cup {None} /\ h \in BOOLEAN
      /\ DialogTells(d, l, box) /\ DialogShows(d, l, box)
  BY DEF Sound
<1>2. ListInv(m, e) /\ SameMode(l, m) /\ Forgets(l, m, c) /\ KeepsRows(l, m)
  BY <1>1, RemovedConnection
<1>3. /\ m.detail = (IF l.detail = c THEN None ELSE l.detail)
      /\ m.detailStale = (IF l.detail = c THEN Fields ELSE l.detailStale)
  BY <1>2 DEF Forgets
<1>4. l \in ListType /\ m \in ListType
  BY <1>1, <1>2 DEF ListInv, ListOK
<1>5. PICK Has \in [Conns -> SUBSET Fields] : Follows(l, m, Has) /\ \A b \in Conns : Has[b] = {}
  BY <1>2, <1>4, NothingShown
<1>6. ASSUME NEW b \in e.storage
      PROVE  b \in Conns /\ SameTexts(d, e, h, b, {}) /\ detailText(e, b) = detailText(d, b)
  <2>1. b \in Conns /\ e.name = d.name /\ e.traffic[b] = d.traffic[b]
    BY <1>1 DEF DataType, Removes
  <2> QED BY <1>1, <2>1, SameTraffic
<1>7. \A b \in d.storage \cap e.storage : SameTexts(d, e, h, b, Has[b])
  BY <1>5, <1>6
<1>8. m.detail \in e.storage \cup {None}
  BY <1>1, <1>3 DEF Removes
<1>9. DialogTells(e, m, box) /\ DialogShows(e, m, box)
  <2>1. m.detail # None => m.detail = l.detail /\ m.detailStale = l.detailStale
                           /\ detailText(e, l.detail) = detailText(d, l.detail)
    BY <1>3, <1>6, <1>8
  <2>2. m.detail = None => m.detailStale = Fields \/ (l.detail = None /\ m.detailStale = l.detailStale)
    BY <1>3
  <2>3. Fields # {} /\ c # None
    BY ConnsAssumption DEF Fields
  <2>4. DialogShows(e, m, box)
    BY <1>1, <2>1 DEF DialogShows
  <2>5. l.detail = None => m.detail = None
    BY <1>3
  <2> QED BY <1>1, <2>1, <2>2, <2>3, <2>4, <2>5 DEF DialogTells
<1> QED BY <1>2, <1>5, <1>7, <1>8, <1>9, SoundStill

\* No connection any more.
LEMMA SoundCleared ==
    ASSUME NEW d, NEW l, NEW w, NEW size, NEW sc, NEW h, NEW box, Sound(d, l, w, size, sc, h, box),
           NEW e \in DataType, e.storage = {}, NEW m, m = clear(l)
    PROVE  Sound(e, m, w, size, sc, h, box)
<1>1. ListInv(l, d) /\ l \in ListType
  BY DEF Sound, ListInv, ListOK
<1>2. ListInv(m, e) /\ SameMode(l, m) /\ m.detail = None /\ m.detailStale = Fields /\ KeepsRows(l, m)
  BY <1>1, Clear
<1>3. m \in ListType
  BY <1>2 DEF ListInv, ListOK
<1>4. PICK Has \in [Conns -> SUBSET Fields] : Follows(l, m, Has)
  BY <1>1, <1>2, <1>3, NothingShown
<1>5. Fields # {}
  BY DEF Fields
<1>6. DialogTells(e, m, box) /\ DialogShows(e, m, box)
  BY <1>2, <1>5 DEF DialogTells, DialogShows
<1>7. m.detail \in e.storage \cup {None} /\ \A c \in d.storage \cap e.storage : SameTexts(d, e, h, c, Has[c])
  BY <1>2
<1> QED BY <1>2, <1>4, <1>6, <1>7, SoundStill

\* A list that took over can be drawn if what it does not mark is right.
LEMMA TakesOver ==
    ASSUME NEW d, NEW l, NEW w, NEW size, NEW sc, NEW h, NEW box, Sound(d, l, w, size, sc, h, box),
           NEW e \in DataType, NEW m, ListInv(m, e), m.detail \in e.storage \cup {None},
           m.targetSize = l.targetSize, NEW sc2 \in BOOLEAN, NEW h2 \in BOOLEAN, Shows(e, h2, sc2, m, w),
           DialogTells(e, m, box)
    PROVE  Drawable(e, m, w, size, sc2, h2, box)
<1>1. /\ l.targetSize <= MaxRows /\ w \in [1..MaxRows -> RowType]
      /\ size \in Nat /\ size <= l.targetSize
      /\ \A r \in 1..MaxRows : r > size => w[r] = Blank
      /\ box \in BoxType
  BY DEF Sound
<1>2. getSize(m) \in Nat /\ m.targetSize \in Nat
  BY Window, ListFields DEF ListInv, ListOK
<1>3. ASSUME NEW r \in 1..MaxRows, r > getSize(m), ~(r <= size /\ getSize(m) < m.targetSize)
      PROVE  w[r] = Blank
  <2>1. r > size
    BY <1>1, <1>2, <1>3
  <2> QED BY <1>1, <2>1
<1> QED BY <1>1, <1>3 DEF Drawable

\* The fields a name is shown in.
Covers(c, n, F) ==
    /\ "SRC_ADDRESS" \notin F => n # Src[c]
    /\ "DST_ADDRESS" \notin F => n # Dst[c]
    /\ "DST_PORT" \notin F => n # Port[c]

\* Other fields do not show it.
LEMMA SameNames ==
    ASSUME NEW d \in DataType, NEW e \in DataType, NEW h \in BOOLEAN, NEW n, Answers(d, e, n),
           NEW c \in Conns, NEW F, Covers(c, n, F)
    PROVE  /\ SameTexts(d, e, h, c, F)
           /\ \A f \in Fields : f \notin F => detailText(e, c)[f] = detailText(d, c)[f]
<1>1. Src[c] \in Addresses \cup Ports /\ Dst[c] \in Addresses \cup Ports /\ Port[c] \in Addresses \cup Ports
  BY DEF Addresses, Ports
<1>2. /\ "SRC_ADDRESS" \notin F => e.name[Src[c]] = d.name[Src[c]]
      /\ "DST_ADDRESS" \notin F => e.name[Dst[c]] = d.name[Dst[c]]
      /\ "DST_PORT" \notin F => e.name[Port[c]] = d.name[Port[c]]
      /\ e.traffic[c] = d.traffic[c]
  BY <1>1 DEF Covers, Answers
<1>3. ASSUME NEW f \in Columns, flagOf(f) \notin F PROVE columnText(e, h, c)[f] = columnText(d, h, c)[f]
  BY <1>2, <1>3, Flags, ColumnTexts DEF Columns, Fields
<1>4. ASSUME NEW f \in Fields, f \notin F PROVE detailText(e, c)[f] = detailText(d, c)[f]
  BY <1>2, <1>4, DetailTexts DEF Fields
<1> QED BY <1>3, <1>4 DEF SameTexts

\* An address is never a port.
LEMMA FieldsOf ==
    ASSUME NEW c \in Conns
    PROVE  /\ \A a \in Addresses : Covers(c, a, addressFields(a)[c])
           /\ \A p \in Ports : Covers(c, p, portFields(p)[c])
<1>1. ASSUME NEW a \in Addresses PROVE Covers(c, a, addressFields(a)[c])
  <2>1. a # Port[c]
    BY ConnsAssumption DEF Addresses
  <2>2. PICK F : F = addressFields(a)[c]
    OBVIOUS
  <2>3. F = {f \in {"SRC_ADDRESS", "DST_ADDRESS"} : a = IF f = "SRC_ADDRESS" THEN Src[c] ELSE Dst[c]}
    BY <2>2 DEF addressFields
  <2>4. (a = Src[c] => "SRC_ADDRESS" \in F) /\ (a = Dst[c] => "DST_ADDRESS" \in F)
    BY <2>3
  <2> QED BY <2>1, <2>2, <2>4 DEF Covers
<1>2. ASSUME NEW p \in Ports PROVE Covers(c, p, portFields(p)[c])
  <2>1. p # Src[c] /\ p # Dst[c]
    BY ConnsAssumption DEF Ports
  <2>2. p = Port[c] => "DST_PORT" \in portFields(p)[c]
    BY DEF portFields
  <2> QED BY <2>1, <2>2 DEF Covers
<1> QED BY <1>1, <1>2

\* An answer of the resolver can be drawn.
LEMMA AnswerDrawable ==
    ASSUME NEW d, NEW l, NEW w, NEW size, NEW sc, NEW h, NEW box, Sound(d, l, w, size, sc, h, box),
           DialogIsRight(d, l, box), NEW e \in DataType, NEW n, Answers(d, e, n),
           NEW Has \in [Conns -> SUBSET Fields], \A c \in Conns : Covers(c, n, Has[c]),
           NEW m, ListInv(m, e), SameMode(l, m), TellsOf(l, m, Has), Follows(l, m, Has)
    PROVE  Drawable(e, m, w, size, sc, h, box)
<1>1. /\ d \in DataType /\ ListInv(l, d) /\ l.detail \in d.storage \cup {None} /\ h \in BOOLEAN
      /\ sc \in BOOLEAN /\ Shows(d, h, sc, l, w)
  BY DEF Sound
<1>2. l \in ListType /\ m \in ListType /\ Stored(l, d) /\ Stored(m, e) /\ m.targetSize = l.targetSize
  BY <1>1 DEF ListInv, ListOK, SameMode
<1>3. ASSUME NEW c \in d.storage
      PROVE  /\ c \in Conns /\ SameTexts(d, e, h, c, Has[c])
             /\ \A f \in Fields : f \notin Has[c] => detailText(e, c)[f] = detailText(d, c)[f]
  <2>1. c \in Conns
    BY <1>1 DEF DataType
  <2> QED BY <1>1, <2>1, SameNames
<1>4. Shows(e, h, sc, m, w)
  BY <1>1, <1>2, <1>3, ShowsStill
<1>5. m.detail = l.detail /\ m.detailStale = l.detailStale \cup (IF l.detail = None THEN {} ELSE Has[l.detail])
  BY DEF TellsOf
<1>6. DialogTells(e, m, box)
  BY <1>1, <1>3, <1>5 DEF DialogTells, DialogIsRight
<1>7. m.detail \in e.storage \cup {None}
  BY <1>1, <1>5 DEF Answers
<1> QED BY <1>1, <1>2, <1>4, <1>6, <1>7, TakesOver

\* F4: the row of the cursor is drawn again, and no other row depends on it.
LEMMA CursorToggled ==
    ASSUME NEW d, NEW l, NEW w, NEW size, NEW sc, NEW h, NEW box, Sound(d, l, w, size, sc, h, box),
           NEW m, m = invalidateCursor(l), NEW sc2 \in BOOLEAN
    PROVE  Drawable(d, m, w, size, sc2, h, box)
<1>1. /\ d \in DataType /\ ListInv(l, d) /\ l.detail \in d.storage \cup {None} /\ h \in BOOLEAN
      /\ sc \in BOOLEAN /\ Shows(d, h, sc, l, w) /\ DialogTells(d, l, box)
  BY DEF Sound
<1>2. l \in ListType
  BY <1>1 DEF ListInv, ListOK
<1>3. /\ Marks(l, m)
      /\ \A i \in DOMAIN m.list :
           i > m.scrollOffset /\ i = l.scrollOffset + l.cursorPos + 1 => m.list[i].stale = Fields
  BY <1>2, AtCursor
<1>4. m \in ListType /\ Same(l, m) /\ KeepsRows(l, m)
  BY <1>3 DEF Marks
<1>5. /\ m.detail = l.detail /\ m.detailStale = l.detailStale /\ m.targetSize = l.targetSize
      /\ m.scrollOffset = l.scrollOffset /\ m.cursorPos = l.cursorPos
  BY <1>4 DEF Same, SameMode
<1>6. ListInv(m, d)
  BY <1>1, <1>3, MarksInv
<1>7. Shows(d, h, sc, m, w)
  BY <1>1, <1>2, <1>4, <1>6, ShowsKept DEF ListInv, ListOK
<1>8. Shows(d, h, sc2, m, w)
  <2>1. SUFFICES ASSUME NEW i \in DOMAIN m.list, i > m.scrollOffset, m.list[i].stale # Fields
                 PROVE  RowShows(d, h, sc2, m, w, i)
    BY DEF Shows, RowShows
  <2>2. i # m.scrollOffset + m.cursorPos + 1
    BY <1>3, <1>5, <2>1
  <2>3. cursorOf(sc2, m, i) = cursorOf(sc, m, i)
    BY <2>2 DEF cursorOf
  <2> QED BY <1>7, <2>1, <2>3 DEF Shows, RowShows
<1>9. DialogTells(d, m, box) /\ m.detail \in d.storage \cup {None}
  BY <1>1, <1>5 DEF DialogTells
<1> QED BY <1>1, <1>5, <1>6, <1>8, <1>9, TakesOver

\* Everything drawn from scratch, with or without hostnames.
LEMMA FreshDrawable ==
    ASSUME NEW d, NEW l, NEW w, NEW size, NEW sc, NEW h, NEW box, Sound(d, l, w, size, sc, h, box),
           NEW m, ListInv(m, d), AllFresh(m), m.detail = l.detail, m.detailStale = l.detailStale,
           m.targetSize = l.targetSize, NEW h2 \in BOOLEAN
    PROVE  Drawable(d, m, w, size, sc, h2, box)
<1>1. d \in DataType /\ l.detail \in d.storage \cup {None} /\ sc \in BOOLEAN /\ DialogTells(d, l, box)
  BY DEF Sound
<1>2. Shows(d, h2, sc, m, w)
  BY FreshShows
<1>3. DialogTells(d, m, box) /\ m.detail \in d.storage \cup {None}
  BY <1>1 DEF DialogTells
<1> QED BY <1>1, <1>2, <1>3, TakesOver

\* A window of another size, which has been erased.
LEMMA ErasedDrawable ==
    ASSUME NEW d, NEW l, NEW w, NEW size, NEW sc, NEW h, NEW box, Sound(d, l, w, size, sc, h, box),
           NEW m, ListInv(m, d), AllFresh(m), m.detail = l.detail, m.detailStale = l.detailStale,
           m.targetSize <= MaxRows, NEW v, v = [r \in DOMAIN w |-> Blank]
    PROVE  Drawable(d, m, v, size, sc, h, box)
<1>1. /\ d \in DataType /\ l.detail \in d.storage \cup {None} /\ sc \in BOOLEAN /\ h \in BOOLEAN
      /\ DialogTells(d, l, box) /\ size \in Nat /\ box \in BoxType /\ DOMAIN w = 1..MaxRows
  BY DEF Sound
<1>2. Shows(d, h, sc, m, v)
  BY FreshShows
<1>3. DialogTells(d, m, box) /\ m.detail \in d.storage \cup {None}
  BY <1>1 DEF DialogTells
<1>4. v \in [1..MaxRows -> RowType] /\ \A r \in 1..MaxRows : v[r] = Blank
  BY <1>1, BlankRow
<1> QED BY <1>1, <1>2, <1>3, <1>4 DEF Drawable

-----------------------------------------------------------------------------
(***************************************************************************)
(* The actions.                                                            *)
(***************************************************************************)
\* The data, by its parts.
LEMMA DataFields ==
    ASSUME data \in DataType
    PROVE  /\ storage \subseteq Conns /\ traffic \in [Conns -> Nat] /\ name \in [Addresses \cup Ports -> Nat]
           /\ data.storage = storage /\ data.traffic = traffic /\ data.name = name
           /\ data'.storage = storage' /\ data'.traffic = traffic' /\ data'.name = name'
BY DEF DataType, data

\* The data with the parts that have changed.
LEMMA DataExcept ==
    /\ name' = name => [data EXCEPT !.storage = storage', !.traffic = traffic'] = data'
    /\ storage' = storage /\ name' = name => [data EXCEPT !.traffic = traffic'] = data'
    /\ storage' = storage /\ traffic' = traffic => [data EXCEPT !.name = name'] = data'
<1>1. PICK s, t, n, s2, t2, n2 :
        s = storage /\ t = traffic /\ n = name /\ s2 = storage' /\ t2 = traffic' /\ n2 = name'
  OBVIOUS
<1>2. PICK d, e : /\ d = data /\ e = data'
                  /\ d = [storage |-> s, traffic |-> t, name |-> n]
                  /\ e = [storage |-> s2, traffic |-> t2, name |-> n2]
  BY <1>1 DEF data
<1>3. /\ n2 = n => [d EXCEPT !.storage = s2, !.traffic = t2] = e
      /\ s2 = s /\ n2 = n => [d EXCEPT !.traffic = t2] = e
      /\ s2 = s /\ t2 = t => [d EXCEPT !.name = n2] = e
  <2>1. d = [storage |-> s, traffic |-> t, name |-> n] /\ e = [storage |-> s2, traffic |-> t2, name |-> n2]
    BY <1>2
  <2>2. n2 = n => [d EXCEPT !.storage = s2, !.traffic = t2] = e
    <3>1. PICK x : x = [d EXCEPT !.storage = s2]
      OBVIOUS
    <3>2. x = [storage |-> s2, traffic |-> t, name |-> n]
      BY ONLY <2>1, <3>1
    <3>3. n2 = n => [x EXCEPT !.traffic = t2] = e
      BY ONLY <2>1, <3>2
    <3>4. [d EXCEPT !.storage = s2, !.traffic = t2] = [x EXCEPT !.traffic = t2]
      BY <3>1, Zenon
    <3> QED BY ONLY <3>3, <3>4
  <2>3. s2 = s /\ n2 = n => [d EXCEPT !.traffic = t2] = e
    BY ONLY <2>1
  <2>4. s2 = s /\ t2 = t => [d EXCEPT !.name = n2] = e
    BY ONLY <2>1
  <2> QED BY <2>2, <2>3, <2>4, Zenon
<1> QED BY ONLY <1>1, <1>2, <1>3

\* A handler that has not drawn yet.
LEMMA Handled ==
    ASSUME changes \in Nat, changes' = changes + 1, UNCHANGED drawing,
           Sound(data', connList', rows, currentSize, showCursor, showHostname, dialog)
    PROVE  ScreenInv'
<1>1. /\ rows' = rows /\ currentSize' = currentSize /\ showCursor' = showCursor
      /\ showHostname' = showHostname /\ header' = header /\ dialog' = dialog
  BY DEF drawing
<1>2. changes' \in Nat /\ changes' # 0
  OBVIOUS
<1> QED BY <1>1, <1>2 DEF ScreenInv

\* A handler that has drawn.
LEMMA Drew ==
    ASSUME NEW d, NEW l, NEW w, NEW size, NEW sc, NEW h, NEW box, Drawable(d, l, w, size, sc, h, box),
           rows' = drawRows(d, h, w, l, sc, size), dialog' = drawDialog(d, box, l),
           connList' = resetConnectionDetailRefresh(getNextUpdate(l)), currentSize' = getSize(l),
           header' = drawHeader(d, l), data' = d, showCursor' = sc, showHostname' = h, changes' \in Nat
    PROVE  ScreenInv'
<1>1. PICK v, b, m, n, hd :
        v = rows' /\ b = dialog' /\ m = connList' /\ n = currentSize' /\ hd = header'
  OBVIOUS
<1>2. /\ v = drawRows(d, h, w, l, sc, size) /\ b = drawDialog(d, box, l)
      /\ m = resetConnectionDetailRefresh(getNextUpdate(l)) /\ n = getSize(l) /\ hd = drawHeader(d, l)
  BY <1>1
<1>3. Sound(d, m, v, n, sc, h, b) /\ Still(d, m, v, n, sc, h, hd, b)
  BY ONLY Drawable(d, l, w, size, sc, h, box), <1>2, Redraw
<1> QED BY <1>1, <1>3 DEF ScreenInv

\* The initial states.
LEMMA ScreenInit ==
    ASSUME Init
    PROVE  ScreenInv
<1>1. PICK d, l, w, n :
        /\ d = data /\ l = connList /\ w = rows /\ n \in Sizes
        /\ connList = [initList EXCEPT !.targetSize = n, !.refresh = FALSE]
  BY DEF Init
<1>2. n \in Nat /\ n <= MaxRows /\ MaxRows \in Nat
  BY <1>1, ScreenAssumption
<1>3. /\ l \in ListType /\ l.list = <<>> /\ l.targetSize = n /\ l.scrollOffset = 0 /\ l.cursorPos = 0
      /\ l.detail = None /\ l.refresh = FALSE
  <2>1. <<>> \in Seq(Items)
    OBVIOUS
  <2> QED BY <1>1, <1>2, <2>1 DEF initList, ListType, SortModes
<1>4. d \in DataType /\ d.storage = {}
  <2>1. traffic \in [Conns -> Nat] /\ name \in [Addresses \cup Ports -> Nat] /\ storage = {}
    BY DEF Init
  <2> QED BY <1>1, <2>1 DEF data, DataType
<1>5. DOMAIN l.list = {} /\ Len(l.list) = 0
  BY <1>3
<1>6. getSize(l) = 0 /\ getCursorMaxPos(l) = 0
  BY <1>3, <1>5 DEF getSize, getCursorMaxPos
<1>7. ListInv(l, d)
  <2>1. NoTwice(l) /\ Stored(l, d) /\ Sorted(l, d) /\ Marked(l)
    BY <1>5 DEF NoTwice, Stored, Sorted, Marked
  <2>2. Bounded(l) /\ Full(l, d)
    BY <1>2, <1>3, <1>4, <1>5 DEF Bounded, Full
  <2> QED BY <1>3, <1>6, <2>1, <2>2 DEF ListInv, ListOK
<1>8. w \in [1..MaxRows -> RowType] /\ \A r \in 1..MaxRows : w[r] = Blank
  BY <1>1, BlankRow DEF Init
<1>9. Shows(d, TRUE, TRUE, l, w) /\ IsRight(d, TRUE, TRUE, l, w)
  <2>1. Shows(d, TRUE, TRUE, l, w)
    BY <1>5 DEF Shows
  <2>2. \A r \in 1..MaxRows : r > getSize(l)
    BY <1>6
  <2> QED BY <1>8, <2>1, <2>2 DEF IsRight, rightRow
<1>10. PICK box : box = Closed
  OBVIOUS
<1>11. box \in BoxType /\ DialogIsRight(d, l, box)
  BY <1>10, ClosedBox DEF DialogIsRight
<1>12. DialogTells(d, l, box) /\ DialogShows(d, l, box)
  BY <1>11, RightTells
<1>13. /\ currentSize = 0 /\ showCursor = TRUE /\ showHostname = TRUE /\ dialog = box /\ changes = 0
       /\ header = [connectionCount |-> 0, scrollOffset |-> 0]
  BY <1>10 DEF Init
<1>14. header = drawHeader(d, l)
  <2>1. Cardinality({}) = 0
    BY FS_EmptySet
  <2> QED BY <1>3, <1>4, <1>13, <2>1 DEF drawHeader
<1>15. Sound(d, l, w, 0, TRUE, TRUE, box)
  <2>1. l.detail \in d.storage \cup {None} /\ l.targetSize <= MaxRows /\ 0 \in Nat /\ 0 <= l.targetSize
    BY <1>2, <1>3
  <2>2. TRUE \in BOOLEAN
    OBVIOUS
  <2> QED BY <1>4, <1>7, <1>8, <1>9, <1>11, <1>12, <2>1, <2>2, Zenon DEF Sound
<1>16. Still(d, l, w, 0, TRUE, TRUE, header, box)
  BY <1>3, <1>6, <1>9, <1>11, <1>14 DEF Still
<1> QED BY <1>1, <1>13, <1>15, <1>16 DEF ScreenInv

\* AddConnection
LEMMA ScreenAdd ==
    ASSUME ScreenInv, NEW c \in Conns, NEW t \in 0..MaxTraffic, AddConnection(c, t)
    PROVE  ScreenInv'
<1>1. Sound(data, connList, rows, currentSize, showCursor, showHostname, dialog) /\ changes \in Nat
  BY DEF ScreenInv
<1>2. PICK d, e, l, m : d = data /\ e = data' /\ l = connList /\ m = connList'
  OBVIOUS
<1>3. d \in DataType
  BY <1>1, <1>2 DEF Sound
<1>4. /\ d.storage = storage /\ d.traffic = traffic /\ d.name = name /\ storage \subseteq Conns
      /\ traffic \in [Conns -> Nat] /\ name \in [Addresses \cup Ports -> Nat]
      /\ e.storage = storage' /\ e.traffic = traffic' /\ e.name = name'
  BY <1>2, <1>3, DataFields
<1>5. /\ c \notin storage /\ storage' = storage \cup {c} /\ traffic' = [traffic EXCEPT ![c] = t]
      /\ name' = name /\ changes' = changes + 1 /\ UNCHANGED drawing
      /\ connList' = handleNewConnection(connList, [data EXCEPT !.storage = storage', !.traffic = traffic'], c)
  BY DEF AddConnection
<1>6. t \in Nat
  BY ScreenAssumption
<1>7. e \in DataType /\ Adds(d, e, c)
  <2>1. e.traffic \in [Conns -> Nat] /\ \A b \in d.storage : e.traffic[b] = d.traffic[b]
    BY <1>4, <1>5, <1>6
  <2>2. e = [storage |-> e.storage, traffic |-> e.traffic, name |-> e.name]
    BY <1>2 DEF data
  <2>3. e \in DataType
    BY <1>4, <1>5, <2>1, <2>2 DEF DataType
  <2> QED BY <1>4, <1>5, <2>1, <2>3 DEF Adds
<1>8. m = handleNewConnection(l, e, c)
  <2>1. [data EXCEPT !.storage = storage', !.traffic = traffic'] = e
    BY <1>2, <1>5, DataExcept
  <2> QED BY <1>2, <1>5, <2>1
<1>9. Sound(e, m, rows, currentSize, showCursor, showHostname, dialog)
  <2>1. PICK w, size, sc, h, box : w = rows /\ size = currentSize /\ sc = showCursor /\ h = showHostname /\ box = dialog
    OBVIOUS
  <2>2. Sound(d, l, w, size, sc, h, box)
    BY <1>1, <1>2, <2>1
  <2>3. Sound(e, m, w, size, sc, h, box)
    BY ONLY <1>7, <1>8, <2>2, c \in Conns, SoundAdded
  <2> QED BY <2>1, <2>3
<1> QED BY <1>1, <1>2, <1>5, <1>9, Handled

\* UpdateConnection
LEMMA ScreenUpdate ==
    ASSUME ScreenInv, NEW c \in Conns, NEW t \in 0..MaxTraffic, UpdateConnection(c, t)
    PROVE  ScreenInv'
<1>1. Sound(data, connList, rows, currentSize, showCursor, showHostname, dialog) /\ changes \in Nat
  BY DEF ScreenInv
<1>2. PICK d, e, l, m : d = data /\ e = data' /\ l = connList /\ m = connList'
  OBVIOUS
<1>3. d \in DataType
  BY <1>1, <1>2 DEF Sound
<1>4. /\ d.storage = storage /\ d.traffic = traffic /\ d.name = name /\ storage \subseteq Conns
      /\ traffic \in [Conns -> Nat] /\ name \in [Addresses \cup Ports -> Nat]
      /\ e.storage = storage' /\ e.traffic = traffic' /\ e.name = name'
  BY <1>2, <1>3, DataFields
<1>5. /\ c \in storage /\ storage' = storage /\ traffic' = [traffic EXCEPT ![c] = t]
      /\ name' = name /\ changes' = changes + 1 /\ UNCHANGED drawing
      /\ connList' \in update(connList, [data EXCEPT !.traffic = traffic'], c, {"TRAFFIC"})
  BY DEF UpdateConnection
<1>6. t \in Nat
  BY ScreenAssumption
<1>7. e \in DataType /\ Counts(d, e, c)
  <2>1. e.traffic \in [Conns -> Nat] /\ \A b \in d.storage : b # c => e.traffic[b] = d.traffic[b]
    BY <1>4, <1>5, <1>6
  <2>2. e = [storage |-> e.storage, traffic |-> e.traffic, name |-> e.name]
    BY <1>2 DEF data
  <2>3. e \in DataType
    BY <1>4, <1>5, <2>1, <2>2 DEF DataType
  <2> QED BY <1>4, <1>5, <2>1, <2>3 DEF Counts
<1>8. m \in update(l, e, c, {"TRAFFIC"})
  <2>1. [data EXCEPT !.traffic = traffic'] = e
    BY <1>2, <1>5, DataExcept
  <2> QED BY <1>2, <1>5, <2>1
<1>9. Sound(e, m, rows, currentSize, showCursor, showHostname, dialog)
  <2>1. PICK w, size, sc, h, box : w = rows /\ size = currentSize /\ sc = showCursor /\ h = showHostname /\ box = dialog
    OBVIOUS
  <2>2. Sound(d, l, w, size, sc, h, box) /\ c \in d.storage
    BY <1>1, <1>2, <1>4, <1>5, <2>1
  <2>3. Sound(e, m, w, size, sc, h, box)
    BY ONLY <1>7, <1>8, <2>2, c \in Conns, SoundCounted
  <2> QED BY <2>1, <2>3
<1> QED BY <1>1, <1>2, <1>5, <1>9, Handled

\* RemoveConnection
LEMMA ScreenRemove ==
    ASSUME ScreenInv, NEW c \in Conns, RemoveConnection(c)
    PROVE  ScreenInv'
<1>1. Sound(data, connList, rows, currentSize, showCursor, showHostname, dialog) /\ changes \in Nat
  BY DEF ScreenInv
<1>2. PICK d, e, l, m : d = data /\ e = data' /\ l = connList /\ m = connList'
  OBVIOUS
<1>3. d \in DataType
  BY <1>1, <1>2 DEF Sound
<1>4. /\ d.storage = storage /\ d.traffic = traffic /\ d.name = name /\ storage \subseteq Conns
      /\ traffic \in [Conns -> Nat] /\ name \in [Addresses \cup Ports -> Nat]
      /\ e.storage = storage' /\ e.traffic = traffic' /\ e.name = name'
  BY <1>2, <1>3, DataFields
<1>5. /\ storage' = storage \ {c} /\ traffic' = [traffic EXCEPT ![c] = 0]
      /\ name' = name /\ changes' = changes + 1 /\ UNCHANGED drawing
      /\ connList' \in handleRemovedConnection(connList,
                           [data EXCEPT !.storage = storage', !.traffic = traffic'], c)
  BY DEF RemoveConnection
<1>6. e \in DataType /\ Removes(d, e, c)
  <2>1. e.traffic \in [Conns -> Nat] /\ \A b \in e.storage : e.traffic[b] = d.traffic[b]
    BY <1>4, <1>5
  <2>2. e = [storage |-> e.storage, traffic |-> e.traffic, name |-> e.name]
    BY <1>2 DEF data
  <2>3. e \in DataType
    BY <1>4, <1>5, <2>1, <2>2 DEF DataType
  <2> QED BY <1>4, <1>5, <2>1, <2>3 DEF Removes
<1>7. m \in handleRemovedConnection(l, e, c)
  <2>1. [data EXCEPT !.storage = storage', !.traffic = traffic'] = e
    BY <1>2, <1>5, DataExcept
  <2> QED BY <1>2, <1>5, <2>1
<1>8. Sound(e, m, rows, currentSize, showCursor, showHostname, dialog)
  <2>1. PICK w, size, sc, h, box : w = rows /\ size = currentSize /\ sc = showCursor /\ h = showHostname /\ box = dialog
    OBVIOUS
  <2>2. Sound(d, l, w, size, sc, h, box)
    BY <1>1, <1>2, <2>1
  <2>3. Sound(e, m, w, size, sc, h, box)
    BY ONLY <1>6, <1>7, <2>2, c \in Conns, SoundRemoved
  <2> QED BY <2>1, <2>3
<1> QED BY <1>1, <1>2, <1>5, <1>8, Handled

\* ClearConnections
LEMMA ScreenClear ==
    ASSUME ScreenInv, ClearConnections
    PROVE  ScreenInv'
<1>1. Sound(data, connList, rows, currentSize, showCursor, showHostname, dialog) /\ changes \in Nat
  BY DEF ScreenInv
<1>2. PICK d, e, l, m : d = data /\ e = data' /\ l = connList /\ m = connList'
  OBVIOUS
<1>3. d \in DataType
  BY <1>1, <1>2 DEF Sound
<1>4. name \in [Addresses \cup Ports -> Nat] /\ e.storage = storage' /\ e.traffic = traffic' /\ e.name = name'
  BY <1>2, <1>3, DataFields
<1>5. /\ storage' = {} /\ traffic' = [c \in Conns |-> 0]
      /\ name' = name /\ changes' = changes + 1 /\ UNCHANGED drawing /\ connList' = clear(connList)
  BY DEF ClearConnections
<1>6. e \in DataType /\ e.storage = {}
  <2>1. e = [storage |-> e.storage, traffic |-> e.traffic, name |-> e.name]
    BY <1>2 DEF data
  <2>2. e.traffic \in [Conns -> Nat]
    BY <1>4, <1>5
  <2> QED BY <1>4, <1>5, <2>1, <2>2 DEF DataType
<1>7. Sound(e, m, rows, currentSize, showCursor, showHostname, dialog)
  <2>1. PICK w, size, sc, h, box : w = rows /\ size = currentSize /\ sc = showCursor /\ h = showHostname /\ box = dialog
    OBVIOUS
  <2>2. Sound(d, l, w, size, sc, h, box) /\ m = clear(l)
    BY <1>1, <1>2, <1>5, <2>1
  <2>3. Sound(e, m, w, size, sc, h, box)
    BY ONLY <1>6, <2>2, SoundCleared
  <2> QED BY <2>1, <2>3
<1> QED BY <1>1, <1>2, <1>5, <1>7, Handled

\* refreshConnectionList
LEMMA ScreenRefresh ==
    ASSUME ScreenInv, refreshConnectionList
    PROVE  ScreenInv'
<1>1. PICK d, l, w, size, sc, h, box :
        /\ d = data /\ l = connList /\ w = rows /\ size = currentSize /\ sc = showCursor
        /\ h = showHostname /\ box = dialog
  OBVIOUS
<1>2. Drawable(d, l, w, size, sc, h, box)
  BY <1>1, SoundIsDrawable DEF ScreenInv
<1>3. /\ rows' = drawRows(data, showHostname, rows, connList, showCursor, currentSize)
      /\ dialog' = drawDialog(data, dialog, connList)
      /\ connList' = resetConnectionDetailRefresh(getNextUpdate(connList))
      /\ currentSize' = getSize(connList) /\ header' = drawHeader(data, connList)
  BY Zenon DEF refreshConnectionList, updateList, drawRows, drawDialog
<1>4. changes' \in Nat /\ showCursor' = showCursor /\ showHostname' = showHostname /\ data' = data
  BY DEF refreshConnectionList, data
<1> QED BY <1>1, <1>2, <1>3, <1>4, Drew

\* ResolverCallbackAddress
LEMMA ScreenAddress ==
    ASSUME ScreenInv, NEW a \in Addresses, ResolverCallbackAddress(a)
    PROVE  ScreenInv'
<1>1. PICK d, e, l, w, size, sc, h, box :
        /\ d = data /\ e = data' /\ l = connList /\ w = rows /\ size = currentSize /\ sc = showCursor
        /\ h = showHostname /\ box = dialog
  OBVIOUS
<1>2. /\ changes = 0 /\ name' = [name EXCEPT ![a] = 1] /\ storage' = storage /\ traffic' = traffic
      /\ showCursor' = showCursor /\ showHostname' = showHostname /\ changes' = changes
  BY DEF ResolverCallbackAddress, ResolverCallback
<1>3. [data EXCEPT !.name = name'] = e
  BY <1>1, <1>2, DataExcept
<1>4. PICK m \in addressDataUpdated(connList, [data EXCEPT !.name = name'], a) :
        updateList([data EXCEPT !.name = name'], showHostname, rows, m, showCursor)
  BY Zenon DEF ResolverCallbackAddress, ResolverCallback
<1>5. m \in addressDataUpdated(l, e, a)
  BY <1>1, <1>3, <1>4
<1>6. /\ rows' = drawRows([data EXCEPT !.name = name'], showHostname, rows, m, showCursor, currentSize)
      /\ dialog' = drawDialog([data EXCEPT !.name = name'], dialog, m)
      /\ connList' = resetConnectionDetailRefresh(getNextUpdate(m))
      /\ currentSize' = getSize(m) /\ header' = drawHeader([data EXCEPT !.name = name'], m)
  BY <1>4, Zenon DEF updateList, drawRows, drawDialog
<1>7. /\ Sound(d, l, w, size, sc, h, box) /\ DialogIsRight(d, l, box) /\ d \in DataType /\ ListInv(l, d)
  BY <1>1, <1>2 DEF ScreenInv, Still, Sound
<1>8. /\ d.storage = storage /\ d.traffic = traffic /\ d.name = name /\ storage \subseteq Conns
      /\ traffic \in [Conns -> Nat] /\ name \in [Addresses \cup Ports -> Nat]
      /\ e.storage = storage' /\ e.traffic = traffic' /\ e.name = name'
  BY <1>1, <1>7, DataFields
<1>9. e \in DataType /\ Answers(d, e, a)
  <2>1. e.name \in [Addresses \cup Ports -> Nat] /\ \A x \in Addresses \cup Ports : x # a => e.name[x] = d.name[x]
    BY <1>2, <1>8
  <2>2. e = [storage |-> e.storage, traffic |-> e.traffic, name |-> e.name]
    BY <1>1 DEF data
  <2>3. e \in DataType
    BY <1>2, <1>8, <2>1, <2>2 DEF DataType
  <2> QED BY <1>2, <1>8, <2>1, <2>3 DEF Answers
<1>10. ListInv(m, e) /\ SameMode(l, m) /\ TellsOf(l, m, addressFields(a)) /\ Follows(l, m, addressFields(a))
  BY ONLY a \in Addresses, <1>5, <1>7, <1>9, AddressUpdated
<1>11. PICK Has : Has = addressFields(a)
  OBVIOUS
<1>12. Has \in [Conns -> SUBSET Fields] /\ \A c \in Conns : Covers(c, a, Has[c])
  <2>1. \A c \in Conns : Has[c] \in SUBSET Fields
    BY <1>11 DEF addressFields, Fields
  <2>2. Has = [c \in Conns |-> Has[c]]
    BY <1>11 DEF addressFields
  <2>3. Has \in [Conns -> SUBSET Fields]
    BY ONLY <2>1, <2>2
  <2> QED BY <1>11, <2>3, FieldsOf
<1>13. Drawable(e, m, w, size, sc, h, box)
  <2>1. TellsOf(l, m, Has) /\ Follows(l, m, Has)
    BY <1>10, <1>11
  <2> QED BY ONLY <1>7, <1>9, <1>10, <1>12, <2>1, AnswerDrawable
<1>14. /\ rows' = drawRows(e, h, w, m, sc, size) /\ dialog' = drawDialog(e, box, m)
       /\ connList' = resetConnectionDetailRefresh(getNextUpdate(m))
       /\ currentSize' = getSize(m) /\ header' = drawHeader(e, m)
  BY <1>1, <1>3, <1>6
<1>15. showCursor' = sc /\ showHostname' = h /\ changes' \in Nat /\ data' = e
  BY <1>1, <1>2
<1> QED BY ONLY <1>13, <1>14, <1>15, Drew

\* ResolverCallbackPort
LEMMA ScreenPort ==
    ASSUME ScreenInv, NEW p \in Ports, ResolverCallbackPort(p)
    PROVE  ScreenInv'
<1>1. PICK d, e, l, w, size, sc, h, box :
        /\ d = data /\ e = data' /\ l = connList /\ w = rows /\ size = currentSize /\ sc = showCursor
        /\ h = showHostname /\ box = dialog
  OBVIOUS
<1>2. /\ changes = 0 /\ name' = [name EXCEPT ![p] = 1] /\ storage' = storage /\ traffic' = traffic
      /\ showCursor' = showCursor /\ showHostname' = showHostname /\ changes' = changes
  BY DEF ResolverCallbackPort, ResolverCallback
<1>3. [data EXCEPT !.name = name'] = e
  BY <1>1, <1>2, DataExcept
<1>4. PICK m \in portDataUpdated(connList, [data EXCEPT !.name = name'], p) :
        updateList([data EXCEPT !.name = name'], showHostname, rows, m, showCursor)
  BY Zenon DEF ResolverCallbackPort, ResolverCallback
<1>5. m \in portDataUpdated(l, e, p)
  BY <1>1, <1>3, <1>4
<1>6. /\ rows' = drawRows([data EXCEPT !.name = name'], showHostname, rows, m, showCursor, currentSize)
      /\ dialog' = drawDialog([data EXCEPT !.name = name'], dialog, m)
      /\ connList' = resetConnectionDetailRefresh(getNextUpdate(m))
      /\ currentSize' = getSize(m) /\ header' = drawHeader([data EXCEPT !.name = name'], m)
  BY <1>4, Zenon DEF updateList, drawRows, drawDialog
<1>7. /\ Sound(d, l, w, size, sc, h, box) /\ DialogIsRight(d, l, box) /\ d \in DataType /\ ListInv(l, d)
  BY <1>1, <1>2 DEF ScreenInv, Still, Sound
<1>8. /\ d.storage = storage /\ d.traffic = traffic /\ d.name = name /\ storage \subseteq Conns
      /\ traffic \in [Conns -> Nat] /\ name \in [Addresses \cup Ports -> Nat]
      /\ e.storage = storage' /\ e.traffic = traffic' /\ e.name = name'
  BY <1>1, <1>7, DataFields
<1>9. e \in DataType /\ Answers(d, e, p)
  <2>1. e.name \in [Addresses \cup Ports -> Nat] /\ \A x \in Addresses \cup Ports : x # p => e.name[x] = d.name[x]
    BY <1>2, <1>8
  <2>2. e = [storage |-> e.storage, traffic |-> e.traffic, name |-> e.name]
    BY <1>1 DEF data
  <2>3. e \in DataType
    BY <1>2, <1>8, <2>1, <2>2 DEF DataType
  <2> QED BY <1>2, <1>8, <2>1, <2>3 DEF Answers
<1>10. ListInv(m, e) /\ SameMode(l, m) /\ TellsOf(l, m, portFields(p)) /\ Follows(l, m, portFields(p))
  BY ONLY p \in Ports, <1>5, <1>7, <1>9, PortUpdated
<1>11. PICK Has : Has = portFields(p)
  OBVIOUS
<1>12. Has \in [Conns -> SUBSET Fields] /\ \A c \in Conns : Covers(c, p, Has[c])
  <2>1. \A c \in Conns : Has[c] \in SUBSET Fields
    BY <1>11 DEF portFields, Fields
  <2>2. Has = [c \in Conns |-> Has[c]]
    BY <1>11 DEF portFields
  <2>3. Has \in [Conns -> SUBSET Fields]
    BY ONLY <2>1, <2>2
  <2> QED BY <1>11, <2>3, FieldsOf
<1>13. Drawable(e, m, w, size, sc, h, box)
  <2>1. TellsOf(l, m, Has) /\ Follows(l, m, Has)
    BY <1>10, <1>11
  <2> QED BY ONLY <1>7, <1>9, <1>10, <1>12, <2>1, AnswerDrawable
<1>14. /\ rows' = drawRows(e, h, w, m, sc, size) /\ dialog' = drawDialog(e, box, m)
       /\ connList' = resetConnectionDetailRefresh(getNextUpdate(m))
       /\ currentSize' = getSize(m) /\ header' = drawHeader(e, m)
  BY <1>1, <1>3, <1>6
<1>15. showCursor' = sc /\ showHostname' = h /\ changes' \in Nat /\ data' = e
  BY <1>1, <1>2
<1> QED BY ONLY <1>13, <1>14, <1>15, Drew

\* KeyMove
LEMMA ScreenKey ==
    ASSUME ScreenInv, NEW amount \in -MaxRows..MaxRows, KeyMove(amount)
    PROVE  ScreenInv'
<1>1. PICK d, l, w, size, sc, h, box :
        /\ d = data /\ l = connList /\ w = rows /\ size = currentSize /\ sc = showCursor
        /\ h = showHostname /\ box = dialog
  OBVIOUS
<1>2. /\ changes = 0 /\ connList.targetSize > 0 /\ storage' = storage /\ traffic' = traffic /\ name' = name
      /\ showCursor' = showCursor /\ showHostname' = showHostname /\ changes' = changes
  BY DEF KeyMove, unchangedData
<1>3. PICK m \in IF showCursor THEN moveCursor(connList, data, amount) ELSE doScroll(connList, data, amount) :
        updateIfRequired(m)
  BY Zenon DEF KeyMove
<1>4. /\ Sound(d, l, w, size, sc, h, box) /\ d \in DataType /\ ListInv(l, d) /\ l.targetSize > 0
      /\ l.refresh = FALSE
  BY <1>1, <1>2 DEF ScreenInv, Still, Sound
<1>5. amount \in Int
  BY ScreenAssumption
<1>6. /\ ListInv(m, d) /\ m.detail = l.detail /\ m.detailStale = l.detailStale /\ m.targetSize = l.targetSize
      /\ KeepsRows(l, m) /\ (m = l \/ m.refresh = TRUE)
  <2>1. CASE m \in moveCursor(l, d, amount)
    <3>1. /\ ListInv(m, d) /\ SameButPlace(l, m) /\ KeepsRows(l, m) /\ (m = l \/ m.refresh = TRUE)
      BY ONLY <1>4, <1>5, <2>1, MoveCursor
    <3> QED BY <3>1 DEF SameButPlace
  <2>2. CASE m \in doScroll(l, d, amount)
    <3>1. ListInv(m, d) /\ SameButScroll(l, m) /\ (m = l \/ (AllFresh(m) /\ m.refresh = TRUE))
      BY ONLY <1>4, <1>5, <2>2, DoScroll
    <3>2. KeepsRows(l, m)
      BY <3>1, KeepsItself, FreshKeeps
    <3> QED BY <3>1, <3>2 DEF SameButScroll
  <2>3. m \in moveCursor(l, d, amount) \/ m \in doScroll(l, d, amount)
    <3>1. showCursor \in BOOLEAN
      BY DEF ScreenInv, Sound
    <3>2. CASE showCursor
      BY <1>1, <1>3, <3>2
    <3>3. CASE ~showCursor
      BY <1>1, <1>3, <3>3
    <3> QED BY <3>1, <3>2, <3>3
  <2> QED BY <2>1, <2>2, <2>3
<1>7. data' = data /\ changes' \in Nat
  BY <1>2 DEF data
<1>8. CASE m.refresh = TRUE
  <2>1. updateList(data, showHostname, rows, m, showCursor)
    BY <1>3, <1>8, Zenon DEF updateIfRequired
  <2>2. /\ rows' = drawRows(data, showHostname, rows, m, showCursor, currentSize)
        /\ dialog' = drawDialog(data, dialog, m)
        /\ connList' = resetConnectionDetailRefresh(getNextUpdate(m))
        /\ currentSize' = getSize(m) /\ header' = drawHeader(data, m)
    BY <2>1, Zenon DEF updateList, drawRows, drawDialog
  <2>3. Drawable(d, m, w, size, sc, h, box)
    BY ONLY <1>4, <1>6, CanBeDrawn
  <2>4. /\ rows' = drawRows(d, h, w, m, sc, size) /\ dialog' = drawDialog(d, box, m)
        /\ header' = drawHeader(d, m) /\ data' = d /\ showCursor' = sc /\ showHostname' = h
    BY <1>1, <1>2, <1>7, <2>2
  <2> QED BY ONLY <1>7, <2>2, <2>3, <2>4, Drew
<1>9. CASE m.refresh # TRUE
  <2>1. m = l /\ m.refresh = FALSE
    BY <1>4, <1>6, <1>9
  <2>2. connList' = m /\ rows' = rows /\ currentSize' = currentSize /\ header' = header /\ dialog' = dialog
    BY <1>3, <2>1, Zenon DEF updateIfRequired
  <2> QED BY <1>1, <1>2, <1>7, <2>1, <2>2 DEF ScreenInv
<1> QED BY <1>8, <1>9

\* The dialog is another one, the list below is the same.
LEMMA OtherBox ==
    ASSUME NEW d, NEW l, NEW w, NEW size, NEW sc, NEW h, NEW hd, NEW box, Sound(d, l, w, size, sc, h, box),
           Still(d, l, w, size, sc, h, hd, box), NEW m, ListInv(m, d), SameMode(l, m), m.list = l.list,
           m.cursorPos = l.cursorPos, m.refresh = l.refresh, m.detail \in d.storage \cup {None},
           NEW b \in BoxType, DialogIsRight(d, m, b)
    PROVE  Sound(d, m, w, size, sc, h, b) /\ Still(d, m, w, size, sc, h, hd, b)
<1>1. m.scrollOffset = l.scrollOffset /\ m.targetSize = l.targetSize
  BY DEF SameMode
<1>2. getSize(m) = getSize(l)
  BY <1>1 DEF getSize
<1>3. IsRight(d, h, sc, m, w)
  <2>1. \A r \in 1..MaxRows : rightRow(d, h, sc, m, r) = rightRow(d, h, sc, l, r)
    BY <1>1, <1>2 DEF rightRow
  <2> QED BY <2>1 DEF Still, IsRight
<1>4. Still(d, m, w, size, sc, h, hd, b)
  BY <1>1, <1>2, <1>3 DEF Still, drawHeader
<1>5. Shows(d, h, sc, m, w)
  <2>1. Shows(d, h, sc, l, w)
    BY DEF Sound
  <2>2. ASSUME NEW i \in DOMAIN m.list, i > m.scrollOffset PROVE RowShows(d, h, sc, m, w, i)
    <3>1. RowShows(d, h, sc, l, w, i)
      BY <1>1, <2>1, <2>2 DEF Shows
    <3> QED BY <1>1, <3>1 DEF RowShows, cursorOf
  <2> QED BY <2>2 DEF Shows
<1>6. DialogTells(d, m, b) /\ DialogShows(d, m, b)
  BY RightTells
<1> QED BY <1>1, <1>4, <1>5, <1>6 DEF Sound

\* OpenDetails
LEMMA ScreenOpen ==
    ASSUME ScreenInv, OpenDetails
    PROVE  ScreenInv'
<1>1. PICK d, l, w, size, sc, h, hd, box, m, b :
        /\ d = data /\ l = connList /\ w = rows /\ size = currentSize /\ sc = showCursor
        /\ h = showHostname /\ hd = header /\ box = dialog /\ m = connList' /\ b = dialog'
  OBVIOUS
<1>2. /\ changes = 0 /\ dialog.content = "NONE" /\ storage' = storage /\ traffic' = traffic /\ name' = name
      /\ showCursor' = showCursor /\ showHostname' = showHostname /\ changes' = changes
      /\ rows' = rows /\ currentSize' = currentSize /\ header' = header
      /\ connList' = initConnectionDetail(connList)
  BY DEF OpenDetails, unchangedData
<1>3. dialog' = IF connList'.detail = None THEN dialog
                ELSE updateDialog(data, drawStatic(connList'.detail), connList'.detail, Fields)
  BY Zenon DEF OpenDetails
<1>4. /\ Sound(d, l, w, size, sc, h, box) /\ Still(d, l, w, size, sc, h, hd, box)
      /\ d \in DataType /\ ListInv(l, d) /\ box \in BoxType /\ box.content = "NONE"
  BY <1>1, <1>2 DEF ScreenInv, Sound
<1>5. m = initConnectionDetail(l) /\ b = (IF m.detail = None THEN box
                                          ELSE updateDialog(d, drawStatic(m.detail), m.detail, Fields))
  BY <1>1, <1>2, <1>3
<1>6. /\ ListInv(m, d) /\ SameMode(l, m) /\ m.list = l.list /\ m.cursorPos = l.cursorPos
      /\ m.refresh = l.refresh /\ m.detail \in d.storage \cup {None}
  BY <1>4, <1>5, InitDetail
<1>7. b \in BoxType /\ DialogIsRight(d, m, b)
  <2>1. CASE m.detail = None
    BY <1>4, <1>5, <2>1 DEF DialogIsRight
  <2>2. CASE m.detail # None
    <3>1. m.detail \in Conns
      BY <1>4, <1>6, <2>2 DEF DataType
    <3>2. b = updateDialog(d, drawStatic(m.detail), m.detail, Fields)
      BY <1>5, <2>2
    <3>3. b \in BoxType /\ b.content = "NORMAL" /\ b.text = detailText(d, m.detail)
      BY <1>4, <3>1, <3>2, OpenBox
    <3> QED BY <2>2, <3>3 DEF DialogIsRight
  <2> QED BY <2>1, <2>2
<1>8. Sound(d, m, w, size, sc, h, b) /\ Still(d, m, w, size, sc, h, hd, b)
  BY ONLY <1>4, <1>6, <1>7, OtherBox
<1>9. data' = data
  BY <1>2 DEF data
<1> QED BY <1>1, <1>2, <1>8, <1>9 DEF ScreenInv

\* CloseDetails
LEMMA ScreenClose ==
    ASSUME ScreenInv, CloseDetails
    PROVE  ScreenInv'
<1>1. PICK d, l, w, size, sc, h, hd, box, b :
        /\ d = data /\ l = connList /\ w = rows /\ size = currentSize /\ sc = showCursor
        /\ h = showHostname /\ hd = header /\ box = dialog /\ b = dialog'
  OBVIOUS
<1>2. /\ changes = 0 /\ storage' = storage /\ traffic' = traffic /\ name' = name /\ dialog' = Closed
      /\ showCursor' = showCursor /\ showHostname' = showHostname /\ changes' = changes
      /\ rows' = rows /\ currentSize' = currentSize /\ header' = header /\ connList' = connList
  BY DEF CloseDetails, unchangedData
<1>3. /\ Sound(d, l, w, size, sc, h, box) /\ Still(d, l, w, size, sc, h, hd, box) /\ ListInv(l, d)
      /\ l.detail \in d.storage \cup {None}
  BY <1>1, <1>2 DEF ScreenInv, Sound
<1>4. b \in BoxType /\ DialogIsRight(d, l, b)
  BY <1>1, <1>2, ClosedBox DEF DialogIsRight
<1>5. SameMode(l, l) /\ l.list = l.list
  BY DEF SameMode
<1>6. Sound(d, l, w, size, sc, h, b) /\ Still(d, l, w, size, sc, h, hd, b)
  BY ONLY <1>3, <1>4, <1>5, OtherBox
<1>7. data' = data
  BY <1>2 DEF data
<1> QED BY <1>1, <1>2, <1>6, <1>7 DEF ScreenInv

\* ToggleCursor
LEMMA ScreenCursor ==
    ASSUME ScreenInv, ToggleCursor
    PROVE  ScreenInv'
<1>1. PICK d, l, m, w, size, sc, sc2, h, box :
        /\ d = data /\ l = connList /\ w = rows /\ size = currentSize /\ sc = showCursor
        /\ sc2 = showCursor' /\ h = showHostname /\ box = dialog /\ m = invalidateCursor(connList)
  OBVIOUS
<1>2. /\ changes = 0 /\ storage' = storage /\ traffic' = traffic /\ name' = name
      /\ showCursor' = ~showCursor /\ showHostname' = showHostname /\ changes' = changes
  BY DEF ToggleCursor, unchangedData
<1>3. /\ rows' = drawRows(data, showHostname, rows, invalidateCursor(connList), showCursor', currentSize)
      /\ dialog' = drawDialog(data, dialog, invalidateCursor(connList))
      /\ connList' = resetConnectionDetailRefresh(getNextUpdate(invalidateCursor(connList)))
      /\ currentSize' = getSize(invalidateCursor(connList))
      /\ header' = drawHeader(data, invalidateCursor(connList))
  BY Zenon DEF ToggleCursor, updateList, drawRows, drawDialog
<1>4. Sound(d, l, w, size, sc, h, box) /\ m = invalidateCursor(l) /\ sc2 \in BOOLEAN
  BY <1>1, <1>2 DEF ScreenInv
<1>5. Drawable(d, m, w, size, sc2, h, box)
  BY ONLY <1>4, CursorToggled
<1>6. data' = data /\ changes' \in Nat
  BY <1>2 DEF data
<1>7. /\ rows' = drawRows(d, h, w, m, sc2, size) /\ dialog' = drawDialog(d, box, m)
      /\ connList' = resetConnectionDetailRefresh(getNextUpdate(m)) /\ currentSize' = getSize(m)
      /\ header' = drawHeader(d, m) /\ data' = d /\ showCursor' = sc2 /\ showHostname' = h
  BY <1>1, <1>2, <1>3, <1>6
<1> QED BY ONLY <1>5, <1>6, <1>7, Drew

\* ToggleHostname
LEMMA ScreenHostname ==
    ASSUME ScreenInv, ToggleHostname
    PROVE  ScreenInv'
<1>1. PICK d, l, m, w, size, sc, h, h2, box :
        /\ d = data /\ l = connList /\ w = rows /\ size = currentSize /\ sc = showCursor
        /\ h = showHostname /\ h2 = showHostname' /\ box = dialog /\ m = invalidateAllVisible(connList)
  OBVIOUS
<1>2. /\ changes = 0 /\ storage' = storage /\ traffic' = traffic /\ name' = name
      /\ showCursor' = showCursor /\ showHostname' = ~showHostname /\ changes' = changes
  BY DEF ToggleHostname, unchangedData
<1>3. /\ rows' = drawRows(data, showHostname', rows, invalidateAllVisible(connList), showCursor, currentSize)
      /\ dialog' = drawDialog(data, dialog, invalidateAllVisible(connList))
      /\ connList' = resetConnectionDetailRefresh(getNextUpdate(invalidateAllVisible(connList)))
      /\ currentSize' = getSize(invalidateAllVisible(connList))
      /\ header' = drawHeader(data, invalidateAllVisible(connList))
  BY Zenon DEF ToggleHostname, updateList, drawRows, drawDialog
<1>4. Sound(d, l, w, size, sc, h, box) /\ ListInv(l, d) /\ m = invalidateAllVisible(l) /\ h2 \in BOOLEAN
  BY <1>1, <1>2 DEF ScreenInv, Sound
<1>5. Marks(l, m) /\ AllFresh(m)
  BY <1>4, AllVisible DEF ListInv, ListOK
<1>6. ListInv(m, d) /\ m.detail = l.detail /\ m.detailStale = l.detailStale /\ m.targetSize = l.targetSize
  BY <1>4, <1>5, MarksInv DEF Marks, Same, SameMode
<1>7. Drawable(d, m, w, size, sc, h2, box)
  BY ONLY <1>4, <1>5, <1>6, FreshDrawable
<1>8. data' = data /\ changes' \in Nat
  BY <1>2 DEF data
<1>9. /\ rows' = drawRows(d, h2, w, m, sc, size) /\ dialog' = drawDialog(d, box, m)
      /\ connList' = resetConnectionDetailRefresh(getNextUpdate(m)) /\ currentSize' = getSize(m)
      /\ header' = drawHeader(d, m) /\ data' = d /\ showCursor' = sc /\ showHostname' = h2
  BY <1>1, <1>2, <1>3, <1>8
<1> QED BY ONLY <1>7, <1>8, <1>9, Drew

\* updateSortMode
LEMMA ScreenSortMode ==
    ASSUME ScreenInv, NEW mode, NEW asc, <<mode, asc>> \in Modes, updateSortMode(mode, asc)
    PROVE  ScreenInv'
<1>1. PICK d, l, w, size, sc, h, box :
        /\ d = data /\ l = connList /\ w = rows /\ size = currentSize /\ sc = showCursor
        /\ h = showHostname /\ box = dialog
  OBVIOUS
<1>2. /\ changes = 0 /\ storage' = storage /\ traffic' = traffic /\ name' = name
      /\ showCursor' = showCursor /\ showHostname' = showHostname /\ changes' = changes
      /\ <<mode, asc>> # <<connList.sortMode, connList.ascending>>
  BY DEF updateSortMode, unchangedData
<1>3. PICK m \in setSortMode(connList, data, mode, asc) :
        updateList(data, showHostname, rows, m, showCursor)
  BY Zenon DEF updateSortMode
<1>4. /\ rows' = drawRows(data, showHostname, rows, m, showCursor, currentSize)
      /\ dialog' = drawDialog(data, dialog, m)
      /\ connList' = resetConnectionDetailRefresh(getNextUpdate(m))
      /\ currentSize' = getSize(m) /\ header' = drawHeader(data, m)
  BY <1>3, Zenon DEF updateList, drawRows, drawDialog
<1>5. mode \in SortModes /\ asc \in BOOLEAN
  BY ScreenAssumption
<1>6. /\ Sound(d, l, w, size, sc, h, box) /\ d \in DataType /\ ListInv(l, d) /\ h \in BOOLEAN
      /\ ~(l.sortMode = mode /\ l.ascending = asc) /\ m \in setSortMode(l, d, mode, asc)
  BY <1>1, <1>2, <1>3 DEF ScreenInv, Sound
<1>7. /\ ListInv(m, d) /\ AllFresh(m) /\ m.refresh = TRUE /\ m.targetSize = l.targetSize
      /\ m.detail = l.detail /\ m.detailStale = l.detailStale
  <2>1. /\ d \in DataType /\ ListInv(l, d) /\ mode \in SortModes /\ asc \in BOOLEAN
        /\ ~(l.sortMode = mode /\ l.ascending = asc) /\ m \in setSortMode(l, d, mode, asc)
    BY ONLY <1>5, <1>6
  <2>2. Renewed(l, m, d, l.targetSize)
    BY ONLY <2>1, SetSortMode
  <2> QED BY ONLY <2>2 DEF Renewed
<1>8. Drawable(d, m, w, size, sc, h, box)
  BY ONLY <1>6, <1>7, FreshDrawable
<1>9. data' = data /\ changes' \in Nat
  BY <1>2 DEF data
<1>10. /\ rows' = drawRows(d, h, w, m, sc, size) /\ dialog' = drawDialog(d, box, m)
       /\ connList' = resetConnectionDetailRefresh(getNextUpdate(m)) /\ currentSize' = getSize(m)
       /\ header' = drawHeader(d, m) /\ data' = d /\ showCursor' = sc /\ showHostname' = h
  BY <1>1, <1>2, <1>4, <1>9
<1> QED BY ONLY <1>8, <1>9, <1>10, Drew

\* handleResize
LEMMA ScreenResize ==
    ASSUME ScreenInv, NEW n \in Sizes, handleResize(n)
    PROVE  ScreenInv'
<1>1. PICK d, l, w, v, size, sc, h, box :
        /\ d = data /\ l = connList /\ w = rows /\ size = currentSize /\ sc = showCursor
        /\ h = showHostname /\ box = dialog /\ v = [r \in DOMAIN rows |-> Blank]
  OBVIOUS
<1>2. /\ changes = 0 /\ storage' = storage /\ traffic' = traffic /\ name' = name
      /\ showCursor' = showCursor /\ showHostname' = showHostname /\ changes' = changes
      /\ n # connList.targetSize
  BY DEF handleResize, unchangedData
<1>3. PICK k \in setTargetSize(connList, data, n) :
        updateList(data, showHostname, [r \in DOMAIN rows |-> Blank], invalidateAllVisible(k), showCursor)
  BY Zenon DEF handleResize
<1>4. PICK m : m = invalidateAllVisible(k)
  OBVIOUS
<1>5. /\ rows' = drawRows(data, showHostname, [r \in DOMAIN rows |-> Blank], invalidateAllVisible(k), showCursor,
                          currentSize)
      /\ dialog' = drawDialog(data, dialog, invalidateAllVisible(k))
      /\ connList' = resetConnectionDetailRefresh(getNextUpdate(invalidateAllVisible(k)))
      /\ currentSize' = getSize(invalidateAllVisible(k)) /\ header' = drawHeader(data, invalidateAllVisible(k))
  BY <1>3, Zenon DEF updateList, drawRows, drawDialog
<1>6. n \in Nat /\ n <= MaxRows
  BY ScreenAssumption
<1>7. /\ Sound(d, l, w, size, sc, h, box) /\ d \in DataType /\ ListInv(l, d)
      /\ n # l.targetSize /\ k \in setTargetSize(l, d, n) /\ v = [r \in DOMAIN w |-> Blank]
  BY <1>1, <1>2, <1>3 DEF ScreenInv, Sound
<1>8. /\ ListInv(m, d) /\ AllFresh(m) /\ m.refresh = TRUE /\ m.targetSize = n
      /\ m.detail = l.detail /\ m.detailStale = l.detailStale
  <2>1. /\ d \in DataType /\ ListInv(l, d) /\ n \in Nat /\ n # l.targetSize
        /\ k \in setTargetSize(l, d, n) /\ m = invalidateAllVisible(k)
    BY ONLY <1>4, <1>6, <1>7
  <2>2. Renewed(l, m, d, n)
    BY ONLY <2>1, SetTargetSize
  <2> QED BY ONLY <2>2 DEF Renewed
<1>9. Drawable(d, m, v, size, sc, h, box)
  <2>1. m.targetSize <= MaxRows
    BY <1>6, <1>8
  <2> QED BY ONLY <1>7, <1>8, <2>1, ErasedDrawable
<1>10. data' = data /\ changes' \in Nat
  BY <1>2 DEF data
<1>11. /\ rows' = drawRows(d, h, v, m, sc, size) /\ dialog' = drawDialog(d, box, m)
       /\ connList' = resetConnectionDetailRefresh(getNextUpdate(m)) /\ currentSize' = getSize(m)
       /\ header' = drawHeader(d, m) /\ data' = d /\ showCursor' = sc /\ showHostname' = h
  BY <1>1, <1>2, <1>4, <1>5, <1>10
<1> QED BY ONLY <1>9, <1>10, <1>11, Drew

-----------------------------------------------------------------------------
(***************************************************************************)
(* The theorems.                                                           *)
(***************************************************************************)
\* Every step of the program.
LEMMA ScreenNext ==
    ASSUME ScreenInv, [Next]_vars
    PROVE  ScreenInv'
<1>1. ASSUME NEW c \in Conns, NEW t \in 0..MaxTraffic, AddConnection(c, t) PROVE ScreenInv'
  BY <1>1, ScreenAdd
<1>2. ASSUME NEW c \in Conns, NEW t \in 0..MaxTraffic, UpdateConnection(c, t) PROVE ScreenInv'
  BY <1>2, ScreenUpdate
<1>3. ASSUME NEW c \in Conns, RemoveConnection(c) PROVE ScreenInv'
  BY <1>3, ScreenRemove
<1>4. CASE ClearConnections
  BY <1>4, ScreenClear
<1>5. CASE refreshConnectionList
  BY <1>5, ScreenRefresh
<1>6. ASSUME NEW a \in Addresses, ResolverCallbackAddress(a) PROVE ScreenInv'
  BY <1>6, ScreenAddress
<1>7. ASSUME NEW p \in Ports, ResolverCallbackPort(p) PROVE ScreenInv'
  BY <1>7, ScreenPort
<1>8. ASSUME NEW amount \in -MaxRows..MaxRows, KeyMove(amount) PROVE ScreenInv'
  BY <1>8, ScreenKey
<1>9. CASE OpenDetails
  BY <1>9, ScreenOpen
<1>10. CASE CloseDetails
  BY <1>10, ScreenClose
<1>11. CASE ToggleCursor
  BY <1>11, ScreenCursor
<1>12. CASE ToggleHostname
  BY <1>12, ScreenHostname
<1>13. ASSUME NEW m \in Modes, updateSortMode(m[1], m[2]) PROVE ScreenInv'
  <2>1. <<m[1], m[2]>> \in Modes
    <3>1. m \in SortModes \X BOOLEAN
      BY ScreenAssumption
    <3>2. m = <<m[1], m[2]>>
      BY ONLY <3>1
    <3> QED BY <3>2
  <2> QED BY <1>13, <2>1, ScreenSortMode
<1>14. ASSUME NEW n \in Sizes, handleResize(n) PROVE ScreenInv'
  BY <1>14, ScreenResize
<1>15. CASE UNCHANGED vars
  BY <1>15, Zenon DEF vars, ScreenInv, data
<1> QED
  BY <1>1, <1>2, <1>3, <1>4, <1>5, <1>6, <1>7, <1>8, <1>9, <1>10, <1>11, <1>12, <1>13, <1>14, <1>15, Zenon
     DEF Next

\* The invariant is inductive: the list is in order and as long as it can be,
\* and whatever is not marked to be drawn again is drawn as it should be, in
\* the rows (ConnectionList and ScreenConnectionList::updateList) and in the
\* dialog (DialogConnectionDetails::update).
THEOREM ScreenInductive == Spec => []ScreenInv
<1>1. Init => ScreenInv
  BY ScreenInit
<1>2. ScreenInv /\ [Next]_vars => ScreenInv'
  BY ScreenNext
<1> QED BY <1>1, <1>2, PTL DEF Spec

\* What the invariant says of the list by itself.
LEMMA ScreenList ==
    ASSUME ScreenInv
    PROVE  /\ data \in DataType /\ data.storage = storage /\ ListInv(connList, data)
           /\ connList \in ListType /\ NoTwice(connList) /\ Stored(connList, data) /\ Sorted(connList, data)
           /\ connList.detail \in storage \cup {None} /\ connList.targetSize <= MaxRows
<1>1. data.storage = storage
  BY DEF data
<1>2. /\ data \in DataType /\ ListInv(connList, data) /\ connList.detail \in data.storage \cup {None}
      /\ connList.targetSize <= MaxRows
  BY DEF ScreenInv, Sound
<1> QED BY <1>1, <1>2 DEF ListInv, ListOK

\* The pointers in m_list and m_connectionDetail are to connections that are
\* stored, and no connection has two rows, however adding, removing, sorting
\* and filling follow one another.
THEOREM PointersAreStored == Spec => []NoDanglingPointer
<1>1. ScreenInv => NoDanglingPointer
  <2> SUFFICES ASSUME ScreenInv PROVE NoDanglingPointer
    OBVIOUS
  <2>1. PICK l : l = connList
    OBVIOUS
  <2>2. /\ l \in ListType /\ NoTwice(l) /\ Stored(l, data) /\ data.storage = storage
        /\ l.detail \in storage \cup {None}
    BY <2>1, ScreenList
  <2>3. PICK n : n = Len(l.list)
    OBVIOUS
  <2>4. n \in Nat /\ DOMAIN l.list = 1..n
    BY <2>2, <2>3, ListFields
  <2>5. PICK p : p = [i \in 1..n |-> l.list[i].conn]
    OBVIOUS
  <2>6. InList = {p[i] : i \in 1..n}
    BY <2>1, <2>4, <2>5 DEF InList
  <2>7. p \in [1..n -> InList] /\ \A i, j \in 1..n : p[i] = p[j] => i = j
    BY <2>2, <2>4, <2>5, <2>6 DEF NoTwice
  <2>8. \A c \in InList : \E i \in 1..n : p[i] = c
    BY ONLY <2>6
  <2>9. p \in Bijection(1..n, InList)
    BY ONLY <2>7, <2>8 DEF Bijection, Injection, Surjection, IsInjective
  <2>10. IsFiniteSet(1..n) /\ Cardinality(1..n) = n
    BY ONLY <2>4, FS_Interval
  <2>11. Cardinality(InList) = n
    <3>1. ExistsBijection(1..n, InList)
      BY ONLY <2>9 DEF ExistsBijection
    <3> QED BY ONLY <2>10, <3>1, FS_Bijection
  <2>12. InList \subseteq storage
    BY <2>2, <2>4, <2>5, <2>6 DEF Stored
  <2> QED BY <2>1, <2>2, <2>3, <2>11, <2>12 DEF NoDanglingPointer
<1> QED BY <1>1, ScreenInductive, PTL

\* m_list is sorted by the current data, whatever is added, counted, resolved
\* or scrolled: the binary search of insertItem and the comparison with the
\* last item, which fill and the handlers rely on, are justified.
THEOREM SortedAlways == Spec => []ListIsSorted
<1>1. ScreenInv => ListIsSorted
  <2> SUFFICES ASSUME ScreenInv PROVE ListIsSorted
    OBVIOUS
  <2>1. PICK l, d : l = connList /\ d = data
    OBVIOUS
  <2>2. l \in ListType /\ d \in DataType /\ Stored(l, d) /\ Sorted(l, d)
    BY <2>1, ScreenList
  <2>3. /\ Len(l.list) \in Nat /\ DOMAIN l.list = 1..Len(l.list)
    BY <2>2, ListFields
  <2>4. ASSUME NEW i \in 1..(Len(l.list) - 1) PROVE ~compareFunc(l, d, l.list[i + 1].conn, l.list[i].conn)
    <3>1. i \in DOMAIN l.list /\ i + 1 \in DOMAIN l.list /\ i < i + 1
      BY <2>3
    <3>2. PICK a, b : a = l.list[i + 1].conn /\ b = l.list[i].conn
      OBVIOUS
    <3>3. a \in Conns /\ b \in Conns
      BY <2>2, <3>1, <3>2 DEF Stored, DataType
    <3>4. Key(l, d, b) <= Key(l, d, a)
      BY <2>2, <3>1, <3>2 DEF Sorted
    <3>5. /\ Key(l, d, a) \in Int /\ Key(l, d, b) \in Int
          /\ compareFunc(l, d, a, b) <=> Key(l, d, a) < Key(l, d, b)
      BY ONLY <2>2, <3>3, Compare
    <3>6. ~compareFunc(l, d, a, b)
      BY ONLY <3>4, <3>5
    <3> QED BY <3>2, <3>6
  <2> QED BY <2>1, <2>4 DEF ListIsSorted
<1> QED BY <1>1, ScreenInductive, PTL

\* m_list reaches exactly to the end of the window, or holds every connection,
\* and the cursor is on a row that is there: what invalidateCursor and
\* initConnectionDetail dereference without a test.
THEOREM WindowIsFilled == Spec => []WindowFits
<1>1. ScreenInv => WindowFits
  <2> SUFFICES ASSUME ScreenInv PROVE WindowFits
    OBVIOUS
  <2>1. PICK l, d : l = connList /\ d = data
    OBVIOUS
  <2>2. l \in ListType /\ d \in DataType /\ ListInv(l, d) /\ d.storage = storage
    BY <2>1, ScreenList
  <2>3. l.cursorPos <= getCursorMaxPos(l) /\ ListOK(l, d)
    BY <2>2 DEF ListInv
  <2>4. ASSUME l.targetSize > 0
        PROVE  Len(l.list) = Min({Cardinality(d.storage), l.scrollOffset + l.targetSize})
    <3>1. PICK a, b : a = Cardinality(d.storage) /\ b = l.scrollOffset + l.targetSize
      OBVIOUS
    <3>2. Full(l, d)
      BY <2>2, <2>4 DEF ListInv
    <3>3. a \in Nat /\ Len(l.list) = IF a <= b THEN a ELSE b
      BY <2>2, <2>3, <3>1, <3>2, FullLength
    <3>4. b \in Int
      BY <2>2, <3>1, ListFields
    <3>5. a \in Int
      BY <3>3
    <3>6. Min({a, b}) = IF a <= b THEN a ELSE b
      BY ONLY <3>4, <3>5, MinMax
    <3> QED BY <3>1, <3>3, <3>6
  <2> QED BY <2>1, <2>2, <2>3, <2>4 DEF WindowFits
<1> QED BY <1>1, ScreenInductive, PTL

\* Whatever is on the screen, a key leads from the connection at the cursor to
\* the one so many further, the first or the last (ConnectionList::moveCursor,
\* with the scrolling it makes).
THEOREM CursorGoesWhereAsked == Spec => []KeysMoveTheCursor
<1>1. ScreenInv => KeysMoveTheCursor
  <2> SUFFICES ASSUME ScreenInv, getSize(connList) > 0 PROVE KeysMoveTheCursor
    BY DEF KeysMoveTheCursor
  <2>1. PICK l, d : l = connList /\ d = data
    OBVIOUS
  <2>2. /\ d \in DataType /\ ListInv(l, d) /\ d.storage = storage /\ l.targetSize <= MaxRows
        /\ getSize(l) > 0 /\ l \in ListType
    BY <2>1, ScreenList
  <2>3. l.targetSize > 0
    <3>1. getSize(l) \in Nat /\ getSize(l) <= l.targetSize
      BY <2>2, RowItem
    <3>2. l.targetSize \in Nat
      BY <2>2, ListFields
    <3> QED BY ONLY <2>2, <3>1, <3>2
  <2>4. Cardinality(Conns) \in Nat
    BY ConnsAssumption, FS_CardinalityType
  <2>5. ASSUME NEW amount \in -Cardinality(Conns)..Cardinality(Conns), NEW m \in moveCursor(l, d, amount)
        PROVE  m.scrollOffset + m.cursorPos = Target(l, Cardinality(d.storage), amount)
    <3>1. amount \in Int
      BY <2>4
    <3> QED BY ONLY <2>2, <2>3, <3>1, m \in moveCursor(l, d, amount), MoveCursor
  <2> QED BY <2>1, <2>2, <2>5 DEF KeysMoveTheCursor, Target
<1> QED BY <1>1, ScreenInductive, PTL

\* Between two handlers the dialog shows the current data of its connection,
\* although it is told only of what changed (m_connectionDetailUpdateFlags).
THEOREM DialogIsCurrent == Spec => []DetailsAreCurrent
<1>1. ScreenInv => DetailsAreCurrent
  <2> SUFFICES ASSUME ScreenInv, changes = 0, dialog.content # "NONE"
               PROVE  CASE dialog.content = "NORMAL"  -> /\ connList.detail # None
                                                         /\ dialog.text = detailText(data, connList.detail)
                        [] dialog.content = "REMOVED" -> connList.detail = None
    BY Zenon DEF DetailsAreCurrent
  <2>1. dialog \in BoxType /\ DialogIsRight(data, connList, dialog)
    BY DEF ScreenInv, Sound, Still
  <2>2. dialog.content \in {"NONE", "NORMAL", "REMOVED"}
    BY ONLY <2>1 DEF BoxType
  <2>3. dialog.content = "NORMAL" \/ dialog.content = "REMOVED"
    BY <2>2
  <2>4. /\ dialog.content = "NORMAL" => connList.detail # None /\ dialog.text = detailText(data, connList.detail)
        /\ dialog.content = "REMOVED" => connList.detail = None
    BY <2>1 DEF DialogIsRight
  <2> QED BY ONLY <2>3, <2>4
<1> QED BY <1>1, ScreenInductive, PTL

\* Between two handlers the screen shows what is stored, although only the
\* rows and columns that were marked are drawn (ConnectionList::getNextUpdate,
\* ScreenConnectionList::updateList and drawListEntry).
THEOREM WindowIsCurrent == Spec => []ScreenIsCurrent
<1>1. ScreenInv => ScreenIsCurrent
  <2> SUFFICES ASSUME ScreenInv, changes = 0
               PROVE  /\ header = drawHeader(data, connList)
                      /\ \A r \in 1..MaxRows : rows[r] = rightRow(data, showHostname, showCursor, connList, r)
    BY Zenon DEF ScreenIsCurrent, rightRow, drawHeader, data
  <2> QED BY DEF ScreenInv, Still, IsRight
<1> QED BY <1>1, ScreenInductive, PTL

=============================================================================

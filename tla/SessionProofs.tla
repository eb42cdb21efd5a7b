--------------------------- MODULE SessionProofs ----------------------------
(***************************************************************************)
(* What the operations of the server's session and of the client do to     *)
(* what the two ends of a connection still have to say to each other: one  *)
(* lemma per operation of ServerSession and of Client, and what happens to *)
(* the order of the messages when one is dropped, appended or taken.       *)
(* Before them the operators these are built from: what Selected keeps of  *)
(* a sequence, what an output of StreamSocketWriter puts on the wire and   *)
(* leaves unsent, how many requests a sequence of messages holds, and the  *)
(* arithmetic of the timestamps.                                           *)
(***************************************************************************)
EXTENDS DataSync, StreamSocketWriter, Integers, FunctionTheorems, FiniteSetTheorems, TLAPS

-----------------------------------------------------------------------------
(***************************************************************************)
(* r holds the elements of q at the positions I, in order: f says which.   *)
(***************************************************************************)
Picks(f, r, q, I) ==
    /\ f \in [1..Len(r) -> I]
    /\ \A j \in 1..Len(r) : r[j] = q[f[j]]
    /\ \A i, j \in 1..Len(r) : i < j => f[i] < f[j]
    /\ \A i \in I : \E j \in 1..Len(r) : f[j] = i

\* Selected keeps exactly the elements at the given positions, in their order.
LEMMA SelectedPicks ==
    ASSUME NEW T, NEW q \in Seq(T), NEW I \in SUBSET (1..Len(q))
    PROVE  Selected(q, I) \in Seq(T) /\ \E f : Picks(f, Selected(q, I), q, I)
<1> DEFINE Below(i) == {k \in I : k <= i}
           n == Cardinality(I)
           rank == [i \in I |-> Cardinality(Below(i))]
           f == [j \in 1..n |-> CHOOSE i \in I : Cardinality({k \in I : k <= i}) = j]
<1>1. Len(q) \in Nat /\ I \subseteq Int /\ \A i \in 1..Len(q) : q[i] \in T
  OBVIOUS
<1>2. IsFiniteSet(I) /\ n \in Nat
  <2>1. IsFiniteSet(1..Len(q))
    BY <1>1, FS_Interval
  <2>2. IsFiniteSet(I)
    BY <2>1, FS_Subset
  <2> QED BY <2>2, FS_CardinalityType
<1>3. \A i \in I : /\ IsFiniteSet(Below(i)) /\ Cardinality(Below(i)) \in 1..n
  <2> TAKE i \in I
  <2>1. Below(i) \in SUBSET I /\ i \in Below(i)
    BY <1>1
  <2>2. IsFiniteSet(Below(i)) /\ Cardinality(Below(i)) <= n /\ Cardinality(Below(i)) \in Nat
    BY <1>2, <2>1, FS_Subset, FS_CardinalityType
  <2>3. Cardinality(Below(i)) # 0
    BY <2>1, <2>2, FS_EmptySet
  <2> QED BY <1>2, <2>2, <2>3
<1>4. \A i, j \in I : i < j => rank[i] < rank[j]
  <2> TAKE i, j \in I
  <2> HAVE i < j
  <2>1. Below(i) \in SUBSET Below(j) /\ Below(i) # Below(j)
    <3>1. j \in Below(j) /\ j \notin Below(i)
      BY <1>1
    <3>2. \A k \in Below(i) : k \in Below(j)
      BY <1>1
    <3> QED BY <3>1, <3>2
  <2>2. Cardinality(Below(i)) <= Cardinality(Below(j)) /\ Cardinality(Below(i)) # Cardinality(Below(j))
    BY <1>3, <2>1, FS_Subset
  <2>3. Cardinality(Below(i)) \in 1..n /\ Cardinality(Below(j)) \in 1..n
    BY <1>3
  <2>4. rank[i] = Cardinality(Below(i)) /\ rank[j] = Cardinality(Below(j))
    OBVIOUS
  <2> HIDE DEF Below, rank, n
  <2> QED BY <1>2, <2>2, <2>3, <2>4
<1> HIDE DEF Below
<1>5. rank \in [I -> 1..n]
  BY <1>3
<1>6. \A i, j \in I : rank[i] = rank[j] => i = j
  <2> TAKE i, j \in I
  <2> HAVE rank[i] = rank[j]
  <2>1. i \in Int /\ j \in Int /\ rank[i] \in Int
    BY <1>1, <1>5
  <2> QED BY <1>4, <2>1
<1>7. rank \in Injection(I, 1..n)
  BY <1>5, <1>6 DEF Injection, IsInjective
<1>8. \A j \in 1..n : \E i \in I : rank[i] = j
  <2>1. IsFiniteSet(1..n) /\ Cardinality(1..n) = n
    BY <1>2, FS_Interval
  <2>2. rank \in Surjection(I, 1..n)
    BY <1>7, <2>1, FS_Injection
  <2> QED BY <2>2 DEF Surjection
<1>9. \A j \in 1..n : f[j] \in I /\ rank[f[j]] = j
  <2> TAKE j \in 1..n
  <2>1. PICK i \in I : Cardinality({k \in I : k <= i}) = j
    BY <1>8 DEF Below
  <2>2. /\ (CHOOSE x \in I : Cardinality({k \in I : k <= x}) = j) \in I
        /\ Cardinality({e \in I : e <= CHOOSE x \in I : Cardinality({k \in I : k <= x}) = j}) = j
    BY <2>1
  <2> QED BY <2>2 DEF Below
<1>10. f \in [1..n -> I]
  BY <1>9
<1>11. Selected(q, I) = [j \in 1..n |-> q[f[j]]]
  BY DEF Selected
<1> HIDE DEF f, rank, n
<1>12. Selected(q, I) \in Seq(T) /\ Len(Selected(q, I)) = n
  <2>1. \A j \in 1..n : q[f[j]] \in T
    BY <1>1, <1>10
  <2>2. [j \in 1..n |-> q[f[j]]] \in Seq(T) /\ Len([j \in 1..n |-> q[f[j]]]) = n
    BY <1>2, <2>1
  <2> QED BY <1>11, <2>2
<1>13. \A j \in 1..n : Selected(q, I)[j] = q[f[j]]
  BY <1>11
<1>14. \A i, j \in 1..n : i < j => f[i] < f[j]
  <2> TAKE i, j \in 1..n
  <2> HAVE i < j
  <2>1. f[i] \in I /\ f[j] \in I /\ f[i] \in Int /\ f[j] \in Int /\ rank[f[i]] = i /\ rank[f[j]] = j
    BY <1>1, <1>9
  <2>2. f[j] < f[i] => rank[f[j]] < rank[f[i]]
    BY <1>4, <2>1
  <2> QED BY <1>2, <2>1, <2>2
<1>15. \A i \in I : \E j \in 1..n : f[j] = i
  BY <1>5, <1>6, <1>9
<1> QED BY <1>10, <1>12, <1>13, <1>14, <1>15 DEF Picks

-----------------------------------------------------------------------------
(***************************************************************************)
(* t is what is left of s when some of its DATA messages are dropped; if   *)
(* it is not the whole, everything from some message on is missing too.    *)
(***************************************************************************)
Embeds(f, t, s, whole) ==
    /\ f \in [1..Len(t) -> 1..Len(s)]
    /\ \A i \in 1..Len(t) : t[i] = s[f[i]]
    /\ \A i, j \in 1..Len(t) : i < j => f[i] < f[j]
    /\ \A k \in 1..Len(s) : s[k].type # "DATA" =>
         \/ \E i \in 1..Len(t) : f[i] = k
         \/ ~whole /\ \A i \in 1..Len(t) : f[i] < k

\* t is s without some of its DATA messages, and up to the end of s if whole.
Thins(t, s, whole) == \E f : Embeds(f, t, s, whole)

\* A sequence is itself without any message left out.
LEMMA ThinsSelf ==
    ASSUME NEW M, NEW s \in Seq(M)
    PROVE  Thins(s, s, TRUE)
<1>1. Embeds([i \in 1..Len(s) |-> i], s, s, TRUE)
  BY DEF Embeds
<1> QED BY <1>1 DEF Thins

\* Where the elements of a concatenation come from.
LEMMA ConcatFacts ==
    ASSUME NEW M, NEW a \in Seq(M), NEW b \in Seq(M)
    PROVE  /\ a \o b \in Seq(M)
           /\ Len(a) \in Nat /\ Len(b) \in Nat /\ Len(a \o b) = Len(a) + Len(b)
           /\ \A i \in 1..Len(a) : i \in 1..Len(a \o b) /\ (a \o b)[i] = a[i]
           /\ \A i \in 1..Len(b) : Len(a) + i \in 1..Len(a \o b) /\ (a \o b)[Len(a) + i] = b[i]
           /\ \A i \in 1..Len(a \o b) : i \in 1..Len(a) \/ \E j \in 1..Len(b) : i = Len(a) + j
<1>1. a \o b \in Seq(M) /\ Len(a) \in Nat /\ Len(b) \in Nat /\ Len(a \o b) = Len(a) + Len(b)
  OBVIOUS
<1>2. \A i \in 1..Len(a) : i \in 1..Len(a \o b) /\ (a \o b)[i] = a[i]
  OBVIOUS
<1>3. \A i \in 1..Len(b) : Len(a) + i \in 1..Len(a \o b) /\ (a \o b)[Len(a) + i] = b[i]
  OBVIOUS
<1>4. ASSUME NEW i \in 1..Len(a \o b), i \notin 1..Len(a)
      PROVE  \E j \in 1..Len(b) : i = Len(a) + j
  <2>1. i - Len(a) \in 1..Len(b) /\ i = Len(a) + (i - Len(a))
    BY <1>1, <1>4
  <2> QED BY <2>1
<1> QED BY <1>1, <1>2, <1>3, <1>4

(***************************************************************************)
(* Concatenations are thinned piece by piece.                              *)
(***************************************************************************)
LEMMA ThinsConcat ==
    ASSUME NEW M, NEW a \in Seq(M), NEW b \in Seq(M), NEW x \in Seq(M), NEW y \in Seq(M),
           NEW whole \in BOOLEAN, Thins(a, x, TRUE), Thins(b, y, whole)
    PROVE  Thins(a \o b, x \o y, whole)
<1>1. PICK f : Embeds(f, a, x, TRUE)
  BY DEF Thins
<1>2. PICK g : Embeds(g, b, y, whole)
  BY DEF Thins
<1>3. PICK p, r, A, B, X, Y : /\ p = a \o b /\ r = x \o y /\ A = Len(a) /\ B = Len(b)
                              /\ X = Len(x) /\ Y = Len(y)
  OBVIOUS
<1>4. /\ A \in Nat /\ B \in Nat /\ Len(p) = A + B
      /\ \A i \in 1..A : i \in 1..Len(p) /\ p[i] = a[i]
      /\ \A i \in 1..B : A + i \in 1..Len(p) /\ p[A + i] = b[i]
      /\ \A i \in 1..Len(p) : i \in 1..A \/ \E j \in 1..B : i = A + j
  BY <1>3, ConcatFacts
<1>5. /\ X \in Nat /\ Y \in Nat /\ Len(r) = X + Y
      /\ \A i \in 1..X : i \in 1..Len(r) /\ r[i] = x[i]
      /\ \A i \in 1..Y : X + i \in 1..Len(r) /\ r[X + i] = y[i]
      /\ \A i \in 1..Len(r) : i \in 1..X \/ \E j \in 1..Y : i = X + j
  BY <1>3, ConcatFacts
<1>6. /\ \A i \in 1..A : f[i] \in 1..X /\ a[i] = x[f[i]]
      /\ \A i, j \in 1..A : i < j => f[i] < f[j]
      /\ \A k \in 1..X : x[k].type # "DATA" => \E i \in 1..A : f[i] = k
  BY <1>1, <1>3 DEF Embeds
<1>7. /\ \A i \in 1..B : g[i] \in 1..Y /\ b[i] = y[g[i]]
      /\ \A i, j \in 1..B : i < j => g[i] < g[j]
      /\ \A k \in 1..Y : y[k].type # "DATA" =>
           (\E i \in 1..B : g[i] = k) \/ (~whole /\ \A i \in 1..B : g[i] < k)
  BY <1>2, <1>3 DEF Embeds
<1> DEFINE h == [i \in 1..Len(p) |-> IF i \in 1..A THEN f[i] ELSE X + g[i - A]]
<1>8. \A i \in 1..A : h[i] = f[i]
  BY <1>4
<1>9. \A i \in 1..B : h[A + i] = X + g[i]
  <2> TAKE i \in 1..B
  <2>1. A + i \notin 1..A /\ A + i \in 1..Len(p) /\ (A + i) - A = i
    BY <1>4
  <2> QED BY <2>1
<1>10. h = [i \in 1..Len(p) |-> h[i]]
  OBVIOUS
<1> HIDE DEF h
<1>11. \A i \in 1..Len(p) : h[i] \in 1..Len(r) /\ p[i] = r[h[i]]
  <2> TAKE i \in 1..Len(p)
  <2>1. CASE i \in 1..A
    <3>1. h[i] = f[i] /\ f[i] \in 1..X /\ p[i] = x[f[i]]
      BY <1>4, <1>6, <1>8, <2>1
    <3>2. f[i] \in 1..Len(r) /\ r[f[i]] = x[f[i]]
      BY <1>5, <3>1
    <3> QED BY <3>1, <3>2
  <2>2. CASE i \notin 1..A
    <3>1. PICK e \in 1..B : i = A + e
      BY <1>4, <2>2
    <3>2. h[i] = X + g[e] /\ g[e] \in 1..Y /\ p[i] = y[g[e]]
      BY <1>4, <1>7, <1>9, <3>1
    <3>3. X + g[e] \in 1..Len(r) /\ r[X + g[e]] = y[g[e]]
      BY <1>5, <3>2
    <3> QED BY <3>2, <3>3
  <2> QED BY <2>1, <2>2
<1>12. \A i, j \in 1..Len(p) : i < j => h[i] < h[j]
  <2> TAKE i, j \in 1..Len(p)
  <2> HAVE i < j
  <2>1. CASE i \in 1..A /\ j \in 1..A
    BY <1>6, <1>8, <2>1
  <2>2. CASE i \in 1..A /\ j \notin 1..A
    <3>1. PICK e \in 1..B : j = A + e
      BY <1>4, <2>2
    <3>2. h[i] \in 1..X /\ h[j] = X + g[e] /\ g[e] \in 1..Y
      BY <1>6, <1>7, <1>8, <1>9, <2>2, <3>1
    <3> QED BY <1>5, <3>2
  <2>3. CASE i \notin 1..A
    <3>1. PICK d \in 1..B : i = A + d
      BY <1>4, <2>3
    <3>2. j \notin 1..A
      BY <1>4, <2>3
    <3>3. PICK e \in 1..B : j = A + e
      BY <1>4, <3>2
    <3>4. d < e
      BY <1>4, <3>1, <3>3
    <3>5. g[d] < g[e] /\ g[d] \in 1..Y /\ g[e] \in 1..Y
      BY <1>7, <3>4
    <3>6. h[i] = X + g[d] /\ h[j] = X + g[e]
      BY <1>9, <3>1, <3>3
    <3>7. X \in Int /\ g[d] \in Int /\ g[e] \in Int
      BY <1>5, <3>5
    <3> QED BY ONLY <3>5, <3>6, <3>7
  <2> QED BY <1>4, <2>1, <2>2, <2>3
<1>13. ASSUME NEW k \in 1..Len(r), r[k].type # "DATA"
       PROVE  \/ \E i \in 1..Len(p) : h[i] = k
              \/ ~whole /\ \A i \in 1..Len(p) : h[i] < k
  <2>1. CASE k \in 1..X
    BY <1>4, <1>5, <1>6, <1>8, <1>13, <2>1
  <2>2. CASE k \notin 1..X
    <3>1. PICK e \in 1..Y : k = X + e
      BY <1>5, <2>2
    <3>2. y[e].type # "DATA"
      BY <1>5, <1>13, <3>1
    <3>3. CASE \E i \in 1..B : g[i] = e
      BY <1>4, <1>9, <3>1, <3>3
    <3>4. CASE ~whole /\ \A i \in 1..B : g[i] < e
      <4>1. \A i \in 1..Len(p) : h[i] < k
        <5> TAKE i \in 1..Len(p)
        <5>1. CASE i \in 1..A
          <6>1. h[i] \in 1..X
            BY <1>6, <1>8, <5>1
          <6> QED BY <1>5, <3>1, <6>1
        <5>2. CASE i \notin 1..A
          <6>1. PICK d \in 1..B : i = A + d
            BY <1>4, <5>2
          <6>2. g[d] < e /\ g[d] \in 1..Y /\ h[i] = X + g[d]
            BY <1>7, <1>9, <3>4, <6>1
          <6> QED BY <1>5, <3>1, <6>2
        <5> QED BY <5>1, <5>2
      <4> QED BY <3>4, <4>1
    <3> QED BY <1>7, <3>2, <3>3, <3>4
  <2> QED BY <2>1, <2>2
<1>14. Embeds(h, p, r, whole)
  <2>1. h \in [1..Len(p) -> 1..Len(r)]
    BY <1>10, <1>11
  <2> QED BY <1>11, <1>12, <1>13, <2>1 DEF Embeds
<1> QED BY <1>3, <1>14 DEF Thins

\* What is left of a beginning is what is left of the whole, cut short.
LEMMA ThinsPrefix ==
    ASSUME NEW M, NEW a \in Seq(M), NEW x \in Seq(M), NEW y \in Seq(M), Thins(a, x, TRUE)
    PROVE  Thins(a, x \o y, FALSE)
<1>1. PICK f : Embeds(f, a, x, TRUE)
  BY DEF Thins
<1>2. /\ Len(a) \in Nat /\ Len(x) \in Nat /\ Len(y) \in Nat /\ Len(x \o y) = Len(x) + Len(y)
      /\ \A k \in 1..Len(x) : (x \o y)[k] = x[k]
  OBVIOUS
<1>3. f \in [1..Len(a) -> 1..Len(x)] /\ \A i \in 1..Len(a) : f[i] \in 1..Len(x) /\ f[i] \in 1..Len(x \o y)
  BY <1>1, <1>2 DEF Embeds
<1>4. f \in [1..Len(a) -> 1..Len(x \o y)]
  BY <1>3
<1>5. \A i \in 1..Len(a) : a[i] = (x \o y)[f[i]]
  BY <1>1, <1>2, <1>3 DEF Embeds
<1>6. ASSUME NEW k \in 1..Len(x \o y), (x \o y)[k].type # "DATA"
      PROVE  (\E i \in 1..Len(a) : f[i] = k) \/ \A i \in 1..Len(a) : f[i] < k
  <2>1. CASE k \in 1..Len(x)
    BY <1>1, <1>2, <1>6, <2>1 DEF Embeds
  <2>2. CASE k \notin 1..Len(x)
    BY <1>2, <1>3, <2>2
  <2> QED BY <2>1, <2>2
<1>7. Embeds(f, a, x \o y, FALSE)
  BY <1>1, <1>4, <1>5, <1>6 DEF Embeds
<1> QED BY <1>7 DEF Thins

(***************************************************************************)
(* Selecting positions of q thins p, if the selected positions hold the    *)
(* messages of p, d places further on, and the others stand for DATA.      *)
(***************************************************************************)
LEMMA SelectedThins ==
    ASSUME NEW M, NEW q \in Seq(M), NEW p \in Seq(M), NEW d \in Nat, Len(q) = Len(p) + d,
           NEW I \in SUBSET (1..Len(q)),
           \A i \in I : i > d /\ q[i] = p[i - d],
           \A i \in 1..Len(p) : d + i \notin I => p[i].type = "DATA"
    PROVE  Thins(Selected(q, I), p, TRUE)
<1>1. PICK r : r = Selected(q, I)
  OBVIOUS
<1>2. PICK f : Picks(f, r, q, I)
  BY <1>1, SelectedPicks
<1>3. r \in Seq(M) /\ Len(r) \in Nat /\ Len(p) \in Nat
  BY <1>1, SelectedPicks
<1> DEFINE g == [j \in 1..Len(r) |-> f[j] - d]
<1>4. \A j \in 1..Len(r) : f[j] \in I /\ f[j] \in 1..Len(q) /\ f[j] > d /\ g[j] = f[j] - d
  BY <1>2 DEF Picks
<1>5. \A j \in 1..Len(r) : g[j] \in 1..Len(p) /\ r[j] = p[g[j]]
  <2> TAKE j \in 1..Len(r)
  <2>1. f[j] - d \in 1..Len(p)
    BY <1>3, <1>4
  <2>2. r[j] = q[f[j]] /\ q[f[j]] = p[f[j] - d]
    BY <1>2, <1>4 DEF Picks
  <2> QED BY <2>1, <2>2
<1>6. \A i, j \in 1..Len(r) : i < j => g[i] < g[j]
  <2> TAKE i, j \in 1..Len(r)
  <2> HAVE i < j
  <2>1. f[i] < f[j] /\ f[i] \in Int /\ f[j] \in Int
    BY <1>2, <1>4 DEF Picks
  <2> QED BY <1>4, <2>1
<1>7. ASSUME NEW k \in 1..Len(p), p[k].type # "DATA"
      PROVE  \E i \in 1..Len(r) : g[i] = k
  <2>1. d + k \in I
    BY <1>7
  <2>2. PICK i \in 1..Len(r) : f[i] = d + k
    BY <1>2, <2>1 DEF Picks
  <2>3. (d + k) - d = k
    BY <1>3
  <2> QED BY <2>2, <2>3
<1>8. g \in [1..Len(r) -> 1..Len(p)]
  BY <1>5
<1> HIDE DEF g
<1>9. Embeds(g, r, p, TRUE)
  BY <1>5, <1>6, <1>7, <1>8 DEF Embeds
<1> QED BY <1>1, <1>9 DEF Thins

(***************************************************************************)
(* The contents of queued messages, and what is left of them when only     *)
(* DATA messages are taken out of the queue.                               *)
(***************************************************************************)
Carry(W, T) == \A w \in W : w.msg \in T

\* The messages of a queue of (buffer, message) entries.
Msgs(q) == [i \in 1..Len(q) |-> q[i].msg]

\* The messages of a queue are as many as its entries, in the same order.
LEMMA MsgsFacts ==
    ASSUME NEW M, NEW E, NEW q \in Seq(E), Carry(E, M)
    PROVE  /\ Msgs(q) \in Seq(M) /\ Len(Msgs(q)) = Len(q) /\ Len(q) \in Nat
           /\ \A i \in 1..Len(q) : Msgs(q)[i] = q[i].msg
<1>1. \A i \in 1..Len(q) : q[i] \in E /\ q[i].msg \in M
  BY DEF Carry
<1>2. Len(q) \in Nat
  OBVIOUS
<1> QED BY <1>1, <1>2 DEF Msgs

\* A queue from which only data are removed has its messages without some data
\* (stopSendingData).
LEMMA KeptThins ==
    ASSUME NEW M, NEW E, NEW q \in Seq(E), Carry(E, M),
           NEW I \in SUBSET (1..Len(q)), \A i \in (1..Len(q)) \ I : q[i].msg.type = "DATA"
    PROVE  Selected(q, I) \in Seq(E) /\ Thins(Msgs(Selected(q, I)), Msgs(q), TRUE)
<1>1. PICK r : r = Selected(q, I)
  OBVIOUS
<1>2. PICK f : Picks(f, r, q, I)
  BY <1>1, SelectedPicks
<1>3. r \in Seq(E)
  BY <1>1, SelectedPicks
<1>4. /\ Msgs(r) \in Seq(M) /\ Msgs(q) \in Seq(M)
      /\ Len(Msgs(r)) = Len(r) /\ \A i \in 1..Len(r) : Msgs(r)[i] = r[i].msg
      /\ Len(Msgs(q)) = Len(q) /\ \A i \in 1..Len(q) : Msgs(q)[i] = q[i].msg
  BY <1>3, MsgsFacts
<1>5. f \in [1..Len(Msgs(r)) -> 1..Len(Msgs(q))]
  BY <1>2, <1>4 DEF Picks
<1>6. \A i \in 1..Len(Msgs(r)) : Msgs(r)[i] = Msgs(q)[f[i]]
  <2> TAKE i \in 1..Len(Msgs(r))
  <2>1. f[i] \in 1..Len(q) /\ r[i] = q[f[i]]
    BY <1>2, <1>4 DEF Picks
  <2> QED BY <1>4, <2>1
<1>7. ASSUME NEW k \in 1..Len(Msgs(q)), Msgs(q)[k].type # "DATA"
      PROVE  \E i \in 1..Len(Msgs(r)) : f[i] = k
  BY <1>2, <1>4, <1>7 DEF Picks
<1>8. Embeds(f, Msgs(r), Msgs(q), TRUE)
  BY <1>2, <1>4, <1>5, <1>6, <1>7 DEF Embeds, Picks
<1> QED BY <1>1, <1>3, <1>8 DEF Thins

-----------------------------------------------------------------------------
(***************************************************************************)
(* How many requests and answers a sequence of messages holds.             *)
(***************************************************************************)
Transit == {"REQUEST_DATA", "DATA_STATUS"}

\* The positions of the requests for data and of the answers to them.
Held(q) == {i \in 1..Len(q) : q[i].type \in Transit}

\* How many requests and answers q holds.
Count(q) == Cardinality(Held(q))

\* The count is a natural number, zero if there is neither a request nor an
\* answer.
LEMMA CountType ==
    ASSUME NEW M, NEW q \in Seq(M)
    PROVE  /\ IsFiniteSet(Held(q)) /\ Count(q) \in Nat
           /\ Count(q) = 0 <=> \A i \in 1..Len(q) : q[i].type \notin Transit
<1>1. IsFiniteSet(1..Len(q)) /\ Held(q) \in SUBSET (1..Len(q))
  BY FS_Interval DEF Held
<1>2. IsFiniteSet(Held(q))
  BY <1>1, FS_Subset
<1>3. Cardinality(Held(q)) \in Nat /\ (Cardinality(Held(q)) = 0 <=> Held(q) = {})
  BY <1>2, FS_CardinalityType, FS_EmptySet
<1> QED BY <1>2, <1>3 DEF Count, Held

\* The counts of two sequences add up.
LEMMA CountConcat ==
    ASSUME NEW M, NEW a \in Seq(M), NEW b \in Seq(M)
    PROVE  Count(a \o b) = Count(a) + Count(b)
<1>1. PICK p, A, B : p = a \o b /\ A = Len(a) /\ B = Len(b)
  OBVIOUS
<1>2. /\ A \in Nat /\ B \in Nat /\ Len(p) = A + B
      /\ \A i \in 1..A : i \in 1..Len(p) /\ p[i] = a[i]
      /\ \A i \in 1..B : A + i \in 1..Len(p) /\ p[A + i] = b[i]
      /\ \A i \in 1..Len(p) : i \in 1..A \/ \E j \in 1..B : i = A + j
  BY <1>1, ConcatFacts
<1>3. p \in Seq(M)
  BY <1>1
<1> DEFINE R == {i \in Held(p) : i > A}
           g == [i \in Held(b) |-> A + i]
<1>4. Held(p) = Held(a) \cup R /\ Held(a) \cap R = {}
  BY <1>1, <1>2 DEF Held
<1>5. g \in Bijection(Held(b), R)
  <2>1. \A i \in Held(b) : i \in 1..B /\ A + i \in R
    BY <1>1, <1>2 DEF Held
  <2>2. \A k \in R : \E i \in Held(b) : A + i = k
    <3> TAKE k \in R
    <3>1. k \in 1..Len(p) /\ k > A /\ p[k].type \in Transit
      BY DEF Held
    <3>2. PICK j \in 1..B : k = A + j
      BY <1>2, <3>1
    <3> QED BY <1>1, <1>2, <3>1, <3>2 DEF Held
  <2>3. g \in [Held(b) -> R]
    BY <2>1
  <2>4. \A i, j \in Held(b) : g[i] = g[j] => i = j
    BY <1>2, <2>1
  <2>5. \A k \in R : \E i \in Held(b) : g[i] = k
    BY <2>2
  <2> QED BY <2>3, <2>4, <2>5 DEF Bijection, Injection, Surjection, IsInjective
<1>6. IsFiniteSet(Held(b)) /\ IsFiniteSet(Held(a)) /\ Count(a) \in Nat /\ Count(b) \in Nat
  BY CountType
<1>7. IsFiniteSet(R) /\ Cardinality(R) = Cardinality(Held(b))
  BY <1>5, <1>6, FS_Bijection DEF ExistsBijection
<1> HIDE DEF R
<1>8. Cardinality(Held(a) \cup R) = Cardinality(Held(a)) + Cardinality(R) - Cardinality(Held(a) \cap R)
  BY <1>6, <1>7, FS_Union
<1>9. Cardinality({}) = 0
  BY FS_EmptySet
<1>10. Cardinality(Held(p)) = Cardinality(Held(a)) + Cardinality(R) - 0
  BY <1>4, <1>8, <1>9
<1> QED BY <1>1, <1>6, <1>7, <1>10 DEF Count

\* The count of a single message.
LEMMA CountOne ==
    ASSUME NEW m
    PROVE  Count(<<m>>) = IF m.type \in Transit THEN 1 ELSE 0
<1>1. Held(<<m>>) = IF m.type \in Transit THEN {1} ELSE {}
  BY DEF Held
<1>2. Cardinality({1}) = 1 /\ Cardinality({}) = 0
  BY FS_Singleton, FS_EmptySet
<1> QED BY <1>1, <1>2 DEF Count

\* Nothing holds no request.
LEMMA CountEmpty == Count(<<>>) = 0
<1>1. Held(<<>>) = {}
  BY DEF Held
<1> QED BY <1>1, FS_EmptySet DEF Count

(***************************************************************************)
(* q has a request or answer where p has one, d places further on, and I   *)
(* selects all of them.                                                    *)
(***************************************************************************)
Aligned(q, p, d, I) ==
    /\ \A i \in 1..d : q[i].type \notin Transit
    /\ \A i \in 1..Len(p) : q[d + i].type \in Transit <=> p[i].type \in Transit
    /\ \A i \in 1..Len(q) : q[i].type \in Transit => i \in I

\* Selecting the positions that p stands for keeps the count of p.
LEMMA CountSelected ==
    ASSUME NEW M, NEW q \in Seq(M), NEW p \in Seq(M), NEW d \in Nat, Len(q) = Len(p) + d,
           NEW I \in SUBSET (1..Len(q)), Aligned(q, p, d, I)
    PROVE  Count(Selected(q, I)) = Count(p)
<1>1. PICK r : r = Selected(q, I)
  OBVIOUS
<1>2. PICK f : Picks(f, r, q, I)
  BY <1>1, SelectedPicks
<1>3. r \in Seq(M) /\ Len(r) \in Nat /\ Len(p) \in Nat
  BY <1>1, SelectedPicks
<1> USE DEF Aligned
<1> DEFINE g == [j \in Held(r) |-> f[j] - d]
<1>4. \A j \in 1..Len(r) : f[j] \in 1..Len(q) /\ r[j] = q[f[j]]
  BY <1>2 DEF Picks
<1>5. \A j \in Held(r) : j \in 1..Len(r) /\ f[j] - d \in Held(p)
  <2> TAKE j \in Held(r)
  <2>1. j \in 1..Len(r) /\ f[j] \in 1..Len(q) /\ q[f[j]].type \in Transit
    BY <1>4 DEF Held
  <2>2. f[j] \notin 1..d
    BY <2>1
  <2>3. PICK e \in 1..Len(p) : f[j] = d + e
    <3>1. f[j] - d \in 1..Len(p) /\ f[j] = d + (f[j] - d)
      BY <1>3, <2>1, <2>2
    <3> QED BY <3>1
  <2>4. e \in Held(p)
    BY <2>1, <2>3 DEF Held
  <2> QED BY <1>3, <2>1, <2>3, <2>4
<1>6. g \in [Held(r) -> Held(p)]
  BY <1>5
<1>7. \A i, j \in Held(r) : g[i] = g[j] => i = j
  <2> TAKE i, j \in Held(r)
  <2> HAVE g[i] = g[j]
  <2>1. i \in 1..Len(r) /\ j \in 1..Len(r)
    BY <1>5
  <2>2. f[i] - d = f[j] - d
    OBVIOUS
  <2>3. f[i] = f[j]
    BY <1>4, <2>1, <2>2
  <2>4. ~(i < j) /\ ~(j < i)
    BY <1>2, <1>4, <2>1, <2>3 DEF Picks
  <2> QED BY <1>3, <2>1, <2>4
<1>8. \A k \in Held(p) : \E i \in Held(r) : g[i] = k
  <2> TAKE k \in Held(p)
  <2>1. k \in 1..Len(p) /\ p[k].type \in Transit
    BY DEF Held
  <2>2. d + k \in I /\ q[d + k].type \in Transit
    BY <2>1
  <2>3. PICK i \in 1..Len(r) : f[i] = d + k
    BY <1>2, <2>2 DEF Picks
  <2>4. i \in Held(r)
    BY <1>4, <2>2, <2>3 DEF Held
  <2>5. (d + k) - d = k
    BY <1>3, <2>1
  <2> QED BY <2>3, <2>4, <2>5
<1>9. g \in Bijection(Held(r), Held(p))
  BY <1>6, <1>7, <1>8 DEF Bijection, Injection, Surjection, IsInjective
<1>10. IsFiniteSet(Held(r))
  BY <1>3, CountType
<1> QED BY <1>1, <1>9, <1>10, FS_Bijection DEF ExistsBijection, Count

\* Sequences that hold requests and answers at the same positions have the same
\* count.
LEMMA CountSame ==
    ASSUME NEW a, NEW b, Len(a) = Len(b),
           \A i \in 1..Len(a) : a[i].type \in Transit <=> b[i].type \in Transit
    PROVE  Count(a) = Count(b)
<1>1. Held(a) = Held(b)
  BY DEF Held
<1> QED BY <1>1 DEF Count

\* Leaving out data drops no request and no answer; cutting short may.
LEMMA ThinsCount ==
    ASSUME NEW M, NEW t \in Seq(M), NEW s \in Seq(M), NEW whole \in BOOLEAN, Thins(t, s, whole)
    PROVE  Count(t) <= Count(s) /\ (whole => Count(t) = Count(s))
<1>1. PICK f : Embeds(f, t, s, whole)
  BY DEF Thins
<1>2. /\ \A i \in 1..Len(t) : f[i] \in 1..Len(s) /\ t[i] = s[f[i]]
      /\ \A i, j \in 1..Len(t) : i < j => f[i] < f[j]
      /\ \A k \in 1..Len(s) : s[k].type # "DATA" =>
           (\E i \in 1..Len(t) : f[i] = k) \/ (~whole /\ \A i \in 1..Len(t) : f[i] < k)
  BY <1>1 DEF Embeds
<1>3. Len(t) \in Nat /\ Len(s) \in Nat
  OBVIOUS
<1> DEFINE g == [i \in Held(t) |-> f[i]]
<1>4. \A i \in Held(t) : i \in 1..Len(t) /\ f[i] \in Held(s)
  BY <1>2 DEF Held
<1>5. g \in [Held(t) -> Held(s)]
  BY <1>4
<1>6. \A i, j \in Held(t) : g[i] = g[j] => i = j
  <2> TAKE i, j \in Held(t)
  <2> HAVE g[i] = g[j]
  <2>1. i \in 1..Len(t) /\ j \in 1..Len(t) /\ f[i] = f[j] /\ f[i] \in 1..Len(s)
    BY <1>2, <1>4
  <2>2. ~(i < j) /\ ~(j < i)
    BY <1>2, <1>3, <2>1
  <2> QED BY <1>3, <2>1, <2>2
<1>7. g \in Injection(Held(t), Held(s))
  BY <1>5, <1>6 DEF Injection, IsInjective
<1>8. IsFiniteSet(Held(t)) /\ IsFiniteSet(Held(s))
  BY CountType
<1>9. Count(t) <= Count(s)
  BY <1>7, <1>8, FS_Injection DEF Count
<1>10. ASSUME whole PROVE Count(t) = Count(s)
  <2>1. \A k \in Held(s) : \E i \in Held(t) : g[i] = k
    <3> TAKE k \in Held(s)
    <3>1. k \in 1..Len(s) /\ s[k].type # "DATA" /\ s[k].type \in Transit
      BY DEF Held, Transit
    <3>2. PICK i \in 1..Len(t) : f[i] = k
      BY <1>2, <1>10, <3>1
    <3>3. i \in Held(t)
      BY <1>2, <3>1, <3>2 DEF Held
    <3> QED BY <3>2, <3>3
  <2>2. g \in Bijection(Held(t), Held(s))
    BY <1>5, <1>6, <2>1 DEF Bijection, Injection, Surjection, IsInjective
  <2> QED BY <1>8, <2>2, FS_Bijection DEF ExistsBijection, Count
<1> QED BY <1>9, <1>10

\* Sequences with the same elements are the same.
LEMMA SameSequence ==
    ASSUME NEW M, NEW a \in Seq(M), NEW b \in Seq(M), Len(a) = Len(b), \A i \in 1..Len(a) : a[i] = b[i]
    PROVE  a = b
OBVIOUS

\* A sequence is its first c elements followed by the others.
LEMMA SplitFacts ==
    ASSUME NEW M, NEW r \in Seq(M), NEW c \in 0..Len(r)
    PROVE  /\ SubSeq(r, 1, c) \in Seq(M) /\ Len(SubSeq(r, 1, c)) = c
           /\ \A i \in 1..c : SubSeq(r, 1, c)[i] = r[i]
           /\ SubSeq(r, c + 1, Len(r)) \in Seq(M) /\ Len(SubSeq(r, c + 1, Len(r))) = Len(r) - c
           /\ \A i \in 1..Len(r) - c : SubSeq(r, c + 1, Len(r))[i] = r[c + i]
           /\ r = SubSeq(r, 1, c) \o SubSeq(r, c + 1, Len(r))
<1>1. PICK x, y : x = SubSeq(r, 1, c) /\ y = SubSeq(r, c + 1, Len(r))
  OBVIOUS
<1>2. Len(r) \in Nat /\ c \in Nat /\ c <= Len(r)
  OBVIOUS
<1>3. x \in Seq(M) /\ Len(x) = c /\ \A i \in 1..c : x[i] = r[i]
  BY <1>1, <1>2
<1>4. y \in Seq(M) /\ Len(y) = Len(r) - c /\ \A i \in 1..Len(r) - c : y[i] = r[c + i]
  <2>1. y = [i \in 1..Len(r) - c |-> r[c + i]]
    BY <1>1, <1>2
  <2>2. \A i \in 1..Len(r) - c : r[c + i] \in M
    BY <1>2
  <2>3. Len(r) - c \in Nat
    BY <1>2
  <2> QED BY <2>1, <2>2, <2>3
<1>5. /\ x \o y \in Seq(M) /\ Len(x \o y) = Len(x) + Len(y)
      /\ \A i \in 1..Len(x) : (x \o y)[i] = x[i]
      /\ \A i \in 1..Len(y) : (x \o y)[Len(x) + i] = y[i]
      /\ \A i \in 1..Len(x \o y) : i \in 1..Len(x) \/ \E j \in 1..Len(y) : i = Len(x) + j
  <2>1. x \in Seq(M) /\ y \in Seq(M)
    BY <1>3, <1>4
  <2>2. x \o y \in Seq(M) /\ Len(x \o y) = Len(x) + Len(y)
    BY ONLY <2>1, ConcatFacts
  <2>3. \A i \in 1..Len(x) : (x \o y)[i] = x[i]
    BY ONLY <2>1, ConcatFacts
  <2>4. \A i \in 1..Len(y) : (x \o y)[Len(x) + i] = y[i]
    BY ONLY <2>1, ConcatFacts
  <2>5. \A i \in 1..Len(x \o y) : i \in 1..Len(x) \/ \E j \in 1..Len(y) : i = Len(x) + j
    BY ONLY <2>1, ConcatFacts
  <2> QED BY ONLY <2>2, <2>3, <2>4, <2>5
<1>6. Len(x \o y) = Len(r)
  BY <1>2, <1>3, <1>4, <1>5
<1>7. \A i \in 1..Len(r) : (x \o y)[i] = r[i]
  <2> TAKE i \in 1..Len(r)
  <2>1. CASE i \in 1..Len(x)
    BY <1>3, <1>5, <2>1
  <2>2. CASE \E j \in 1..Len(y) : i = Len(x) + j
    <3>1. PICK j \in 1..Len(y) : i = Len(x) + j
      BY <2>2
    <3>2. (x \o y)[i] = y[j] /\ y[j] = r[c + j] /\ i = c + j
      BY <1>3, <1>4, <1>5, <3>1
    <3> QED BY <3>2
  <2> QED BY <1>5, <1>6, <2>1, <2>2
<1>8. r = x \o y
  <2>1. r \in Seq(M) /\ x \o y \in Seq(M) /\ Len(r) = Len(x \o y) /\ \A i \in 1..Len(r) : r[i] = (x \o y)[i]
    BY <1>5, <1>6, <1>7
  <2> QED BY ONLY <2>1, SameSequence
<1> QED BY <1>1, <1>3, <1>4, <1>8

-----------------------------------------------------------------------------
(***************************************************************************)
(* The loop of doSend.  pending is the message in progress, if any, and    *)
(* the queued ones; R is what they should say, without the message in      *)
(* progress if it is delivered (then d = 1, otherwise d = 0).              *)
(***************************************************************************)
Delivered(pending, n, pos) == IF n < Len(pending) /\ pos = Body THEN n + 1 ELSE n

\* The messages an output puts on the wire before the unreadable ones are left
\* out (see Emitted).
Sent(pending, n, pos, text) ==
    [i \in 1..Delivered(pending, n, pos) |->
       IF i = 1 THEN (IF pending[1].pos < Body THEN text
                      ELSE IF text = pending[1].msg THEN Cleared ELSE Garbled)
       ELSE pending[i].msg]

\* The positions of the messages the receiver can read.
Kept(sent) == {i \in 1..Len(sent) : sent[i].type # "UNKNOWN"}

\* sent is what c of the pending messages look like to the receiver.
SentIs(sent, c, pending, text, T) ==
    /\ c \in 0..Len(pending)
    /\ sent \in Seq(T) /\ Len(sent) = c
    /\ \A i \in 1..c : sent[i] = IF i = 1 THEN (IF pending[1].pos < Body THEN text
                                               ELSE IF text = pending[1].msg THEN Cleared ELSE Garbled)
                                 ELSE pending[i].msg

\* Emitted is what was sent without the messages the receiver cannot read.
LEMMA EmittedFacts ==
    ASSUME NEW T, Cleared \in T, Garbled \in T, NEW W, Carry(W, T),
           NEW pending \in Seq(W), NEW n \in 0..Len(pending), NEW pos, NEW text \in T
    PROVE  /\ SentIs(Sent(pending, n, pos, text), Delivered(pending, n, pos), pending, text, T)
           /\ Emitted(pending, n, pos, text) = Selected(Sent(pending, n, pos, text), Kept(Sent(pending, n, pos, text)))
<1> DEFINE c     == Delivered(pending, n, pos)
           first == IF pending[1].pos < Body THEN text ELSE IF text = pending[1].msg THEN Cleared ELSE Garbled
           sent  == [i \in 1..c |-> IF i = 1 THEN first ELSE pending[i].msg]
<1>1. Len(pending) \in Nat /\ n \in Nat
  OBVIOUS
<1>2. c \in 0..Len(pending)
  BY <1>1 DEF Delivered
<1>3. first \in T
  OBVIOUS
<1>4. Emitted(pending, n, pos, text) = Selected(sent, {i \in 1..c : sent[i].type # "UNKNOWN"})
  BY DEF Emitted, Delivered
<1>5. Sent(pending, n, pos, text) = sent /\ \A i \in 1..c : sent[i] = IF i = 1 THEN first ELSE pending[i].msg
  BY DEF Sent
<1> HIDE DEF c, first
<1>6. \A i \in 1..c : (IF i = 1 THEN first ELSE pending[i].msg) \in T
  <2> TAKE i \in 1..c
  <2>1. i \in 1..Len(pending)
    BY <1>1, <1>2
  <2>2. pending[i] \in W
    BY <2>1
  <2> QED BY <1>3, <2>2 DEF Carry
<1>7. sent \in Seq(T) /\ Len(sent) = c
  BY <1>2, <1>6
<1>8. {i \in 1..c : sent[i].type # "UNKNOWN"} = Kept(sent)
  BY <1>7 DEF Kept
<1> HIDE DEF sent
<1> QED BY <1>2, <1>4, <1>5, <1>7, <1>8 DEF c, first, SentIs

(***************************************************************************)
(* The first c pending messages say what R says, or are cleared DATA.      *)
(***************************************************************************)
Faithful(pending, c, R, d) ==
    \A i \in 1..c : i > d =>
        /\ R[i - d].type # "UNKNOWN"
        /\ pending[i].msg = R[i - d] \/ (pending[i].msg = Cleared /\ R[i - d].type = "DATA")

\* The message being sent is the one pending first, of which d messages are
\* already delivered.
FirstIs(pending, text, d) ==
    pending # <<>> => text = pending[1].msg /\ (d = 0 <=> pending[1].pos < Body)

\* When no pending message was replaced, the receiver gets the unsent ones
\* without some data.
LEMMA EmittedThins ==
    ASSUME NEW T, Cleared \in T, Garbled \in T, NEW W, Carry(W, T),
           NEW pending \in Seq(W), NEW n \in 0..Len(pending), NEW pos, NEW text \in T,
           NEW R \in Seq(T), NEW d \in {0, 1}, Len(pending) = Len(R) + d,
           FirstIs(pending, text, d), d <= Delivered(pending, n, pos), Faithful(pending, Delivered(pending, n, pos), R, d)
    PROVE  /\ Delivered(pending, n, pos) - d \in 0..Len(R)
           /\ Emitted(pending, n, pos, text) \in Seq(T)
           /\ Thins(Emitted(pending, n, pos, text), SubSeq(R, 1, Delivered(pending, n, pos) - d), TRUE)
<1> DEFINE c    == Delivered(pending, n, pos)
           sent == Sent(pending, n, pos, text)
           I    == Kept(sent)
           p    == SubSeq(R, 1, c - d)
<1>0. SentIs(sent, c, pending, text, T) /\ Emitted(pending, n, pos, text) = Selected(sent, I)
  BY EmittedFacts
<1> HIDE DEF c, sent
<1>1. /\ c \in 0..Len(pending) /\ sent \in Seq(T) /\ Len(sent) = c
      /\ Emitted(pending, n, pos, text) = Selected(sent, I)
  BY <1>0 DEF SentIs
<1>2. Len(R) \in Nat /\ Len(pending) \in Nat /\ c \in Nat /\ c <= Len(pending) /\ d \in Nat /\ d <= c
  BY <1>1 DEF c
<1>3. \A i \in 1..c : sent[i] = IF i = 1 THEN (IF pending[1].pos < Body THEN text
                                                 ELSE IF text = pending[1].msg THEN Cleared ELSE Garbled)
                                   ELSE pending[i].msg
  BY <1>0 DEF SentIs
<1>4. c - d \in 0..Len(R)
  BY <1>2
<1>5. p \in Seq(T) /\ Len(p) = c - d /\ \A i \in 1..c - d : p[i] = R[i]
  BY <1>4, SplitFacts
<1>6. \A i \in 1..c : i > d => sent[i] = pending[i].msg
  <2> TAKE i \in 1..c
  <2> HAVE i > d
  <2>1. CASE i = 1
    <3>1. d = 0 /\ pending # <<>>
      BY <1>2, <2>1
    <3> QED BY <1>3, <2>1, <3>1 DEF FirstIs
  <2>2. CASE i # 1
    BY <1>3, <2>2
  <2> QED BY <2>1, <2>2
<1>7. Cleared.type = "UNKNOWN"
  BY DEF Cleared
<1>8. \A i \in 1..c : i <= d => sent[i] = Cleared
  <2> TAKE i \in 1..c
  <2> HAVE i <= d
  <2>1. i = 1 /\ d = 1 /\ pending # <<>>
    BY <1>2
  <2> QED BY <1>3, <2>1 DEF FirstIs
<1>9. \A i \in 1..c : i > d => i - d \in 1..c - d /\ i \in 1..Len(pending) /\ p[i - d] = R[i - d]
  BY <1>2, <1>5
<1>15. \A i \in 1..c : i > d =>
        /\ R[i - d].type # "UNKNOWN"
        /\ pending[i].msg = R[i - d] \/ (pending[i].msg = Cleared /\ R[i - d].type = "DATA")
  BY DEF Faithful, c
<1>10. \A i \in I : i > d /\ sent[i] = p[i - d]
  <2> TAKE i \in I
  <2>1. i \in 1..c /\ sent[i].type # "UNKNOWN"
    BY <1>1 DEF Kept
  <2>2. i > d
    BY <1>2, <1>7, <1>8, <2>1
  <2>3. pending[i].msg = R[i - d]
    BY <1>6, <1>7, <1>15, <2>1, <2>2
  <2> QED BY <1>6, <1>9, <2>1, <2>2, <2>3
<1>11. \A i \in 1..Len(p) : d + i \notin I => p[i].type = "DATA"
  <2> TAKE i \in 1..Len(p)
  <2>1. d + i \in 1..c /\ d + i > d /\ (d + i) - d = i
    BY <1>2, <1>5
  <2>2. sent[d + i] = pending[d + i].msg /\ p[i] = R[i] /\ d + i \in 1..Len(pending)
    BY <1>6, <1>9, <2>1
  <2>3. CASE pending[d + i].msg = R[i]
    BY <1>1, <1>15, <2>1, <2>2, <2>3 DEF Kept
  <2>4. CASE R[i].type = "DATA"
    BY <2>2, <2>4
  <2> QED BY <1>15, <2>1, <2>3, <2>4
<1>12. I \in SUBSET (1..Len(sent)) /\ Len(sent) = Len(p) + d
  BY <1>1, <1>2, <1>5 DEF Kept
<1> HIDE DEF I, p
<1>13. Thins(Selected(sent, I), p, TRUE)
  BY <1>1, <1>2, <1>5, <1>10, <1>11, <1>12, SelectedThins
<1>14. Selected(sent, I) \in Seq(T)
  BY <1>1, <1>12, SelectedPicks
<1> QED BY <1>1, <1>4, <1>13, <1>14 DEF c, p

(***************************************************************************)
(* The pending messages are requests or answers where those of R are.      *)
(***************************************************************************)
Matches(pending, R, d) ==
    \A i \in 1..Len(pending) : i > d => (pending[i].msg.type \in Transit <=> R[i - d].type \in Transit)

\* Replaced or not, the receiver gets as many requests and answers as were
\* unsent.
LEMMA EmittedCount ==
    ASSUME NEW T, Cleared \in T, Garbled \in T, NEW W, Carry(W, T),
           NEW pending \in Seq(W), NEW n \in 0..Len(pending), NEW pos, NEW text \in T,
           NEW R \in Seq(T), NEW d \in {0, 1}, Len(pending) = Len(R) + d,
           pending # <<>> => /\ text.type \in Transit <=> pending[1].msg.type \in Transit
                             /\ d = 0 <=> pending[1].pos < Body,
           d <= Delivered(pending, n, pos),
           Matches(pending, R, d)
    PROVE  /\ Delivered(pending, n, pos) - d \in 0..Len(R)
           /\ Emitted(pending, n, pos, text) \in Seq(T)
           /\ Count(Emitted(pending, n, pos, text)) = Count(SubSeq(R, 1, Delivered(pending, n, pos) - d))
<1> DEFINE c    == Delivered(pending, n, pos)
           sent == Sent(pending, n, pos, text)
           I    == Kept(sent)
           p    == SubSeq(R, 1, c - d)
<1>0. SentIs(sent, c, pending, text, T) /\ Emitted(pending, n, pos, text) = Selected(sent, I)
  BY EmittedFacts
<1> HIDE DEF c, sent
<1>1. /\ c \in 0..Len(pending) /\ sent \in Seq(T) /\ Len(sent) = c
      /\ Emitted(pending, n, pos, text) = Selected(sent, I)
  BY <1>0 DEF SentIs
<1>2. Len(R) \in Nat /\ Len(pending) \in Nat /\ c \in Nat /\ c <= Len(pending) /\ d \in Nat /\ d <= c
  BY <1>1 DEF c
<1>3. \A i \in 1..c : sent[i] = IF i = 1 THEN (IF pending[1].pos < Body THEN text
                                                 ELSE IF text = pending[1].msg THEN Cleared ELSE Garbled)
                                   ELSE pending[i].msg
  BY <1>0 DEF SentIs
<1>4. c - d \in 0..Len(R)
  BY <1>2
<1>5. p \in Seq(T) /\ Len(p) = c - d /\ \A i \in 1..c - d : p[i] = R[i]
  BY <1>4, SplitFacts
<1>6. \A i \in 1..c : i > d => (sent[i].type \in Transit <=> pending[i].msg.type \in Transit)
  <2> TAKE i \in 1..c
  <2> HAVE i > d
  <2>1. CASE i = 1
    <3>1. d = 0 /\ pending # <<>>
      BY <1>2, <2>1
    <3> QED BY <1>3, <2>1, <3>1
  <2>2. CASE i # 1
    BY <1>3, <2>2
  <2> QED BY <2>1, <2>2
<1>7. \A i \in 1..d : sent[i].type \notin Transit
  <2> TAKE i \in 1..d
  <2>1. i = 1 /\ d = 1 /\ pending # <<>> /\ i \in 1..c
    BY <1>2
  <2>2. sent[i] \in {Cleared, Garbled}
    <3>1. ~(pending[1].pos < Body)
      BY <2>1
    <3>2. sent[i] = IF text = pending[1].msg THEN Cleared ELSE Garbled
      BY <1>3, <2>1, <3>1
    <3> QED BY ONLY <3>2
  <2> QED BY <2>2 DEF Cleared, Garbled, Transit
<1>8. \A i \in 1..Len(p) : sent[d + i].type \in Transit <=> p[i].type \in Transit
  <2> TAKE i \in 1..Len(p)
  <2>1. d + i \in 1..c /\ d + i > d /\ (d + i) - d = i /\ d + i \in 1..Len(pending) /\ p[i] = R[i]
    BY <1>2, <1>5
  <2> QED BY <1>6, <2>1 DEF Matches
<1>9. \A i \in 1..Len(sent) : sent[i].type \in Transit => i \in I
  BY <1>1 DEF Transit, Kept
<1>10. I \in SUBSET (1..Len(sent)) /\ Len(sent) = Len(p) + d
  BY <1>1, <1>2, <1>5 DEF Kept
<1> HIDE DEF I, p
<1>11. Count(Selected(sent, I)) = Count(p)
  <2>1. Aligned(sent, p, d, I)
    BY <1>7, <1>8, <1>9 DEF Aligned
  <2> QED BY <1>1, <1>2, <1>5, <1>10, <2>1, CountSelected
<1>12. Selected(sent, I) \in Seq(T)
  BY <1>1, <1>10, SelectedPicks
<1> QED BY <1>1, <1>4, <1>11, <1>12 DEF c, p

\* An output that completes no message emits none.
LEMMA NothingEmitted ==
    ASSUME NEW pending, NEW n, NEW pos, NEW text, Delivered(pending, n, pos) = 0
    PROVE  Emitted(pending, n, pos, text) = <<>>
<1> DEFINE c     == Delivered(pending, n, pos)
           first == IF pending[1].pos < Body THEN text ELSE IF text = pending[1].msg THEN Cleared ELSE Garbled
           sent  == [i \in 1..c |-> IF i = 1 THEN first ELSE pending[i].msg]
<1>1. Emitted(pending, n, pos, text) = Selected(sent, {i \in 1..c : sent[i].type # "UNKNOWN"})
  BY DEF Emitted, Delivered
<1> HIDE DEF sent
<1>2. {i \in 1..c : sent[i].type # "UNKNOWN"} = {}
  OBVIOUS
<1>3. Cardinality({}) = 0
  BY FS_EmptySet
<1> QED BY <1>1, <1>2, <1>3 DEF Selected

(***************************************************************************)
(* What is left after the loop: the new message in progress (V), unless it *)
(* is delivered, and the queue without the messages that were loaded.  Q   *)
(* and W are the queue and the message in progress before (b = 1 if there  *)
(* is one, and d = 1 if it was delivered already).                         *)
(***************************************************************************)
LoadedOf(n, b, len) ==
    LET last == IF n < b + len THEN n + 1 ELSE n
    IN  IF last > b THEN last - b ELSE 0

(***************************************************************************)
(* One call of the handler: n whole messages and the next one up to pos,   *)
(* of K queued ones and, if b = 1, one in progress of which the rest (d =  *)
(* 0) or nothing (d = 1) is still to be delivered; c of them are delivered *)
(* and e, at most one, is in progress afterwards.                          *)
(***************************************************************************)
OutputShape(n, b, d, c, pos, K, A, e) ==
    /\ b \in {0, 1} /\ d \in {0, 1} /\ d <= b /\ A = b - d
    /\ n \in 0..b + K /\ d <= c
    /\ c = IF n < b + K /\ pos = Body THEN n + 1 ELSE n
    /\ e = IF n < b + K /\ pos # Body THEN 1 ELSE 0

\* What an output leaves unsent, as the messages it does not deliver.
RestIs(V, R, k, X, Y) ==
    /\ Len(V) = 1 => k \in 1..Len(R)
    /\ (Len(V) = 1 => V[1] = R[k]) => X = Y
    /\ (Len(V) = 1 => (V[1].type \in Transit <=> R[k].type \in Transit)) => Count(X) = Count(Y)

\* The writer and the queue after an output hold the unsent messages after the
\* delivered ones.
LEMMA OutputRest ==
    ASSUME NEW M, NEW Q \in Seq(M), NEW W \in Seq(M), NEW V \in Seq(M), NEW b \in Nat, NEW d \in Nat, NEW c \in Nat, NEW n \in Nat, NEW pos,
           OutputShape(n, b, d, c, pos, Len(Q), Len(W), Len(V)),
           NEW l, l = LoadedOf(n, b, Len(Q)), NEW R, R = W \o Q,
           NEW X, X = V \o SubSeq(Q, l + 1, Len(Q)), NEW Y, Y = SubSeq(R, c - d + 1, Len(R))
    PROVE  /\ l \in 0..Len(Q)
           /\ X \in Seq(M) /\ Y \in Seq(M) /\ R \in Seq(M) /\ c - d \in 0..Len(R)
           /\ RestIs(V, R, n + 1 - d, X, Y)
<1>1. PICK K, A, e : K = Len(Q) /\ A = Len(W) /\ e = Len(V)
  OBVIOUS
<1>0. /\ b \in {0, 1} /\ d \in {0, 1} /\ d <= b /\ d <= c /\ R = W \o Q /\ l = LoadedOf(n, b, K)
      /\ A = b - d /\ n \in 0..b + K /\ e = (IF n < b + K /\ pos # Body THEN 1 ELSE 0)
      /\ c = (IF n < b + K /\ pos = Body THEN n + 1 ELSE n)
  BY <1>1 DEF OutputShape
<1>2. /\ K \in Nat /\ A \in Nat /\ R \in Seq(M) /\ Len(R) = A + K
      /\ \A i \in 1..K : A + i \in 1..Len(R) /\ R[A + i] = Q[i]
  <2>1. Q \in Seq(M) /\ W \in Seq(M) /\ R = W \o Q /\ K = Len(Q) /\ A = Len(W)
    BY <1>1
  <2> QED BY ONLY <2>1, ConcatFacts
<1>3. A = b - d /\ n \in 0..b + K /\ e = (IF n < b + K /\ pos # Body THEN 1 ELSE 0)
      /\ c = (IF n < b + K /\ pos = Body THEN n + 1 ELSE n)
  BY <1>0
<1>4. l \in 0..K /\ l - e = c - b /\ c \in Nat /\ l \in Nat /\ e \in Nat
  <2>1. l = IF (IF n < b + K THEN n + 1 ELSE n) > b THEN (IF n < b + K THEN n + 1 ELSE n) - b ELSE 0
    BY <1>0 DEF LoadedOf
  <2>2. CASE n < b + K
    BY <1>0, <1>2, <2>1, <2>2
  <2>3. CASE n = b + K
    BY <1>0, <1>2, <2>1, <2>3
  <2> QED BY <1>0, <1>2, <2>2, <2>3
<1>5. c - d \in 0..Len(R)
  BY <1>0, <1>2, <1>4
<1>6. PICK Z : Z = SubSeq(Q, l + 1, K)
  OBVIOUS
<1>7. Z \in Seq(M) /\ Len(Z) = K - l /\ \A i \in 1..K - l : Z[i] = Q[l + i]
  BY <1>1, <1>4, <1>6, SplitFacts
<1>8. X = V \o Z /\ V \in Seq(M)
  BY <1>1, <1>6
<1>9. /\ X \in Seq(M) /\ Len(X) = e + Len(Z)
      /\ \A i \in 1..e : X[i] = V[i]
      /\ \A i \in 1..Len(Z) : X[e + i] = Z[i]
      /\ \A i \in 1..Len(X) : i \in 1..e \/ \E j \in 1..Len(Z) : i = e + j
  <2>1. e = Len(V) /\ Z \in Seq(M) /\ V \in Seq(M) /\ X = V \o Z
    BY <1>1, <1>7, <1>8
  <2> QED BY ONLY <2>1, ConcatFacts
<1>10. Y \in Seq(M) /\ Len(Y) = Len(R) - (c - d) /\ \A i \in 1..Len(R) - (c - d) : Y[i] = R[(c - d) + i]
  BY <1>1, <1>2, <1>5, SplitFacts
<1>11. Len(X) = Len(Y)
  <2>1. Len(Z) = K - l /\ Len(X) = e + Len(Z) /\ Len(Y) = Len(R) - (c - d)
    BY <1>7, <1>9, <1>10
  <2>2. b \in Int /\ d \in Int
    BY <1>0
  <2>3. K \in Int /\ A \in Int /\ Len(R) = A + K /\ A = b - d /\ l \in Int /\ e \in Int /\ c \in Int /\ l - e = c - b
    BY <1>2, <1>3, <1>4
  <2> QED BY ONLY <2>1, <2>2, <2>3
<1>12. \A j \in 1..Len(Z) : X[e + j] = Y[e + j]
  <2> TAKE j \in 1..Len(Z)
  <2>1. X[e + j] = Q[l + j] /\ l + j \in 1..K
    <3>1. j \in 1..K - l /\ X[e + j] = Z[j]
      BY <1>7, <1>9
    <3>2. Z[j] = Q[l + j]
      BY <1>7, <3>1
    <3>3. l + j \in 1..K
      BY ONLY <1>2, <1>4, <3>1
    <3> QED BY ONLY <3>1, <3>2, <3>3
  <2>2. e + j \in 1..Len(Y) /\ Y[e + j] = R[(c - d) + (e + j)]
    <3>1. Len(X) \in Nat /\ e + j \in 1..Len(X)
      BY ONLY <1>2, <1>4, <1>7, <1>9, j \in 1..Len(Z)
    <3>2. Len(Y) = Len(R) - (c - d) /\ \A i \in 1..Len(R) - (c - d) : Y[i] = R[(c - d) + i]
      BY <1>10
    <3> QED BY ONLY <1>11, <3>1, <3>2
  <2>3. (c - d) + (e + j) = A + (l + j)
    <3>1. j \in Nat
      BY <1>2, <1>4, <1>7
    <3>2. A = b - d /\ l - e = c - b /\ l \in Nat /\ e \in Nat
      BY <1>0, <1>4
    <3> QED BY ONLY <3>1, <3>2, b \in Nat, c \in Nat, d \in Nat
  <2> QED BY <1>2, <2>1, <2>2, <2>3
<1>13. e = 1 => n + 1 - d \in 1..Len(R) /\ Y[1] = R[n + 1 - d]
  <2> HAVE e = 1
  <2>1. c = n /\ n < b + K
    BY <1>0
  <2>2. n + 1 - d \in 1..Len(R) /\ (c - d) + 1 = n + 1 - d /\ 1 \in 1..Len(R) - (c - d)
    BY <1>0, <1>2, <1>4, <1>5, <2>1
  <2> QED BY <1>10, <2>2
<1>14. ASSUME e = 1 => V[1] = R[n + 1 - d] PROVE X = Y
  <2>1. \A i \in 1..Len(X) : X[i] = Y[i]
    <3> TAKE i \in 1..Len(X)
    <3>1. CASE i \in 1..e
      <4>1. i = 1 /\ e = 1
        BY <1>3, <3>1
      <4> QED BY ONLY <1>9, <1>13, <1>14, <4>1
    <3>2. CASE \E j \in 1..Len(Z) : i = e + j
      BY <1>12, <3>2
    <3> QED BY <1>9, <3>1, <3>2
  <2> QED BY ONLY <1>9, <1>10, <1>11, <2>1, SameSequence
<1>15. ASSUME e = 1 => (V[1].type \in Transit <=> R[n + 1 - d].type \in Transit) PROVE Count(X) = Count(Y)
  <2>1. \A i \in 1..Len(X) : X[i].type \in Transit <=> Y[i].type \in Transit
    <3> TAKE i \in 1..Len(X)
    <3>1. CASE i \in 1..e
      <4>1. i = 1 /\ e = 1
        BY <1>3, <3>1
      <4> QED BY ONLY <1>9, <1>13, <1>15, <4>1
    <3>2. CASE \E j \in 1..Len(Z) : i = e + j
      BY <1>12, <3>2
    <3> QED BY <1>9, <3>1, <3>2
  <2> QED BY <1>11, <2>1, CountSame
<1>16. RestIs(V, R, n + 1 - d, X, Y)
  BY <1>1, <1>13, <1>14, <1>15 DEF RestIs
<1> QED BY <1>1, <1>2, <1>4, <1>5, <1>9, <1>10, <1>16

\* r is q from position d + 1 to c.
Cut(r, q, d, c) == r = [j \in 1..c - d |-> q[d + j]]

\* Selecting an interval of positions is cutting that interval out.
LEMMA SelectedInterval ==
    ASSUME NEW q, NEW d \in Nat, NEW c \in Nat, d <= c, NEW r, r = Selected(q, d + 1..c)
    PROVE  Cut(r, q, d, c)
<1> DEFINE I == d + 1..c
           Rank(i) == Cardinality({k \in I : k <= i})
<1>1. Cardinality(I) = c - d
  <2>1. PICK a : a = d + 1
    OBVIOUS
  <2>2. a \in Int /\ c \in Int
    BY <2>1
  <2>3. Cardinality(a..c) = IF a > c THEN 0 ELSE c - a + 1
    BY <2>2, FS_Interval
  <2> QED BY <2>1, <2>3
<1>2. \A i \in I : Rank(i) = i - d
  <2> TAKE i \in I
  <2>1. {k \in I : k <= i} = d + 1..i
    OBVIOUS
  <2>2. Cardinality(d + 1..i) = i - d
    BY FS_Interval
  <2> QED BY <2>1, <2>2
<1>3. r = [j \in 1..Cardinality(I) |-> q[CHOOSE i \in I : Rank(i) = j]]
  BY DEF Selected
<1> HIDE DEF Rank
<1>4. ASSUME NEW j \in 1..c - d PROVE (CHOOSE i \in I : Rank(i) = j) = d + j
  <2>1. d + j \in I /\ Rank(d + j) = j
    BY <1>2
  <2>2. \A i \in I : Rank(i) = j => i = d + j
    BY <1>2
  <2> HIDE DEF I
  <2>3. PICK i : i = CHOOSE e \in I : Rank(e) = j
    OBVIOUS
  <2>4. i \in I /\ Rank(i) = j
    BY <2>1, <2>3
  <2> QED BY <2>2, <2>3, <2>4
<1> HIDE DEF I
<1> QED BY <1>1, <1>3, <1>4 DEF Cut

\* p stands for R, the first d of its messages not included; all of R is sent.
Conveys(p, R, d, M) ==
    /\ \A m \in M : m.type # "UNKNOWN"
    /\ \A i \in 1..Len(p) : i > d => p[i].msg = R[i - d]

\* An output that replaces nothing and leaves out nothing emits a beginning of
\* the unsent messages.
LEMMA EmittedAll ==
    ASSUME NEW M, NEW T, Cleared \in T, Garbled \in T,
           NEW W, Carry(W, T), NEW pending \in Seq(W),
           NEW n \in 0..Len(pending), NEW pos, NEW text \in T,
           NEW R \in Seq(M), NEW d \in {0, 1}, Len(pending) = Len(R) + d,
           FirstIs(pending, text, d),
           NEW c, c = Delivered(pending, n, pos), d <= c, Conveys(pending, R, d, M)
    PROVE  c - d \in 0..Len(R) /\ Emitted(pending, n, pos, text) = SubSeq(R, 1, c - d)
<1>0. /\ pending # <<>> => text = pending[1].msg /\ (d = 0 <=> pending[1].pos < Body)
      /\ \A m \in M : m.type # "UNKNOWN"
      /\ \A i \in 1..Len(pending) : i > d => pending[i].msg = R[i - d]
  BY DEF FirstIs, Conveys
<1>1. PICK s : s = Sent(pending, n, pos, text)
  OBVIOUS
<1>2. /\ c \in 0..Len(pending) /\ s \in Seq(T) /\ Len(s) = c
      /\ \A i \in 1..c : s[i] = IF i = 1 THEN (IF pending[1].pos < Body THEN text
                                               ELSE IF text = pending[1].msg THEN Cleared ELSE Garbled)
                                 ELSE pending[i].msg
      /\ Emitted(pending, n, pos, text) = Selected(s, Kept(s))
  <2>1. /\ SentIs(s, c, pending, text, T) /\ Emitted(pending, n, pos, text) = Selected(s, Kept(s))
    BY ONLY <1>1, Cleared \in T, Garbled \in T, Carry(W, T), pending \in Seq(W), n \in 0..Len(pending), text \in T,
            c = Delivered(pending, n, pos), EmittedFacts
  <2> QED BY <2>1 DEF SentIs
<1>3. Len(pending) \in Nat /\ c \in Nat /\ Len(R) \in Nat /\ d \in Nat /\ c - d \in 0..Len(R)
  BY <1>2
<1>4. \A i \in 1..c : i > d => s[i] = R[i - d] /\ R[i - d] \in M
  <2> TAKE i \in 1..c
  <2> HAVE i > d
  <2>1. i \in 1..Len(pending) /\ i - d \in 1..Len(R) /\ pending # <<>>
    BY <1>2, <1>3
  <2>2. pending[i].msg = R[i - d] /\ R[i - d] \in M
    BY <1>0, <2>1
  <2>3. CASE i = 1
    <3>1. d = 0 /\ s[1] = text
      BY <1>0, <1>2, <2>1, <2>3
    <3> QED BY <1>0, <2>1, <2>2, <2>3, <3>1
  <2>4. CASE i # 1
    BY <1>2, <2>2, <2>4
  <2> QED BY <2>3, <2>4
<1>5. Kept(s) = d + 1..c
  <2>1. ASSUME NEW i \in 1..c, i > d PROVE s[i].type # "UNKNOWN"
    BY <1>0, <1>4, <2>1
  <2>2. d = 1 => s[1] = Cleared
    <3> HAVE d = 1
    <3>1. pending # <<>> /\ 1 \in 1..c
      BY <1>2, <1>3
    <3> QED BY <1>0, <1>2, <3>1
  <2>3. Cleared.type = "UNKNOWN"
    BY DEF Cleared
  <2> QED BY <1>2, <1>3, <2>1, <2>2, <2>3 DEF Kept
<1>6. Selected(s, Kept(s)) = [j \in 1..c - d |-> s[d + j]]
  <2>1. PICK r : r = Selected(s, d + 1..c)
    OBVIOUS
  <2>2. r = [j \in 1..c - d |-> s[d + j]]
    <3>1. Cut(r, s, d, c)
      BY <1>3, <2>1, SelectedInterval
    <3> QED BY ONLY <3>1 DEF Cut
  <2> QED BY ONLY <1>5, <2>1, <2>2
<1>7. PICK A : A = SubSeq(R, 1, c - d)
  OBVIOUS
<1>8. A \in Seq(M) /\ Len(A) = c - d /\ \A i \in 1..c - d : A[i] = R[i]
  BY <1>3, <1>7, SplitFacts
<1>9. \A j \in 1..c - d : s[d + j] = A[j]
  <2> TAKE j \in 1..c - d
  <2>1. PICK i : i = d + j
    OBVIOUS
  <2>2. i \in 1..c /\ i > d /\ i - d = j
    BY <1>3, <2>1
  <2>3. s[i] = R[i - d]
    BY <1>4, <2>2
  <2> QED BY <1>8, <2>1, <2>2, <2>3
<1>10. A = [j \in 1..c - d |-> A[j]]
  BY <1>8
<1>11. [j \in 1..c - d |-> s[d + j]] = [j \in 1..c - d |-> A[j]]
  BY <1>9
<1> QED BY ONLY <1>2, <1>3, <1>6, <1>7, <1>10, <1>11

-----------------------------------------------------------------------------
\* The remainder of a division is the only one in its range.
LEMMA ModUnique ==
    ASSUME NEW m \in Nat, m > 0, NEW q \in Int, NEW r \in 0..m - 1
    PROVE  (m * q + r) % m = r
<1> DEFINE x == m * q + r
<1>1. x \in Int /\ m * q \in Int
  OBVIOUS
<1>2. PICK d \in Int : d = x \div m
  BY <1>1
<1>3. PICK e \in 0..m - 1 : e = x % m
  BY <1>1
<1>4. x = m * d + e
  BY <1>1, <1>2, <1>3
<1>5. m * d \in Int /\ m * (q - d) = e - r
  BY <1>1, <1>4
<1> HIDE DEF x
<1>6. q - d < 1
  <2>1. SUFFICES ASSUME q - d >= 1 PROVE FALSE
    OBVIOUS
  <2>2. m * (q - d) >= m
    BY <2>1
  <2> QED BY <1>5, <2>2
<1>7. q - d > -1
  <2>1. SUFFICES ASSUME q - d <= -1 PROVE FALSE
    OBVIOUS
  <2>2. m * (q - d) <= -m
    BY <2>1
  <2> QED BY <1>5, <2>2
<1>8. q = d
  BY <1>6, <1>7
<1>9. r = e
  BY <1>5, <1>8
<1> QED BY <1>3, <1>9 DEF x
\* The successor of a remainder is the remainder of the successor (the
\* timestamps of the ticks).
LEMMA ModSucc ==
    ASSUME NEW a \in Nat, NEW m \in Nat, m > 1
    PROVE  (a + 1) % m = ((a % m) + 1) % m
<1>1. PICK q \in Int, r \in 0..m - 1 : q = a \div m /\ r = a % m /\ a = m * q + r
  OBVIOUS
<1>2. m * q \in Int
  OBVIOUS
<1>3. CASE r + 1 < m
  <2>1. a + 1 = m * q + (r + 1) /\ r + 1 \in 0..m - 1
    BY <1>1, <1>2, <1>3
  <2>0. (m * q + (r + 1)) % m = r + 1
    <3>1. \A z \in 0..m - 1 : (m * q + z) % m = z
      BY ModUnique
    <3> HIDE <1>1, <1>2
    <3> QED BY <2>1, <3>1
  <2>2. (a + 1) % m = r + 1
    BY <2>0, <2>1
  <2>3. (m * 0 + (r + 1)) % m = r + 1
    BY <1>3, ModUnique
  <2> QED BY <1>1, <2>2, <2>3
<1>4. CASE r + 1 = m
  <2>1. m * (q + 1) = m * q + m
    OBVIOUS
  <2>2. a + 1 = m * (q + 1) + 0
    BY <1>1, <1>2, <1>4, <2>1
  <2>3. (a + 1) % m = 0
    BY <2>2, ModUnique
  <2>4. (m * 1 + 0) % m = 0
    BY ModUnique
  <2> QED BY <1>1, <1>4, <2>3, <2>4
<1> QED BY <1>3, <1>4

-----------------------------------------------------------------------------
(***************************************************************************)
(* What the two ends of a connection still have to say to each other: the  *)
(* messages on the wire, the one in the writer unless it is delivered, and *)
(* the queued ones as they were when they were queued.  An end that has    *)
(* disconnected says nothing more than what is on the wire.                *)
(***************************************************************************)
Planned(s, d) ==
    IF s.state = "DISCONNECTED" THEN d ELSE d \o (Undelivered(s.writer) \o Msgs(s.sendQueue))

\* What the client still has to say.
Asked(k, u) ==
    IF k.state = "DISCONNECTED" THEN u ELSE u \o (Undelivered(k.writer) \o k.sendQueue)

\* The positions of the update ticks.
Ticks(P)    == {i \in 1..Len(P) : P[i].type = "UPDATE_TICK"}
\* The positions of the data.
Datas(P)    == {i \in 1..Len(P) : P[i].type = "DATA"}
\* The positions of the answers to requests for data.
Statuses(P) == {i \in 1..Len(P) : P[i].type = "DATA_STATUS"}

(***************************************************************************)
(* The ticks of P are consecutive, follow the last one the client has seen *)
(* (tick, 0 if none) and, unless the session is over, end with version v.  *)
(***************************************************************************)
TicksFollow(P, tick, live, v) ==
    /\ \A i \in Ticks(P) : /\ P[i].version \in 1..v
                           /\ P[i].timestamp = P[i].version % TimestampMod
    /\ \A i, j \in Ticks(P) : i < j => P[i].version < P[j].version
    /\ \A i \in Ticks(P) : \/ \E j \in Ticks(P) : j < i /\ P[j].version = P[i].version - 1
                           \/ /\ \A j \in Ticks(P) : ~(j < i)
                              /\ tick # 0 => P[i].version = tick + 1
    /\ live => \/ \E i \in Ticks(P) : P[i].version = v
               \/ Ticks(P) = {} /\ (tick # 0 => tick = v)

(***************************************************************************)
(* Each DATA of P belongs to the tick before it.                           *)
(***************************************************************************)
DataFollow(P, tick, v) ==
    /\ \A i \in Datas(P) : P[i].version \in 0..v
    /\ \A i \in Datas(P), j \in Ticks(P) : IF j < i THEN P[j].version <= P[i].version
                                           ELSE P[i].version < P[j].version
    /\ \A i \in Datas(P) : \/ \E j \in Ticks(P) : j < i /\ P[j].version = P[i].version
                           \/ /\ \A j \in Ticks(P) : ~(j < i)
                              /\ tick # 0 => P[i].version = tick

(***************************************************************************)
(* The client will have agreed to each DATA of P when it arrives, and to   *)
(* what the session may send at the next update (d, and u for a difference *)
(* rather than a full list): the flags kd and ku it has now, or those of   *)
(* the DATA_STATUS before.                                                 *)
(***************************************************************************)
FlagsAgree(P, kd, ku) ==
    \A i \in Datas(P) :
        /\ \A j \in Statuses(P) : j < i => P[j].dataFlags /\ (P[i].isUpdate => P[j].dataUpdateFlags)
        /\ (\A j \in Statuses(P) : ~(j < i)) => kd /\ (P[i].isUpdate => ku)

\* The data the session will send (d, and as an update if u) will be allowed
\* when they arrive.
FlagsReady(P, kd, ku, d, u) ==
    d => /\ \A j \in Statuses(P) : P[j].dataFlags /\ (u => P[j].dataUpdateFlags)
         /\ Statuses(P) = {} => kd /\ (u => ku)

-----------------------------------------------------------------------------

(***************************************************************************)
(* How these facts survive what may happen to P: messages are dropped, one *)
(* is appended, the first one is taken.                                    *)
(***************************************************************************)
LEMMA ThinTicks ==
    ASSUME NEW M, NEW P \in Seq(M), NEW Q \in Seq(M), NEW whole \in BOOLEAN, Thins(Q, P, whole),
           NEW tick, NEW live \in BOOLEAN, NEW after \in BOOLEAN, after => live /\ whole,
           NEW v, TicksFollow(P, tick, live, v)
    PROVE  TicksFollow(Q, tick, after, v)
<1>1. PICK f : Embeds(f, Q, P, whole)
  BY DEF Thins
<1>2. /\ \A i \in 1..Len(Q) : f[i] \in 1..Len(P) /\ Q[i] = P[f[i]]
      /\ \A i, j \in 1..Len(Q) : i < j => f[i] < f[j]
      /\ \A k \in 1..Len(P) : P[k].type # "DATA" =>
           (\E i \in 1..Len(Q) : f[i] = k) \/ (~whole /\ \A i \in 1..Len(Q) : f[i] < k)
  BY <1>1 DEF Embeds
<1>3. \A i \in Ticks(Q) : i \in 1..Len(Q) /\ f[i] \in Ticks(P) /\ Q[i] = P[f[i]]
  BY <1>2 DEF Ticks
<1>4. \A k \in Ticks(P) : (\E i \in Ticks(Q) : f[i] = k) \/ (~whole /\ \A i \in 1..Len(Q) : f[i] < k)
  BY <1>2 DEF Ticks
<1>5. \A i, j \in 1..Len(Q) : f[j] < f[i] => j < i
  <2> TAKE i, j \in 1..Len(Q)
  <2> HAVE f[j] < f[i]
  <2>1. ~(i < j) /\ i # j
    BY <1>2
  <2> QED BY <2>1
<1>6. \A i \in Ticks(Q) : P[f[i]].version \in 1..v /\ P[f[i]].timestamp = P[f[i]].version % TimestampMod
  BY <1>3 DEF TicksFollow
<1>7. \A i, j \in Ticks(Q) : i < j => P[f[i]].version < P[f[j]].version
  BY <1>2, <1>3 DEF TicksFollow
<1>8. ASSUME NEW i \in Ticks(Q)
      PROVE  \/ \E j \in Ticks(Q) : j < i /\ Q[j].version = Q[i].version - 1
             \/ (\A j \in Ticks(Q) : ~(j < i)) /\ (tick # 0 => Q[i].version = tick + 1)
  <2>1. f[i] \in Ticks(P) /\ Q[i] = P[f[i]] /\ i \in 1..Len(Q)
    BY <1>3
  <2>2. CASE \E k \in Ticks(P) : k < f[i] /\ P[k].version = P[f[i]].version - 1
    <3>1. PICK k \in Ticks(P) : k < f[i] /\ P[k].version = P[f[i]].version - 1
      BY <2>2
    <3>2. ~(f[i] < k)
      BY <1>2, <2>1, <3>1 DEF Ticks
    <3>3. PICK j \in Ticks(Q) : f[j] = k
      BY <1>4, <2>1, <3>1, <3>2
    <3>4. j < i
      BY <1>3, <1>5, <2>1, <3>1, <3>3
    <3> QED BY <1>3, <2>1, <3>1, <3>3, <3>4
  <2>3. CASE (\A k \in Ticks(P) : ~(k < f[i])) /\ (tick # 0 => P[f[i]].version = tick + 1)
    <3>1. \A j \in Ticks(Q) : ~(j < i)
      BY <1>2, <1>3, <2>1, <2>3
    <3> QED BY <2>1, <2>3, <3>1
  <2> QED BY <2>1, <2>2, <2>3 DEF TicksFollow
<1>9. ASSUME after
      PROVE  \/ \E i \in Ticks(Q) : Q[i].version = v
             \/ Ticks(Q) = {} /\ (tick # 0 => tick = v)
  <2>1. CASE \E k \in Ticks(P) : P[k].version = v
    BY <1>3, <1>4, <1>9, <2>1
  <2>2. CASE Ticks(P) = {} /\ (tick # 0 => tick = v)
    BY <1>3, <2>2
  <2> QED BY <1>9, <2>1, <2>2 DEF TicksFollow
<1> QED BY <1>3, <1>6, <1>7, <1>8, <1>9 DEF TicksFollow

\* Leaving out data keeps the remaining data after their ticks.
LEMMA ThinData ==
    ASSUME NEW M, NEW P \in Seq(M), NEW Q \in Seq(M), NEW whole \in BOOLEAN, Thins(Q, P, whole),
           NEW tick, NEW v, DataFollow(P, tick, v)
    PROVE  DataFollow(Q, tick, v)
<1>1. PICK f : Embeds(f, Q, P, whole)
  BY DEF Thins
<1>2. /\ \A i \in 1..Len(Q) : f[i] \in 1..Len(P) /\ Q[i] = P[f[i]]
      /\ \A i, j \in 1..Len(Q) : i < j => f[i] < f[j]
      /\ \A k \in 1..Len(P) : P[k].type # "DATA" =>
           (\E i \in 1..Len(Q) : f[i] = k) \/ (~whole /\ \A i \in 1..Len(Q) : f[i] < k)
  BY <1>1 DEF Embeds
<1>3. /\ \A i \in Ticks(Q) : i \in 1..Len(Q) /\ f[i] \in Ticks(P) /\ Q[i] = P[f[i]]
      /\ \A i \in Datas(Q) : i \in 1..Len(Q) /\ f[i] \in Datas(P) /\ Q[i] = P[f[i]]
  BY <1>2 DEF Ticks, Datas
<1>4. \A k \in Ticks(P) : (\E i \in Ticks(Q) : f[i] = k) \/ (~whole /\ \A i \in 1..Len(Q) : f[i] < k)
  BY <1>2 DEF Ticks
<1>5. \A i, j \in 1..Len(Q) : j < i <=> f[j] < f[i]
  <2> TAKE i, j \in 1..Len(Q)
  <2>1. ASSUME f[j] < f[i] PROVE j < i
    <3>1. ~(i < j) /\ i # j
      BY <1>2, <2>1
    <3> QED BY <3>1
  <2> QED BY <1>2, <2>1
<1>6. \A i \in Datas(Q) : Q[i].version \in 0..v
  BY <1>3 DEF DataFollow
<1>7. \A i \in Datas(Q), j \in Ticks(Q) : IF j < i THEN Q[j].version <= Q[i].version
                                          ELSE Q[i].version < Q[j].version
  BY <1>3, <1>5 DEF DataFollow
<1>8. ASSUME NEW i \in Datas(Q)
      PROVE  \/ \E j \in Ticks(Q) : j < i /\ Q[j].version = Q[i].version
             \/ (\A j \in Ticks(Q) : ~(j < i)) /\ (tick # 0 => Q[i].version = tick)
  <2>1. f[i] \in Datas(P) /\ Q[i] = P[f[i]] /\ i \in 1..Len(Q)
    BY <1>3
  <2>2. CASE \E k \in Ticks(P) : k < f[i] /\ P[k].version = P[f[i]].version
    <3>1. PICK k \in Ticks(P) : k < f[i] /\ P[k].version = P[f[i]].version
      BY <2>2
    <3>2. ~(f[i] < k)
      BY <1>2, <2>1, <3>1 DEF Ticks
    <3>3. PICK j \in Ticks(Q) : f[j] = k
      BY <1>4, <2>1, <3>1, <3>2
    <3>4. j < i
      BY <1>3, <1>5, <2>1, <3>1, <3>3
    <3> QED BY <1>3, <2>1, <3>1, <3>3, <3>4
  <2>3. CASE (\A k \in Ticks(P) : ~(k < f[i])) /\ (tick # 0 => P[f[i]].version = tick)
    <3>1. \A j \in Ticks(Q) : ~(j < i)
      BY <1>2, <1>3, <2>1, <2>3
    <3> QED BY <2>1, <2>3, <3>1
  <2> QED BY <2>1, <2>2, <2>3 DEF DataFollow
<1> QED BY <1>6, <1>7, <1>8 DEF DataFollow

\* Leaving out data keeps the agreement on what may be sent.
LEMMA ThinFlags ==
    ASSUME NEW M, NEW P \in Seq(M), NEW Q \in Seq(M), NEW whole \in BOOLEAN, Thins(Q, P, whole),
           NEW kd, NEW ku
    PROVE  /\ FlagsAgree(P, kd, ku) => FlagsAgree(Q, kd, ku)
           /\ whole => \A d, u : FlagsReady(P, kd, ku, d, u) => FlagsReady(Q, kd, ku, d, u)
<1>1. PICK f : Embeds(f, Q, P, whole)
  BY DEF Thins
<1>2. /\ \A i \in 1..Len(Q) : f[i] \in 1..Len(P) /\ Q[i] = P[f[i]]
      /\ \A i, j \in 1..Len(Q) : i < j => f[i] < f[j]
      /\ \A k \in 1..Len(P) : P[k].type # "DATA" =>
           (\E i \in 1..Len(Q) : f[i] = k) \/ (~whole /\ \A i \in 1..Len(Q) : f[i] < k)
  BY <1>1 DEF Embeds
<1>3. /\ \A i \in Statuses(Q) : i \in 1..Len(Q) /\ f[i] \in Statuses(P) /\ Q[i] = P[f[i]]
      /\ \A i \in Datas(Q) : i \in 1..Len(Q) /\ f[i] \in Datas(P) /\ Q[i] = P[f[i]]
  BY <1>2 DEF Statuses, Datas
<1>4. \A k \in Statuses(P) : (\E i \in Statuses(Q) : f[i] = k) \/ (~whole /\ \A i \in 1..Len(Q) : f[i] < k)
  BY <1>2 DEF Statuses
<1>5. \A i, j \in 1..Len(Q) : j < i <=> f[j] < f[i]
  <2> TAKE i, j \in 1..Len(Q)
  <2>1. ASSUME f[j] < f[i] PROVE j < i
    <3>1. ~(i < j) /\ i # j
      BY <1>2, <2>1
    <3> QED BY <3>1
  <2> QED BY <1>2, <2>1
<1>6. ASSUME FlagsAgree(P, kd, ku), NEW i \in Datas(Q)
      PROVE  /\ \A j \in Statuses(Q) : j < i => Q[j].dataFlags /\ (Q[i].isUpdate => Q[j].dataUpdateFlags)
             /\ (\A j \in Statuses(Q) : ~(j < i)) => kd /\ (Q[i].isUpdate => ku)
  <2>1. f[i] \in Datas(P) /\ Q[i] = P[f[i]] /\ i \in 1..Len(Q) /\ f[i] \in 1..Len(P)
    BY <1>2, <1>3
  <2>2. \A j \in Statuses(Q) : j < i => Q[j].dataFlags /\ (Q[i].isUpdate => Q[j].dataUpdateFlags)
    BY <1>3, <1>5, <1>6, <2>1 DEF FlagsAgree
  <2>3. ASSUME \A j \in Statuses(Q) : ~(j < i)
        PROVE  \A k \in Statuses(P) : ~(k < f[i])
    <3> TAKE k \in Statuses(P)
    <3>1. SUFFICES ASSUME k < f[i] PROVE FALSE
      OBVIOUS
    <3>2. ~(f[i] < k)
      BY <2>1, <3>1 DEF Statuses
    <3>3. PICK j \in Statuses(Q) : f[j] = k
      BY <1>4, <2>1, <3>2
    <3> QED BY <1>3, <1>5, <2>1, <2>3, <3>1, <3>3
  <2> QED BY <1>6, <2>1, <2>2, <2>3 DEF FlagsAgree
<1>7. ASSUME whole, NEW d, NEW u, FlagsReady(P, kd, ku, d, u)
      PROVE  FlagsReady(Q, kd, ku, d, u)
  <2>1. \A k \in Statuses(P) : \E i \in Statuses(Q) : f[i] = k
    BY <1>4, <1>7
  <2> QED BY <1>3, <1>7, <2>1 DEF FlagsReady
<1> QED BY <1>6, <1>7 DEF FlagsAgree

\* The elements of a sequence with one more element.
LEMMA AppendFacts ==
    ASSUME NEW M, NEW P \in Seq(M), NEW m \in M
    PROVE  /\ Append(P, m) \in Seq(M) /\ Len(P) \in Nat /\ Len(Append(P, m)) = Len(P) + 1
           /\ \A i \in 1..Len(P) : i \in 1..Len(P) + 1 /\ i < Len(P) + 1 /\ Append(P, m)[i] = P[i]
           /\ Len(P) + 1 \in 1..Len(P) + 1 /\ Append(P, m)[Len(P) + 1] = m
           /\ \A i \in 1..Len(P) + 1 : i \in 1..Len(P) \/ i = Len(P) + 1
OBVIOUS

\* The tick of the next update follows the ticks on their way.
LEMMA AppendTick ==
    ASSUME NEW M, NEW P \in Seq(M), NEW m \in M, NEW tick \in Nat, NEW v \in Nat,
           m.type = "UPDATE_TICK", m.version = v + 1, m.timestamp = (v + 1) % TimestampMod,
           TicksFollow(P, tick, TRUE, v), DataFollow(P, tick, v), NEW kd, NEW ku, FlagsAgree(P, kd, ku)
    PROVE  /\ TicksFollow(Append(P, m), tick, TRUE, v + 1)
           /\ DataFollow(Append(P, m), tick, v + 1)
           /\ FlagsAgree(Append(P, m), kd, ku)
           /\ Statuses(Append(P, m)) = Statuses(P)
           /\ \A i \in Statuses(P) : Append(P, m)[i] = P[i]
<1>1. PICK Q, n : Q = Append(P, m) /\ n = Len(P) + 1
  OBVIOUS
<1>2. /\ n \in Nat /\ Len(Q) = n /\ Q[n] = m
      /\ \A i \in 1..Len(P) : i \in 1..n /\ i < n /\ Q[i] = P[i]
      /\ n \in 1..n /\ \A i \in 1..n : i \in 1..Len(P) \/ i = n
  BY <1>1, AppendFacts
<1>3. /\ Ticks(Q) = Ticks(P) \cup {n} /\ Datas(Q) = Datas(P) /\ Statuses(Q) = Statuses(P)
      /\ \A i \in Ticks(P) \cup Datas(P) \cup Statuses(P) : i \in Nat /\ i < n /\ Q[i] = P[i]
  BY <1>2 DEF Ticks, Datas, Statuses
<1>4. TicksFollow(Q, tick, TRUE, v + 1)
  <2>1. \A i \in Ticks(P) : P[i].version \in 1..v
    BY DEF TicksFollow
  <2>2. \A i \in Ticks(Q) : Q[i].version \in 1..v + 1 /\ Q[i].timestamp = Q[i].version % TimestampMod
    BY <1>2, <1>3 DEF TicksFollow
  <2>3. \A i, j \in Ticks(Q) : i < j => Q[i].version < Q[j].version
    <3> TAKE i, j \in Ticks(Q)
    <3> HAVE i < j
    <3>1. i \in Ticks(P)
      BY <1>2, <1>3
    <3>2. CASE j = n
      <4>1. Q[i] = P[i] /\ P[i].version \in 1..v /\ Q[j].version = v + 1
        BY <1>2, <1>3, <2>1, <3>1, <3>2
      <4> QED BY <4>1
    <3>3. CASE j \in Ticks(P)
      BY <1>3, <3>1, <3>3 DEF TicksFollow
    <3> QED BY <1>3, <3>2, <3>3
  <2>4. ASSUME NEW i \in Ticks(P)
        PROVE  \/ \E j \in Ticks(Q) : j < i /\ Q[j].version = Q[i].version - 1
               \/ (\A j \in Ticks(Q) : ~(j < i)) /\ (tick # 0 => Q[i].version = tick + 1)
    <3>1. CASE \E j \in Ticks(P) : j < i /\ P[j].version = P[i].version - 1
      BY <1>3, <3>1
    <3>2. CASE (\A j \in Ticks(P) : ~(j < i)) /\ (tick # 0 => P[i].version = tick + 1)
      <4>1. ~(n < i)
        BY <1>2, <1>3
      <4> QED BY <1>3, <3>2, <4>1
    <3> QED BY <3>1, <3>2 DEF TicksFollow
  <2>5. \/ \E j \in Ticks(Q) : j < n /\ Q[j].version = Q[n].version - 1
        \/ (\A j \in Ticks(Q) : ~(j < n)) /\ (tick # 0 => Q[n].version = tick + 1)
    <3>0. Q[n].version = v + 1 /\ (v + 1) - 1 = v
      BY <1>2
    <3>1. CASE \E j \in Ticks(P) : P[j].version = v
      BY <1>3, <3>0, <3>1
    <3>2. CASE Ticks(P) = {} /\ (tick # 0 => tick = v)
      BY <1>2, <1>3, <3>0, <3>2
    <3> QED BY <3>1, <3>2 DEF TicksFollow
  <2>6. \E i \in Ticks(Q) : Q[i].version = v + 1
    BY <1>2, <1>3
  <2> QED BY <1>3, <2>2, <2>3, <2>4, <2>5, <2>6 DEF TicksFollow
<1>5. DataFollow(Q, tick, v + 1)
  <2>1. \A i \in Datas(P) : P[i].version \in 0..v /\ P[i].version \in 0..v + 1 /\ Q[i] = P[i] /\ ~(n < i)
    BY <1>2, <1>3 DEF DataFollow
  <2>2. \A i \in Datas(Q), j \in Ticks(Q) : IF j < i THEN Q[j].version <= Q[i].version
                                            ELSE Q[i].version < Q[j].version
    <3> TAKE i \in Datas(Q), j \in Ticks(Q)
    <3>1. CASE j = n
      BY <1>2, <1>3, <2>1, <3>1
    <3>2. CASE j \in Ticks(P)
      BY <1>3, <3>2 DEF DataFollow
    <3> QED BY <1>3, <3>1, <3>2
  <2>3. ASSUME NEW i \in Datas(Q)
        PROVE  \/ \E j \in Ticks(Q) : j < i /\ Q[j].version = Q[i].version
               \/ (\A j \in Ticks(Q) : ~(j < i)) /\ (tick # 0 => Q[i].version = tick)
    <3>1. i \in Datas(P)
      BY <1>3
    <3>2. CASE \E j \in Ticks(P) : j < i /\ P[j].version = P[i].version
      BY <1>3, <3>1, <3>2
    <3>3. CASE (\A j \in Ticks(P) : ~(j < i)) /\ (tick # 0 => P[i].version = tick)
      BY <1>3, <2>1, <3>1, <3>3
    <3> QED BY <3>1, <3>2, <3>3 DEF DataFollow
  <2> QED BY <1>3, <2>1, <2>2, <2>3 DEF DataFollow
<1>6. FlagsAgree(Q, kd, ku)
  BY <1>3 DEF FlagsAgree
<1> QED BY <1>1, <1>3, <1>4, <1>5, <1>6

\* Data of the last tick, sent to a client that will allow them by then, follow
\* their tick.
LEMMA AppendData ==
    ASSUME NEW M, NEW P \in Seq(M), NEW m \in M, NEW tick \in Nat, NEW v \in Nat,
           m.type = "DATA", m.version = v,
           TicksFollow(P, tick, TRUE, v), DataFollow(P, tick, v), \E i \in Ticks(P) : P[i].version = v,
           NEW kd, NEW ku, FlagsAgree(P, kd, ku), FlagsReady(P, kd, ku, TRUE, m.isUpdate)
    PROVE  /\ TicksFollow(Append(P, m), tick, TRUE, v)
           /\ DataFollow(Append(P, m), tick, v)
           /\ FlagsAgree(Append(P, m), kd, ku)
<1>1. PICK Q, n : Q = Append(P, m) /\ n = Len(P) + 1
  OBVIOUS
<1>2. /\ n \in Nat /\ Len(Q) = n /\ Q[n] = m
      /\ \A i \in 1..Len(P) : i \in 1..n /\ i < n /\ Q[i] = P[i]
      /\ n \in 1..n /\ \A i \in 1..n : i \in 1..Len(P) \/ i = n
  BY <1>1, AppendFacts
<1>3. /\ Ticks(Q) = Ticks(P) /\ Datas(Q) = Datas(P) \cup {n} /\ Statuses(Q) = Statuses(P)
      /\ \A i \in Ticks(P) \cup Datas(P) \cup Statuses(P) : i \in Nat /\ i < n /\ Q[i] = P[i]
  BY <1>2 DEF Ticks, Datas, Statuses
<1>4. TicksFollow(Q, tick, TRUE, v)
  <2>1. \A i \in Ticks(Q) : Q[i] = P[i]
    BY <1>3
  <2>2. Ticks(Q) = Ticks(P)
    BY <1>3
  <2> QED BY ONLY TicksFollow(P, tick, TRUE, v), <2>1, <2>2 DEF TicksFollow
<1>5. DataFollow(Q, tick, v)
  <2>1. \A j \in Ticks(P) : P[j].version <= v
    BY DEF TicksFollow
  <2>2. \A i \in Datas(Q) : Q[i].version \in 0..v
    BY <1>2, <1>3 DEF DataFollow
  <2>3. \A i \in Datas(Q), j \in Ticks(Q) : IF j < i THEN Q[j].version <= Q[i].version
                                            ELSE Q[i].version < Q[j].version
    <3> TAKE i \in Datas(Q), j \in Ticks(Q)
    <3>1. CASE i = n
      BY <1>2, <1>3, <2>1, <3>1
    <3>2. CASE i \in Datas(P)
      BY <1>3, <3>2 DEF DataFollow
    <3> QED BY <1>3, <3>1, <3>2
  <2>4. ASSUME NEW i \in Datas(Q)
        PROVE  \/ \E j \in Ticks(Q) : j < i /\ Q[j].version = Q[i].version
               \/ (\A j \in Ticks(Q) : ~(j < i)) /\ (tick # 0 => Q[i].version = tick)
    <3>1. CASE i = n
      BY <1>2, <1>3, <3>1
    <3>2. CASE i \in Datas(P)
      BY <1>3, <3>2 DEF DataFollow
    <3> QED BY <1>3, <3>1, <3>2
  <2> QED BY <2>2, <2>3, <2>4 DEF DataFollow
<1>6. FlagsAgree(Q, kd, ku)
  <2> SUFFICES ASSUME NEW i \in Datas(Q)
               PROVE  /\ \A j \in Statuses(Q) : j < i => Q[j].dataFlags /\ (Q[i].isUpdate => Q[j].dataUpdateFlags)
                      /\ (\A j \in Statuses(Q) : ~(j < i)) => kd /\ (Q[i].isUpdate => ku)
    BY DEF FlagsAgree
  <2>1. CASE i = n
    BY <1>2, <1>3, <2>1 DEF FlagsReady
  <2>2. CASE i \in Datas(P)
    BY <1>3, <2>2 DEF FlagsAgree
  <2> QED BY <1>3, <2>1, <2>2
<1> QED BY <1>1, <1>4, <1>5, <1>6

\* A message that is neither a tick nor data disturbs no other; a status
\* readies what it grants.
LEMMA AppendOther ==
    ASSUME NEW M, NEW P \in Seq(M), NEW m \in M, m.type \notin {"UPDATE_TICK", "DATA"},
           NEW tick, NEW live, NEW v, NEW kd, NEW ku
    PROVE  /\ TicksFollow(P, tick, live, v) => TicksFollow(Append(P, m), tick, live, v)
           /\ DataFollow(P, tick, v) => DataFollow(Append(P, m), tick, v)
           /\ FlagsAgree(P, kd, ku) => FlagsAgree(Append(P, m), kd, ku)
           /\ m.type = "DATA_STATUS" /\ Statuses(P) = {} =>
                FlagsReady(Append(P, m), kd, ku, m.dataFlags, m.dataUpdateFlags)
<1>1. PICK Q, n : Q = Append(P, m) /\ n = Len(P) + 1
  OBVIOUS
<1>2. /\ n \in Nat /\ Len(Q) = n /\ Q[n] = m
      /\ \A i \in 1..Len(P) : i \in 1..n /\ i < n /\ Q[i] = P[i]
      /\ n \in 1..n /\ \A i \in 1..n : i \in 1..Len(P) \/ i = n
  BY <1>1, AppendFacts
<1>3. /\ Ticks(Q) = Ticks(P) /\ Datas(Q) = Datas(P)
      /\ Statuses(Q) = IF m.type = "DATA_STATUS" THEN Statuses(P) \cup {n} ELSE Statuses(P)
      /\ \A i \in Ticks(P) \cup Datas(P) \cup Statuses(P) : i \in Nat /\ i < n /\ Q[i] = P[i]
  BY <1>2 DEF Ticks, Datas, Statuses
<1>4. TicksFollow(P, tick, live, v) => TicksFollow(Q, tick, live, v)
  BY <1>3 DEF TicksFollow
<1>5. DataFollow(P, tick, v) => DataFollow(Q, tick, v)
  BY <1>3 DEF DataFollow
<1>6. ASSUME FlagsAgree(P, kd, ku) PROVE FlagsAgree(Q, kd, ku)
  <2>1. \A i \in Datas(P) : i \in Nat /\ ~(n < i)
    BY <1>2, <1>3
  <2>2. \A j \in Statuses(Q) : j \in Statuses(P) \/ j = n
    BY <1>3
  <2>3. \A j \in Statuses(P) : j \in Statuses(Q)
    BY <1>3
  <2> QED BY <1>3, <1>6, <2>1, <2>2, <2>3 DEF FlagsAgree
<1>7. m.type = "DATA_STATUS" /\ Statuses(P) = {} => FlagsReady(Q, kd, ku, m.dataFlags, m.dataUpdateFlags)
  BY <1>2, <1>3 DEF FlagsReady
<1> QED BY <1>1, <1>4, <1>5, <1>6, <1>7

\* The elements of a sequence without its first one.
LEMMA TailFacts ==
    ASSUME NEW M, NEW P \in Seq(M), P # <<>>
    PROVE  /\ Tail(P) \in Seq(M) /\ Len(P) \in Nat /\ Len(Tail(P)) \in Nat /\ Len(P) = Len(Tail(P)) + 1
           /\ Head(P) \in M /\ Head(P) = P[1] /\ 1 \in 1..Len(P)
           /\ \A i \in 1..Len(Tail(P)) : i + 1 \in 1..Len(P) /\ Tail(P)[i] = P[i + 1]
           /\ \A i \in 1..Len(P) : i = 1 \/ (i - 1 \in 1..Len(Tail(P)) /\ Tail(P)[i - 1] = P[i])
OBVIOUS

\* The first tick is the successor of the last one seen, and the others follow
\* it.
LEMMA TailTick ==
    ASSUME NEW M, NEW P \in Seq(M), P # <<>>, P[1].type = "UPDATE_TICK",
           NEW tick \in Nat, NEW live, NEW v \in Nat,
           TicksFollow(P, tick, live, v), DataFollow(P, tick, v)
    PROVE  /\ P[1].version \in 1..v /\ P[1].timestamp = P[1].version % TimestampMod
           /\ tick # 0 => P[1].version = tick + 1
           /\ TicksFollow(Tail(P), P[1].version, live, v)
           /\ DataFollow(Tail(P), P[1].version, v)
<1>1. PICK Q, t : Q = Tail(P) /\ t = P[1].version
  OBVIOUS
<1>2. /\ Len(Q) \in Nat /\ Len(P) = Len(Q) + 1 /\ 1 \in 1..Len(P)
      /\ \A i \in 1..Len(Q) : i + 1 \in 1..Len(P) /\ Q[i] = P[i + 1]
      /\ \A i \in 1..Len(P) : i = 1 \/ (i - 1 \in 1..Len(Q) /\ Q[i - 1] = P[i])
  BY <1>1, TailFacts
<1>3. /\ \A i \in Ticks(Q) : i \in Nat /\ i + 1 \in Ticks(P) /\ Q[i] = P[i + 1] /\ 1 < i + 1
      /\ \A i \in Datas(Q) : i \in Nat /\ i + 1 \in Datas(P) /\ Q[i] = P[i + 1] /\ 1 < i + 1
  BY <1>2 DEF Ticks, Datas
<1>4. /\ 1 \in Ticks(P) /\ \A i \in Ticks(P) : i \in Nat /\ ~(i < 1)
      /\ \A i \in Ticks(P) : i = 1 \/ (i - 1 \in Ticks(Q) /\ Q[i - 1] = P[i] /\ 1 < i)
  BY <1>2 DEF Ticks
<1>5. /\ \A i \in Ticks(P) : P[i].version \in 1..v /\ P[i].timestamp = P[i].version % TimestampMod
      /\ \A i, j \in Ticks(P) : i < j => P[i].version < P[j].version
  BY DEF TicksFollow
<1>6. t \in 1..v /\ P[1].timestamp = t % TimestampMod /\ (tick # 0 => t = tick + 1)
  BY <1>1, <1>4 DEF TicksFollow
<1>7. \A i \in Ticks(Q) : Q[i].version > t /\ Q[i].version \in 1..v
                          /\ Q[i].timestamp = Q[i].version % TimestampMod
  <2> TAKE i \in Ticks(Q)
  <2>1. PICK k : k = i + 1
    OBVIOUS
  <2>2. 1 \in Ticks(P) /\ k \in Ticks(P) /\ Q[i] = P[k] /\ 1 < k
    BY <1>3, <1>4, <2>1
  <2>3. P[1].version < P[k].version
    BY <1>5, <2>2
  <2>4. P[k].version \in 1..v /\ P[k].timestamp = P[k].version % TimestampMod
    BY <1>5, <2>2
  <2>5. t \in Int /\ P[k].version \in Int /\ t = P[1].version
    BY <1>1, <1>6, <2>4
  <2> QED BY <2>2, <2>3, <2>4, <2>5
<1>8. \A i, j \in Ticks(Q) : i < j => Q[i].version < Q[j].version
  BY <1>3, <1>5
<1>9. ASSUME NEW i \in Ticks(Q)
      PROVE  \/ \E j \in Ticks(Q) : j < i /\ Q[j].version = Q[i].version - 1
             \/ (\A j \in Ticks(Q) : ~(j < i)) /\ (t # 0 => Q[i].version = t + 1)
  <2>1. PICK k \in Ticks(P) : k < i + 1 /\ P[k].version = P[i + 1].version - 1
    BY <1>3, <1>4 DEF TicksFollow
  <2>2. CASE k = 1
    <3>0. t = Q[i].version - 1 /\ Q[i].version \in 1..v
      BY <1>1, <1>3, <1>7, <2>1, <2>2
    <3>1. Q[i].version = t + 1
      BY <1>6, <3>0
    <3>2. ASSUME NEW j \in Ticks(Q), j < i PROVE FALSE
      BY <1>6, <1>7, <1>8, <3>1, <3>2
    <3> QED BY <3>1, <3>2
  <2>3. CASE k - 1 \in Ticks(Q) /\ Q[k - 1] = P[k]
    <3>1. k - 1 < i /\ Q[k - 1].version = Q[i].version - 1
      BY <1>3, <1>4, <2>1, <2>3
    <3> QED BY <2>3, <3>1
  <2> QED BY <1>4, <2>2, <2>3
<1>10. ASSUME live
       PROVE  (\E i \in Ticks(Q) : Q[i].version = v) \/ (Ticks(Q) = {} /\ (t # 0 => t = v))
  <2>1. PICK k \in Ticks(P) : P[k].version = v
    BY <1>4, <1>10 DEF TicksFollow
  <2>2. CASE k = 1
    <3>1. t = v
      BY <1>1, <2>1, <2>2
    <3>2. ASSUME NEW i \in Ticks(Q) PROVE FALSE
      BY <1>6, <1>7, <3>1
    <3> QED BY <3>1, <3>2
  <2>3. CASE k - 1 \in Ticks(Q) /\ Q[k - 1] = P[k]
    BY <2>1, <2>3
  <2> QED BY <1>4, <2>2, <2>3
<1>11. TicksFollow(Q, t, live, v)
  BY <1>7, <1>8, <1>9, <1>10 DEF TicksFollow
<1>12. \A i \in Datas(Q) : Q[i].version \in 0..v
  BY <1>3 DEF DataFollow
<1>13. \A i \in Datas(Q), j \in Ticks(Q) : IF j < i THEN Q[j].version <= Q[i].version
                                           ELSE Q[i].version < Q[j].version
  <2> TAKE i \in Datas(Q), j \in Ticks(Q)
  <2>1. j < i <=> j + 1 < i + 1
    BY <1>3
  <2>2. i + 1 \in Datas(P) /\ j + 1 \in Ticks(P) /\ Q[i] = P[i + 1] /\ Q[j] = P[j + 1]
    BY <1>3
  <2>3. IF j + 1 < i + 1 THEN P[j + 1].version <= P[i + 1].version
                         ELSE P[i + 1].version < P[j + 1].version
    BY <2>2 DEF DataFollow
  <2> QED BY <2>1, <2>2, <2>3
<1>14. ASSUME NEW i \in Datas(Q)
       PROVE  \/ \E j \in Ticks(Q) : j < i /\ Q[j].version = Q[i].version
              \/ (\A j \in Ticks(Q) : ~(j < i)) /\ (t # 0 => Q[i].version = t)
  <2>1. PICK k \in Ticks(P) : k < i + 1 /\ P[k].version = P[i + 1].version
    BY <1>3, <1>4 DEF DataFollow
  <2>2. CASE k = 1
    <3>1. Q[i].version = t
      BY <1>1, <1>3, <2>1, <2>2
    <3>2. ASSUME NEW j \in Ticks(Q), j < i PROVE FALSE
      <4>1. Q[j].version <= Q[i].version /\ Q[j].version > t /\ Q[j].version \in 1..v
        BY <1>7, <1>13, <3>2
      <4> QED BY <1>6, <3>1, <4>1
    <3> QED BY <3>1, <3>2
  <2>3. CASE k - 1 \in Ticks(Q) /\ Q[k - 1] = P[k]
    <3>1. k - 1 < i /\ Q[k - 1].version = Q[i].version
      BY <1>3, <1>4, <2>1, <2>3
    <3> QED BY <2>3, <3>1
  <2> QED BY <1>4, <2>2, <2>3
<1>15. DataFollow(Q, t, v)
  BY <1>12, <1>13, <1>14 DEF DataFollow
<1> QED BY <1>1, <1>6, <1>11, <1>15

\* Taking a message that is no tick keeps the order; data belong to the last
\* tick seen.
LEMMA TailOther ==
    ASSUME NEW M, NEW P \in Seq(M), P # <<>>, P[1].type # "UPDATE_TICK",
           NEW tick \in Nat, NEW live, NEW v \in Nat
    PROVE  /\ TicksFollow(P, tick, live, v) => TicksFollow(Tail(P), tick, live, v)
           /\ DataFollow(P, tick, v) => DataFollow(Tail(P), tick, v)
           /\ DataFollow(P, tick, v) /\ P[1].type = "DATA" =>
                P[1].version \in 0..v /\ (tick # 0 => P[1].version = tick)
<1>1. PICK Q : Q = Tail(P)
  OBVIOUS
<1>2. /\ Len(Q) \in Nat /\ Len(P) = Len(Q) + 1 /\ 1 \in 1..Len(P)
      /\ \A i \in 1..Len(Q) : i + 1 \in 1..Len(P) /\ Q[i] = P[i + 1]
      /\ \A i \in 1..Len(P) : i = 1 \/ (i - 1 \in 1..Len(Q) /\ Q[i - 1] = P[i])
  BY <1>1, TailFacts
<1>3. /\ \A i \in Ticks(Q) : i \in Nat /\ i + 1 \in Ticks(P) /\ Q[i] = P[i + 1]
      /\ \A i \in Datas(Q) : i \in Nat /\ i + 1 \in Datas(P) /\ Q[i] = P[i + 1]
  BY <1>2 DEF Ticks, Datas
<1>4. \A i \in Ticks(P) : i \in Nat /\ 1 < i /\ i - 1 \in Ticks(Q) /\ Q[i - 1] = P[i]
  BY <1>2 DEF Ticks
<1>5. ASSUME TicksFollow(P, tick, live, v)
      PROVE  TicksFollow(Q, tick, live, v)
  <2>1. /\ \A i \in Ticks(P) : P[i].version \in 1..v /\ P[i].timestamp = P[i].version % TimestampMod
        /\ \A i, j \in Ticks(P) : i < j => P[i].version < P[j].version
    BY <1>5 DEF TicksFollow
  <2>2. /\ \A i \in Ticks(Q) : Q[i].version \in 1..v /\ Q[i].timestamp = Q[i].version % TimestampMod
        /\ \A i, j \in Ticks(Q) : i < j => Q[i].version < Q[j].version
    BY <1>3, <2>1
  <2>3. ASSUME NEW i \in Ticks(Q)
        PROVE  \/ \E j \in Ticks(Q) : j < i /\ Q[j].version = Q[i].version - 1
               \/ (\A j \in Ticks(Q) : ~(j < i)) /\ (tick # 0 => Q[i].version = tick + 1)
    <3>1. CASE \E k \in Ticks(P) : k < i + 1 /\ P[k].version = P[i + 1].version - 1
      <4>1. PICK k \in Ticks(P) : k < i + 1 /\ P[k].version = P[i + 1].version - 1
        BY <3>1
      <4>2. k - 1 \in Ticks(Q) /\ k - 1 < i
        BY <1>3, <1>4, <4>1
      <4>3. Q[k - 1].version = Q[i].version - 1
        <5>1. Q[k - 1] = P[k] /\ Q[i] = P[i + 1]
          BY <1>3, <1>4
        <5> QED BY <4>1, <5>1
      <4> QED BY <4>2, <4>3
    <3>2. CASE (\A k \in Ticks(P) : ~(k < i + 1)) /\ (tick # 0 => P[i + 1].version = tick + 1)
      <4>1. \A j \in Ticks(Q) : ~(j < i)
        BY <1>3, <3>2
      <4> QED BY <1>3, <3>2, <4>1
    <3> QED BY <1>3, <1>5, <3>1, <3>2 DEF TicksFollow
  <2>4. ASSUME live
        PROVE  (\E i \in Ticks(Q) : Q[i].version = v) \/ (Ticks(Q) = {} /\ (tick # 0 => tick = v))
    <3>1. CASE \E k \in Ticks(P) : P[k].version = v
      BY <1>4, <3>1
    <3>2. CASE Ticks(P) = {} /\ (tick # 0 => tick = v)
      BY <1>3, <3>2
    <3> QED BY <1>5, <2>4, <3>1, <3>2 DEF TicksFollow
  <2> QED BY <2>2, <2>3, <2>4 DEF TicksFollow
<1>6. ASSUME DataFollow(P, tick, v)
      PROVE  DataFollow(Q, tick, v)
  <2>1. \A i \in Datas(Q) : Q[i].version \in 0..v
    BY <1>3, <1>6 DEF DataFollow
  <2>2. \A i \in Datas(Q), j \in Ticks(Q) : IF j < i THEN Q[j].version <= Q[i].version
                                            ELSE Q[i].version < Q[j].version
    <3> TAKE i \in Datas(Q), j \in Ticks(Q)
    <3>1. j < i <=> j + 1 < i + 1
      BY <1>3
    <3>2. i + 1 \in Datas(P) /\ j + 1 \in Ticks(P) /\ Q[i] = P[i + 1] /\ Q[j] = P[j + 1]
      BY <1>3
    <3>3. IF j + 1 < i + 1 THEN P[j + 1].version <= P[i + 1].version
                           ELSE P[i + 1].version < P[j + 1].version
      BY <1>6, <3>2 DEF DataFollow
    <3> QED BY <3>1, <3>2, <3>3
  <2>3. ASSUME NEW i \in Datas(Q)
        PROVE  \/ \E j \in Ticks(Q) : j < i /\ Q[j].version = Q[i].version
               \/ (\A j \in Ticks(Q) : ~(j < i)) /\ (tick # 0 => Q[i].version = tick)
    <3>1. CASE \E k \in Ticks(P) : k < i + 1 /\ P[k].version = P[i + 1].version
      <4>1. PICK k \in Ticks(P) : k < i + 1 /\ P[k].version = P[i + 1].version
        BY <3>1
      <4>2. k - 1 \in Ticks(Q) /\ k - 1 < i /\ Q[k - 1].version = Q[i].version
        BY <1>3, <1>4, <4>1
      <4> QED BY <4>2
    <3>2. CASE (\A k \in Ticks(P) : ~(k < i + 1)) /\ (tick # 0 => P[i + 1].version = tick)
      <4>1. \A j \in Ticks(Q) : ~(j < i)
        BY <1>3, <3>2
      <4> QED BY <1>3, <3>2, <4>1
    <3> QED BY <1>3, <1>6, <3>1, <3>2 DEF DataFollow
  <2> QED BY <2>1, <2>2, <2>3 DEF DataFollow
<1>7. ASSUME DataFollow(P, tick, v), P[1].type = "DATA"
      PROVE  P[1].version \in 0..v /\ (tick # 0 => P[1].version = tick)
  <2>1. 1 \in Datas(P)
    BY <1>2, <1>7 DEF Datas
  <2>2. \A j \in Ticks(P) : ~(j < 1)
    BY <1>4
  <2> QED BY <1>7, <2>1, <2>2 DEF DataFollow
<1> QED BY <1>1, <1>5, <1>6, <1>7

\* Taking a message keeps the agreement, a status being the new one; data taken
\* are allowed.
LEMMA TailFlags ==
    ASSUME NEW M, NEW P \in Seq(M), P # <<>>, NEW kd, NEW ku, FlagsAgree(P, kd, ku)
    PROVE  /\ P[1].type # "DATA_STATUS" =>
                /\ FlagsAgree(Tail(P), kd, ku)
                /\ \A d, u : FlagsReady(P, kd, ku, d, u) => FlagsReady(Tail(P), kd, ku, d, u)
           /\ P[1].type = "DATA_STATUS" =>
                /\ FlagsAgree(Tail(P), P[1].dataFlags, P[1].dataUpdateFlags)
                /\ \A d, u : FlagsReady(P, kd, ku, d, u) =>
                     FlagsReady(Tail(P), P[1].dataFlags, P[1].dataUpdateFlags, d, u)
           /\ P[1].type = "DATA" => kd /\ (P[1].isUpdate => ku)
<1>1. PICK Q : Q = Tail(P)
  OBVIOUS
<1>2. /\ Len(Q) \in Nat /\ Len(P) = Len(Q) + 1 /\ 1 \in 1..Len(P)
      /\ \A i \in 1..Len(Q) : i + 1 \in 1..Len(P) /\ Q[i] = P[i + 1]
      /\ \A i \in 1..Len(P) : i = 1 \/ (i - 1 \in 1..Len(Q) /\ Q[i - 1] = P[i])
  BY <1>1, TailFacts
<1>3. /\ \A i \in Statuses(Q) : i \in Nat /\ i + 1 \in Statuses(P) /\ Q[i] = P[i + 1]
      /\ \A i \in Datas(Q) : i \in Nat /\ i + 1 \in Datas(P) /\ Q[i] = P[i + 1] /\ 1 < i + 1
  BY <1>2 DEF Statuses, Datas
<1>4. /\ \A j \in Statuses(P) : j \in Nat /\ ~(j < 1)
      /\ \A j \in Statuses(P) : j = 1 \/ (j - 1 \in Statuses(Q) /\ Q[j - 1] = P[j])
      /\ 1 \in Statuses(P) <=> P[1].type = "DATA_STATUS"
  BY <1>2 DEF Statuses
<1>5. P[1].type = "DATA" => kd /\ (P[1].isUpdate => ku)
  <2>1. P[1].type = "DATA" => 1 \in Datas(P)
    BY <1>2 DEF Datas
  <2> QED BY <1>4, <2>1 DEF FlagsAgree
<1>6. ASSUME NEW i \in Datas(Q)
      PROVE  /\ \A j \in Statuses(Q) : j < i => Q[j].dataFlags /\ (Q[i].isUpdate => Q[j].dataUpdateFlags)
             /\ 1 \in Statuses(P) => P[1].dataFlags /\ (Q[i].isUpdate => P[1].dataUpdateFlags)
             /\ 1 \notin Statuses(P) /\ (\A j \in Statuses(Q) : ~(j < i)) => kd /\ (Q[i].isUpdate => ku)
  <2>1. i + 1 \in Datas(P) /\ Q[i] = P[i + 1] /\ 1 < i + 1 /\ i \in Nat
    BY <1>3
  <2>2. /\ \A j \in Statuses(P) : j < i + 1 => P[j].dataFlags /\ (P[i + 1].isUpdate => P[j].dataUpdateFlags)
        /\ (\A j \in Statuses(P) : ~(j < i + 1)) => kd /\ (P[i + 1].isUpdate => ku)
    BY <2>1 DEF FlagsAgree
  <2>3. ASSUME NEW j \in Statuses(Q), j < i
        PROVE  Q[j].dataFlags /\ (Q[i].isUpdate => Q[j].dataUpdateFlags)
    <3>1. j + 1 \in Statuses(P) /\ j + 1 < i + 1 /\ Q[j] = P[j + 1]
      BY <1>3, <2>1, <2>3
    <3> QED BY <2>1, <2>2, <3>1
  <2>4. 1 \in Statuses(P) => P[1].dataFlags /\ (Q[i].isUpdate => P[1].dataUpdateFlags)
    BY <2>1, <2>2
  <2>5. ASSUME 1 \notin Statuses(P), \A j \in Statuses(Q) : ~(j < i)
        PROVE  kd /\ (Q[i].isUpdate => ku)
    <3>1. ASSUME NEW j \in Statuses(P), j < i + 1 PROVE FALSE
      <4>1. j - 1 \in Statuses(Q) /\ j - 1 < i
        BY <1>4, <2>1, <2>5, <3>1
      <4> QED BY <2>5, <4>1
    <3> QED BY <2>1, <2>2, <3>1
  <2> QED BY <2>3, <2>4, <2>5
<1>7. ASSUME NEW d, NEW u, FlagsReady(P, kd, ku, d, u), d
      PROVE  /\ \A j \in Statuses(Q) : Q[j].dataFlags /\ (u => Q[j].dataUpdateFlags)
             /\ 1 \in Statuses(P) => P[1].dataFlags /\ (u => P[1].dataUpdateFlags)
             /\ 1 \notin Statuses(P) /\ Statuses(Q) = {} => kd /\ (u => ku)
  <2>1. 1 \notin Statuses(P) /\ Statuses(Q) = {} => Statuses(P) = {}
    BY <1>4
  <2> QED BY <1>3, <1>7, <2>1 DEF FlagsReady
<1>8. CASE P[1].type # "DATA_STATUS"
  <2>1. FlagsAgree(Q, kd, ku)
    BY <1>4, <1>6, <1>8 DEF FlagsAgree
  <2>2. ASSUME NEW d, NEW u, FlagsReady(P, kd, ku, d, u) PROVE FlagsReady(Q, kd, ku, d, u)
    BY <1>4, <1>7, <1>8, <2>2 DEF FlagsReady
  <2> QED BY <1>1, <1>5, <1>8, <2>1, <2>2
<1>9. CASE P[1].type = "DATA_STATUS"
  <2>1. FlagsAgree(Q, P[1].dataFlags, P[1].dataUpdateFlags)
    BY <1>4, <1>6, <1>9 DEF FlagsAgree
  <2>2. ASSUME NEW d, NEW u, FlagsReady(P, kd, ku, d, u)
        PROVE  FlagsReady(Q, P[1].dataFlags, P[1].dataUpdateFlags, d, u)
    BY <1>4, <1>7, <1>9, <2>2 DEF FlagsReady
  <2> QED BY <1>1, <1>9, <2>1, <2>2
<1> QED BY <1>8, <1>9

\* What a session that is over left on its way stays in order at later updates.
LEMMA LaterVersion ==
    ASSUME NEW P, NEW tick, NEW v \in Nat, NEW w \in Nat, v <= w,
           TicksFollow(P, tick, FALSE, v), DataFollow(P, tick, v)
    PROVE  TicksFollow(P, tick, FALSE, w) /\ DataFollow(P, tick, w)
BY DEF TicksFollow, DataFollow

-----------------------------------------------------------------------------
(***************************************************************************)
(* The handshake, as far as the states of the two ends tell how far it is. *)
(* U and P are what the client (ks, ke: its state and what it expects) and *)
(* the session (ss: its state) still have to say.                          *)
(***************************************************************************)
NoHello(q) == \A i \in 1..Len(q) : q[i].type \notin {"HELLO", "BANNER"}

\* How far the handshake is, by the states of the two ends and what they have
\* to say.
Phase(ks, ke, ss, U, P) ==
    /\ \A i \in 1..Len(P) : P[i].type \notin {"UNKNOWN", "GARBLED"}
    /\ ss # "CLOSING"
    /\ ss = "OPENING" => U = <<>> \/ U = <<ClientMsgHello>>
    /\ ss = "CONNECTED" => NoHello(U)
    /\ ks = "OPENING" =>
         \/ ke = "SERVER_BANNER" /\ U = <<>> /\ ss # "CONNECTED" /\ (P = <<>> \/ P = <<ServerMsgBanner>>)
         \/ ke = "SERVER_HELLO" /\ ss # "CONNECTED" /\ P = <<>>
         \/ /\ ke = "SERVER_HELLO" /\ ss # "OPENING" /\ U = <<>>
            /\ P # <<>> /\ P[1] = ServerMsgHello
            /\ \A i \in 1..Len(P) : i > 1 => P[i].type \notin {"HELLO", "BANNER"}
    /\ ks \in {"CONNECTED", "CLOSING"} => ss # "OPENING" /\ NoHello(P)

\* The elements of a sequence without some data, cut short unless whole.
LEMMA ThinsFacts ==
    ASSUME NEW M, NEW P \in Seq(M), NEW Q \in Seq(M), NEW whole \in BOOLEAN, Thins(Q, P, whole)
    PROVE  /\ \A i \in 1..Len(Q) : \E j \in 1..Len(P) : Q[i] = P[j] /\ (i > 1 => j > 1)
           /\ P = <<>> => Q = <<>>
           /\ Len(P) = 1 => Q = <<>> \/ Q = <<P[1]>>
           /\ P # <<>> /\ P[1].type # "DATA" => (Q = <<>> /\ ~whole) \/ (Q # <<>> /\ Q[1] = P[1])
<1>1. PICK f : Embeds(f, Q, P, whole)
  BY DEF Thins
<1>2. /\ \A i \in 1..Len(Q) : f[i] \in 1..Len(P) /\ Q[i] = P[f[i]]
      /\ \A i, j \in 1..Len(Q) : i < j => f[i] < f[j]
      /\ \A k \in 1..Len(P) : P[k].type # "DATA" =>
           (\E i \in 1..Len(Q) : f[i] = k) \/ (~whole /\ \A i \in 1..Len(Q) : f[i] < k)
  BY <1>1 DEF Embeds
<1>3. Len(Q) \in Nat /\ Len(P) \in Nat /\ (Len(Q) = 0 <=> Q = <<>>) /\ (Len(P) = 0 <=> P = <<>>)
  OBVIOUS
<1>4. \A i \in 1..Len(Q) : i > 1 => f[i] > 1
  <2> TAKE i \in 1..Len(Q)
  <2> HAVE i > 1
  <2>1. 1 \in 1..Len(Q) /\ 1 < i
    BY <1>3
  <2>2. f[1] \in 1..Len(P) /\ f[i] \in 1..Len(P) /\ f[1] < f[i]
    BY <1>2, <2>1
  <2> QED BY <1>3, <2>2
<1>5. P = <<>> => Q = <<>>
  BY <1>2, <1>3
<1>6. ASSUME Len(P) = 1, Q # <<>> PROVE Q = <<P[1]>>
  <2>1. Len(Q) < 2
    <3>1. SUFFICES ASSUME Len(Q) >= 2 PROVE FALSE
      BY <1>3
    <3>2. 2 \in 1..Len(Q)
      BY <1>3, <3>1
    <3> QED BY <1>2, <1>4, <1>6, <3>2
  <2>2. Len(Q) = 1 /\ 1 \in 1..Len(Q)
    BY <1>3, <1>6, <2>1
  <2>3. f[1] = 1 /\ Q[1] = P[1]
    BY <1>2, <1>6, <2>2
  <2> QED BY <2>2, <2>3
<1>7. ASSUME P # <<>>, P[1].type # "DATA"
      PROVE  (Q = <<>> /\ ~whole) \/ (Q # <<>> /\ Q[1] = P[1])
  <2>1. 1 \in 1..Len(P)
    BY <1>3, <1>7
  <2>2. CASE \E i \in 1..Len(Q) : f[i] = 1
    <3>1. PICK i \in 1..Len(Q) : f[i] = 1
      BY <2>2
    <3>2. i = 1
      BY <1>3, <1>4, <3>1
    <3> QED BY <1>2, <1>3, <3>1, <3>2
  <2>3. CASE ~whole /\ \A i \in 1..Len(Q) : f[i] < 1
    <3>1. \A i \in 1..Len(Q) : FALSE
      BY <1>2, <1>3, <2>3
    <3> QED BY <1>3, <2>3, <3>1
  <2> QED BY <1>2, <1>7, <2>1, <2>2, <2>3
<1> QED BY <1>2, <1>4, <1>5, <1>6, <1>7

\* The handshake does not mind data left out, nor the session ending.
LEMMA PhaseThin ==
    ASSUME NEW P \in Seq(ServerMsg), NEW Q \in Seq(ServerMsg), NEW whole \in BOOLEAN, Thins(Q, P, whole),
           NEW ks, NEW ke, NEW ss, NEW U \in Seq(ClientMsg), Phase(ks, ke, ss, U, P),
           NEW after, (after = ss /\ whole) \/ after = "DISCONNECTED"
    PROVE  Phase(ks, ke, after, U, Q)
<1>1. /\ \A i \in 1..Len(Q) : \E j \in 1..Len(P) : Q[i] = P[j] /\ (i > 1 => j > 1)
      /\ P = <<>> => Q = <<>>
      /\ Len(P) = 1 => Q = <<>> \/ Q = <<P[1]>>
      /\ P # <<>> /\ P[1].type # "DATA" => (Q = <<>> /\ ~whole) \/ (Q # <<>> /\ Q[1] = P[1])
  BY ThinsFacts
<1>2. \A i \in 1..Len(Q) : Q[i].type \notin {"UNKNOWN", "GARBLED"}
  BY <1>1 DEF Phase
<1>3. NoHello(P) => NoHello(Q)
  BY <1>1 DEF NoHello
<1>4. ASSUME ks = "OPENING"
      PROVE  \/ /\ ke = "SERVER_BANNER" /\ U = <<>> /\ after # "CONNECTED"
                /\ Q = <<>> \/ Q = <<ServerMsgBanner>>
             \/ ke = "SERVER_HELLO" /\ after # "CONNECTED" /\ Q = <<>>
             \/ /\ ke = "SERVER_HELLO" /\ after # "OPENING" /\ U = <<>>
                /\ Q # <<>> /\ Q[1] = ServerMsgHello
                /\ \A i \in 1..Len(Q) : i > 1 => Q[i].type \notin {"HELLO", "BANNER"}
  <2>1. CASE /\ ke = "SERVER_BANNER" /\ U = <<>> /\ ss # "CONNECTED"
             /\ P = <<>> \/ P = <<ServerMsgBanner>>
    <3>1. P = <<ServerMsgBanner>> => Len(P) = 1 /\ P[1] = ServerMsgBanner
      OBVIOUS
    <3> QED BY <1>1, <2>1, <3>1
  <2>2. CASE ke = "SERVER_HELLO" /\ ss # "CONNECTED" /\ P = <<>>
    BY <1>1, <2>2
  <2>3. CASE /\ ke = "SERVER_HELLO" /\ ss # "OPENING" /\ U = <<>>
             /\ P # <<>> /\ P[1] = ServerMsgHello
             /\ \A i \in 1..Len(P) : i > 1 => P[i].type \notin {"HELLO", "BANNER"}
    <3>1. P[1].type # "DATA"
      BY <2>3 DEF ServerMsgHello
    <3>2. CASE Q = <<>> /\ ~whole
      BY <2>3, <3>2
    <3>3. CASE Q # <<>> /\ Q[1] = P[1]
      BY <1>1, <2>3, <3>3
    <3> QED BY <1>1, <2>3, <3>1, <3>2, <3>3
  <2> QED BY <1>4, <2>1, <2>2, <2>3 DEF Phase
<1> QED BY <1>2, <1>3, <1>4 DEF Phase

\* The handshake does not mind the client leaving.
LEMMA PhaseThinAsked ==
    ASSUME NEW U \in Seq(ClientMsg), NEW V \in Seq(ClientMsg), NEW whole \in BOOLEAN, Thins(V, U, whole),
           NEW ks, NEW ke, NEW ss, NEW P \in Seq(ServerMsg), Phase(ks, ke, ss, U, P),
           NEW after, after = ks \/ after = "DISCONNECTED"
    PROVE  Phase(after, ke, ss, V, P)
<1>1. /\ \A i \in 1..Len(V) : \E j \in 1..Len(U) : V[i] = U[j]
      /\ U = <<>> => V = <<>>
      /\ Len(U) = 1 => V = <<>> \/ V = <<U[1]>>
  BY ThinsFacts
<1>2. NoHello(U) => NoHello(V)
  BY <1>1 DEF NoHello
<1>3. U = <<ClientMsgHello>> => V = <<>> \/ V = <<ClientMsgHello>>
  <2>1. U = <<ClientMsgHello>> => Len(U) = 1 /\ U[1] = ClientMsgHello
    OBVIOUS
  <2> QED BY <1>1, <2>1
<1> QED BY <1>1, <1>2, <1>3 DEF Phase

\* The session may end at any message of the client.
LEMMA PhaseClosedAfterInput ==
    ASSUME NEW ks, NEW ke, NEW ss, NEW U \in Seq(ClientMsg), NEW P \in Seq(ServerMsg),
           Phase(ks, ke, ss, U, P), U # <<>>
    PROVE  Phase(ks, ke, "DISCONNECTED", Tail(U), P)
BY DEF Phase

\* The first message of the client is its HELLO, and the session answers it
\* with its own.
LEMMA PhaseHello ==
    ASSUME NEW ks, NEW ke, NEW U \in Seq(ClientMsg), NEW P \in Seq(ServerMsg),
           Phase(ks, ke, "OPENING", U, P), U # <<>>
    PROVE  /\ Head(U) = ClientMsgHello /\ (ks = "OPENING" => P = <<>>) /\ ks \notin {"CONNECTED", "CLOSING"}
           /\ Phase(ks, ke, "CONNECTED", Tail(U), Append(P, ServerMsgHello))
<1>1. U = <<ClientMsgHello>>
  BY DEF Phase
<1>2. Head(U) = ClientMsgHello /\ Tail(U) = <<>>
  BY <1>1
<1>3. ks = "OPENING" => ke = "SERVER_HELLO" /\ P = <<>>
  BY <1>1 DEF Phase
<1>4. ks \notin {"CONNECTED", "CLOSING"}
  BY DEF Phase
<1>5. ServerMsgHello \in ServerMsg /\ ServerMsgHello.type = "HELLO"
  BY DEF ServerMsg, ServerMsgHello
<1>6. \A i \in 1..Len(Append(P, ServerMsgHello)) :
        Append(P, ServerMsgHello)[i].type \notin {"UNKNOWN", "GARBLED"}
  <2>1. \A i \in 1..Len(P) : P[i].type \notin {"UNKNOWN", "GARBLED"}
    BY DEF Phase
  <2>2. /\ Len(Append(P, ServerMsgHello)) = Len(P) + 1
        /\ \A i \in 1..Len(P) : Append(P, ServerMsgHello)[i] = P[i]
        /\ Append(P, ServerMsgHello)[Len(P) + 1] = ServerMsgHello
        /\ \A i \in 1..Len(P) + 1 : i \in 1..Len(P) \/ i = Len(P) + 1
    BY <1>5, AppendFacts
  <2> QED BY <1>5, <2>1, <2>2
<1>7. P = <<>> => /\ Append(P, ServerMsgHello) # <<>> /\ Append(P, ServerMsgHello)[1] = ServerMsgHello
                  /\ Len(Append(P, ServerMsgHello)) = 1
  OBVIOUS
<1>8. NoHello(<<>>)
  BY DEF NoHello
<1>9. PICK Q : Q = Append(P, ServerMsgHello)
  OBVIOUS
<1>10. Phase(ks, ke, "CONNECTED", <<>>, Q)
  BY <1>3, <1>4, <1>6, <1>7, <1>8, <1>9 DEF Phase
<1> QED BY <1>2, <1>3, <1>4, <1>9, <1>10

\* A session that is connected may send ticks, answers and data.
LEMMA PhaseAppend ==
    ASSUME NEW ks, NEW ke, NEW U \in Seq(ClientMsg), NEW P \in Seq(ServerMsg), NEW m \in ServerMsg,
           Phase(ks, ke, "CONNECTED", U, P), m.type \in {"UPDATE_TICK", "DATA_STATUS", "DATA"}
    PROVE  Phase(ks, ke, "CONNECTED", U, Append(P, m))
<1>1. PICK Q : Q = Append(P, m)
  OBVIOUS
<1>2. /\ Len(Q) = Len(P) + 1 /\ Len(P) \in Nat
      /\ \A i \in 1..Len(P) : Q[i] = P[i]
      /\ Q[Len(P) + 1] = m
      /\ \A i \in 1..Len(P) + 1 : i \in 1..Len(P) \/ i = Len(P) + 1
  BY <1>1, AppendFacts
<1>3. \A i \in 1..Len(Q) : Q[i].type \notin {"UNKNOWN", "GARBLED"}
  BY <1>2 DEF Phase
<1>4. NoHello(P) => NoHello(Q)
  BY <1>2 DEF NoHello
<1>5. P # <<>> => Q # <<>> /\ Q[1] = P[1]
  BY <1>1
<1>6. ASSUME ks = "OPENING"
      PROVE  /\ ke = "SERVER_HELLO" /\ U = <<>> /\ Q # <<>> /\ Q[1] = ServerMsgHello
             /\ \A i \in 1..Len(Q) : i > 1 => Q[i].type \notin {"HELLO", "BANNER"}
  <2>1. /\ ke = "SERVER_HELLO" /\ U = <<>> /\ P # <<>> /\ P[1] = ServerMsgHello
        /\ \A i \in 1..Len(P) : i > 1 => P[i].type \notin {"HELLO", "BANNER"}
    BY <1>6 DEF Phase
  <2> QED BY <1>2, <1>5, <2>1
<1>7. Phase(ks, ke, "CONNECTED", U, Q)
  BY <1>3, <1>4, <1>6 DEF Phase
<1> QED BY <1>1, <1>7

\* A session past the handshake takes what the client asked.
LEMMA PhasePop ==
    ASSUME NEW ks, NEW ke, NEW ss, NEW U \in Seq(ClientMsg), NEW P \in Seq(ServerMsg),
           Phase(ks, ke, ss, U, P), U # <<>>, ss # "OPENING"
    PROVE  Phase(ks, ke, ss, Tail(U), P)
<1>1. NoHello(U) => NoHello(Tail(U))
  BY DEF NoHello
<1> QED BY <1>1 DEF Phase

\* A client past the handshake may ask for anything but HELLO.
LEMMA PhaseAsk ==
    ASSUME NEW ks, NEW ke, NEW ss, NEW U \in Seq(ClientMsg), NEW P \in Seq(ServerMsg),
           Phase(ks, ke, ss, U, P), ks \in {"CONNECTED", "CLOSING"},
           NEW m \in ClientMsg, m.type # "HELLO",
           NEW after \in {"CONNECTED", "CLOSING"}, NEW expects
    PROVE  Phase(after, expects, ss, Append(U, m), P) /\ Phase(after, expects, ss, U, P)
<1>1. m.type \notin {"HELLO", "BANNER"}
  BY DEF ClientMsg, ClientMsgHello
<1>2. NoHello(U) => NoHello(Append(U, m))
  BY <1>1, AppendFacts DEF NoHello
<1> QED BY <1>2 DEF Phase

\* What the first message on its way to the client can be, and where it leaves
\* the handshake.
ReceivedPhase(ks, ke, ss, U, P) ==
    /\ ks = "OPENING" =>
         \/ P[1] = ServerMsgBanner /\ ke = "SERVER_BANNER" /\ U = <<>> /\ ss # "CONNECTED" /\ Tail(P) = <<>>
         \/ /\ P[1] = ServerMsgHello /\ ke = "SERVER_HELLO" /\ U = <<>> /\ ss # "OPENING"
            /\ NoHello(Tail(P))
    /\ ks # "OPENING" => /\ P[1].type \in {"UPDATE_TICK", "DATA_STATUS", "DATA"}
                         /\ Phase(ks, ke, ss, U, Tail(P))
    /\ Phase("DISCONNECTED", ke, ss, U, Tail(P))
    /\ \A i \in 1..Len(Tail(P)) : Tail(P)[i].type \notin {"UNKNOWN", "GARBLED"}

\* The client receives only the messages its state expects.
LEMMA PhaseReceive ==
    ASSUME NEW ks \in {"OPENING", "CONNECTED", "CLOSING"}, NEW ke, NEW ss,
           NEW U \in Seq(ClientMsg), NEW P \in Seq(ServerMsg), P # <<>>, Phase(ks, ke, ss, U, P)
    PROVE  ReceivedPhase(ks, ke, ss, U, P)
<1>1. PICK Q : Q = Tail(P)
  OBVIOUS
<1>2. /\ Len(Q) \in Nat /\ Len(P) = Len(Q) + 1 /\ 1 \in 1..Len(P) /\ P[1] \in ServerMsg
      /\ \A i \in 1..Len(Q) : i + 1 \in 1..Len(P) /\ Q[i] = P[i + 1] /\ i + 1 > 1
  BY <1>1, TailFacts
<1>3. \A i \in 1..Len(Q) : Q[i].type \notin {"UNKNOWN", "GARBLED"}
  BY <1>2 DEF Phase
<1>4. NoHello(P) => NoHello(Q)
  BY <1>2 DEF NoHello
<1>5. Phase("DISCONNECTED", ke, ss, U, Q)
  BY <1>3 DEF Phase
<1>6. ASSUME ks = "OPENING"
      PROVE  \/ P[1] = ServerMsgBanner /\ ke = "SERVER_BANNER" /\ U = <<>> /\ ss # "CONNECTED" /\ Q = <<>>
             \/ /\ P[1] = ServerMsgHello /\ ke = "SERVER_HELLO" /\ U = <<>> /\ ss # "OPENING"
                /\ NoHello(Q)
  <2>1. P = <<ServerMsgBanner>> => P[1] = ServerMsgBanner /\ Q = <<>>
    BY <1>1
  <2>2. (\A i \in 1..Len(P) : i > 1 => P[i].type \notin {"HELLO", "BANNER"}) => NoHello(Q)
    BY <1>2 DEF NoHello
  <2> QED BY <1>6, <2>1, <2>2 DEF Phase
<1>7. ASSUME ks # "OPENING"
      PROVE  P[1].type \in {"UPDATE_TICK", "DATA_STATUS", "DATA"}
  <2>1. P[1].type \notin {"UNKNOWN", "GARBLED"} /\ P[1].type \notin {"HELLO", "BANNER"}
    BY <1>2, <1>7 DEF Phase, NoHello
  <2> QED BY <1>2, <2>1 DEF ServerMsg, Cleared, Garbled, ServerMsgBanner, ServerMsgHello
<1>8. ks # "OPENING" => Phase(ks, ke, ss, U, Q)
  BY <1>3, <1>4 DEF Phase
<1> QED BY <1>1, <1>3, <1>5, <1>6, <1>7, <1>8 DEF ReceivedPhase

-----------------------------------------------------------------------------
(***************************************************************************)
(* The data a client that is not about to leave will receive: tick is the  *)
(* last one it has seen, kd and ku what it has agreed to, sd and su what   *)
(* the session will send at the next update, v the last update.            *)
(***************************************************************************)
Stream(ks, kd, ku, tick, ss, sd, su, P, v) ==
    ks \in {"OPENING", "CONNECTED"} =>
        /\ TicksFollow(P, tick, ss = "CONNECTED", v)
        /\ DataFollow(P, tick, v)
        /\ FlagsAgree(P, kd, ku)
        /\ ss = "CONNECTED" => FlagsReady(P, kd, ku, sd, su)

\* The stream does not mind data left out, nor the session ending or taking
\* back its data.
LEMMA StreamThin ==
    ASSUME NEW P \in Seq(ServerMsg), NEW Q \in Seq(ServerMsg), NEW whole \in BOOLEAN, Thins(Q, P, whole),
           NEW ks, NEW kd, NEW ku, NEW tick, NEW ss, NEW sd, NEW su, NEW v,
           Stream(ks, kd, ku, tick, ss, sd, su, P, v),
           NEW after, (after = ss /\ whole) \/ after = "DISCONNECTED",
           NEW d, NEW u, (d = sd /\ u = su) \/ ~d
    PROVE  Stream(ks, kd, ku, tick, after, d, u, Q, v)
<1> SUFFICES ASSUME ks \in {"OPENING", "CONNECTED"}
             PROVE  /\ TicksFollow(Q, tick, after = "CONNECTED", v)
                    /\ DataFollow(Q, tick, v)
                    /\ FlagsAgree(Q, kd, ku)
                    /\ after = "CONNECTED" => FlagsReady(Q, kd, ku, d, u)
  BY DEF Stream
<1>1. /\ TicksFollow(P, tick, ss = "CONNECTED", v) /\ DataFollow(P, tick, v) /\ FlagsAgree(P, kd, ku)
      /\ ss = "CONNECTED" => FlagsReady(P, kd, ku, sd, su)
  BY DEF Stream
<1>2. PICK live \in BOOLEAN, now \in BOOLEAN : (live <=> ss = "CONNECTED") /\ (now <=> after = "CONNECTED")
  OBVIOUS
<1>3. now => live /\ whole
  BY <1>2
<1>4. TicksFollow(P, tick, live, v)
  BY <1>1, <1>2 DEF TicksFollow
<1>5. TicksFollow(Q, tick, now, v)
  BY <1>3, <1>4, ThinTicks
<1>6. TicksFollow(Q, tick, after = "CONNECTED", v)
  BY <1>2, <1>5 DEF TicksFollow
<1>7. DataFollow(Q, tick, v)
  BY <1>1, ThinData
<1>8. FlagsAgree(Q, kd, ku)
  BY <1>1, ThinFlags
<1>9. ASSUME after = "CONNECTED" PROVE FlagsReady(Q, kd, ku, d, u)
  <2>1. whole /\ FlagsReady(P, kd, ku, sd, su)
    BY <1>1, <1>9
  <2>2. FlagsReady(Q, kd, ku, sd, su)
    BY <2>1, ThinFlags
  <2>3. CASE ~d
    BY <2>3 DEF FlagsReady
  <2>4. CASE d = sd /\ u = su
    BY <2>2, <2>4
  <2> QED BY <2>3, <2>4
<1> QED BY <1>6, <1>7, <1>8, <1>9

\* An answer changes what the session may send at the next update.
LEMMA StreamStatus ==
    ASSUME NEW P \in Seq(ServerMsg), NEW m \in ServerMsg, m.type = "DATA_STATUS", Statuses(P) = {},
           NEW ks, NEW kd, NEW ku, NEW tick, NEW sd, NEW su, NEW v,
           Stream(ks, kd, ku, tick, "CONNECTED", sd, su, P, v)
    PROVE  Stream(ks, kd, ku, tick, "CONNECTED", m.dataFlags, m.dataUpdateFlags, Append(P, m), v)
<1>1. PICK Q : Q = Append(P, m)
  OBVIOUS
<1>2. \A live : /\ TicksFollow(P, tick, live, v) => TicksFollow(Q, tick, live, v)
                /\ DataFollow(P, tick, v) => DataFollow(Q, tick, v)
                /\ FlagsAgree(P, kd, ku) => FlagsAgree(Q, kd, ku)
                /\ FlagsReady(Q, kd, ku, m.dataFlags, m.dataUpdateFlags)
  BY <1>1, AppendOther
<1>3. Stream(ks, kd, ku, tick, "CONNECTED", m.dataFlags, m.dataUpdateFlags, Q, v)
  BY <1>2 DEF Stream
<1> QED BY <1>1, <1>3

\* A session that opens has not sent anything yet.
LEMMA StreamHello ==
    ASSUME NEW P \in Seq(ServerMsg), NEW ks, ks = "OPENING" => P = <<>>, ks # "CONNECTED",
           NEW kd, NEW ku, NEW su, NEW v \in Nat
    PROVE  Stream(ks, kd, ku, 0, "CONNECTED", FALSE, su, Append(P, ServerMsgHello), v)
<1>1. PICK Q : Q = Append(P, ServerMsgHello)
  OBVIOUS
<1>2. ASSUME P = <<>> PROVE Ticks(Q) = {} /\ Datas(Q) = {} /\ Statuses(Q) = {}
  <2>1. Q = <<ServerMsgHello>> /\ Len(Q) = 1 /\ Q[1] = ServerMsgHello
    BY <1>1, <1>2
  <2>2. \A i \in 1..Len(Q) : Q[i].type = "HELLO"
    BY <2>1 DEF ServerMsgHello
  <2> QED BY <2>2 DEF Ticks, Datas, Statuses
<1>3. P = <<>> => /\ TicksFollow(Q, 0, TRUE, v) /\ DataFollow(Q, 0, v) /\ FlagsAgree(Q, kd, ku)
                  /\ FlagsReady(Q, kd, ku, FALSE, su)
  BY <1>2 DEF TicksFollow, DataFollow, FlagsAgree, FlagsReady
<1>4. Stream(ks, kd, ku, 0, "CONNECTED", FALSE, su, Q, v)
  BY <1>3 DEF Stream, TicksFollow
<1> QED BY <1>1, <1>4

\* An update sends its tick and, to whom it granted them, its data.
LEMMA StreamUpdate ==
    ASSUME NEW P \in Seq(ServerMsg), NEW v \in Nat,
           NEW t \in ServerMsg, t = ServerMsgUpdateTick((v + 1) % TimestampMod, v + 1),
           NEW ks, NEW kd, NEW ku, NEW tick \in Nat, NEW sd, NEW su,
           Stream(ks, kd, ku, tick, "CONNECTED", sd, su, P, v)
    PROVE  /\ \A u : Stream(ks, kd, ku, tick, "CONNECTED", FALSE, u, Append(P, t), v + 1)
           /\ \A u : \A m \in ServerMsg :
                m.type = "DATA" /\ m.version = v + 1 /\ sd /\ (m.isUpdate => su) =>
                  Stream(ks, kd, ku, tick, "CONNECTED", FALSE, u, Append(Append(P, t), m), v + 1)
<1>1. PICK Q : Q = Append(P, t)
  OBVIOUS
<1>2. Q \in Seq(ServerMsg) /\ Len(P) + 1 \in 1..Len(Q) /\ Q[Len(P) + 1] = t
  BY <1>1
<1>3. t.type = "UPDATE_TICK" /\ t.version = v + 1 /\ t.timestamp = (v + 1) % TimestampMod
  BY DEF ServerMsgUpdateTick
<1>4. ASSUME ks \in {"OPENING", "CONNECTED"}
      PROVE  /\ TicksFollow(Q, tick, TRUE, v + 1) /\ DataFollow(Q, tick, v + 1) /\ FlagsAgree(Q, kd, ku)
             /\ FlagsReady(Q, kd, ku, sd, su)
             /\ \E i \in Ticks(Q) : Q[i].version = v + 1
  <2>1. /\ TicksFollow(P, tick, TRUE, v) /\ DataFollow(P, tick, v) /\ FlagsAgree(P, kd, ku)
        /\ FlagsReady(P, kd, ku, sd, su)
    BY <1>4 DEF Stream, TicksFollow
  <2>2. /\ TicksFollow(Q, tick, TRUE, v + 1) /\ DataFollow(Q, tick, v + 1) /\ FlagsAgree(Q, kd, ku)
        /\ Statuses(Q) = Statuses(P) /\ \A i \in Statuses(P) : Q[i] = P[i]
    BY <1>1, <1>3, <2>1, AppendTick
  <2>3. FlagsReady(Q, kd, ku, sd, su)
    BY <2>1, <2>2 DEF FlagsReady
  <2>4. Len(P) + 1 \in Ticks(Q) /\ Q[Len(P) + 1].version = v + 1
    BY <1>2, <1>3 DEF Ticks
  <2> QED BY <2>2, <2>3, <2>4
<1>5. \A u : Stream(ks, kd, ku, tick, "CONNECTED", FALSE, u, Q, v + 1)
  BY <1>4 DEF Stream, FlagsReady, TicksFollow
<1>6. ASSUME NEW m \in ServerMsg, NEW u, m.type = "DATA", m.version = v + 1, sd, m.isUpdate => su
      PROVE  Stream(ks, kd, ku, tick, "CONNECTED", FALSE, u, Append(Q, m), v + 1)
  <2>1. SUFFICES ASSUME ks \in {"OPENING", "CONNECTED"}
                 PROVE  /\ TicksFollow(Append(Q, m), tick, TRUE, v + 1) /\ DataFollow(Append(Q, m), tick, v + 1)
                        /\ FlagsAgree(Append(Q, m), kd, ku)
    BY DEF Stream, FlagsReady, TicksFollow
  <2>2. FlagsReady(Q, kd, ku, TRUE, m.isUpdate)
    BY <1>4, <1>6, <2>1 DEF FlagsReady
  <2>3. v + 1 \in Nat
    OBVIOUS
  <2> QED BY <1>2, <1>4, <1>6, <2>1, <2>2, <2>3, AppendData
<1> QED BY <1>1, <1>5, <1>6

\* A session that is over sends nothing at an update.
LEMMA StreamLater ==
    ASSUME NEW ks, NEW kd, NEW ku, NEW tick, NEW ss, NEW sd, NEW su, NEW P, NEW v \in Nat,
           Stream(ks, kd, ku, tick, ss, sd, su, P, v), ss # "CONNECTED",
           NEW after, after # "CONNECTED", NEW d, NEW u
    PROVE  Stream(ks, kd, ku, tick, after, d, u, P, v + 1) /\ Stream(ks, kd, ku, tick, after, d, u, P, v)
<1>1. ASSUME ks \in {"OPENING", "CONNECTED"}
      PROVE  /\ TicksFollow(P, tick, FALSE, v) /\ DataFollow(P, tick, v) /\ FlagsAgree(P, kd, ku)
             /\ TicksFollow(P, tick, FALSE, v + 1) /\ DataFollow(P, tick, v + 1)
  <2>1. TicksFollow(P, tick, FALSE, v) /\ DataFollow(P, tick, v) /\ FlagsAgree(P, kd, ku)
    BY <1>1 DEF Stream, TicksFollow
  <2>2. v + 1 \in Nat /\ v <= v + 1
    OBVIOUS
  <2> QED BY <2>1, <2>2, LaterVersion
<1> QED BY <1>1 DEF Stream, TicksFollow

\* What the client finds in the stream: the next tick, the answer, or data of
\* its last tick.
ReceivedStream(kd, ku, tick, ss, sd, su, P, v) ==
    /\ P[1].type = "UPDATE_TICK" =>
         /\ P[1].version \in 1..v /\ P[1].timestamp = P[1].version % TimestampMod
         /\ tick # 0 => P[1].version = tick + 1
         /\ Stream("CONNECTED", kd, ku, P[1].version, ss, sd, su, Tail(P), v)
    /\ P[1].type = "DATA_STATUS" =>
         Stream("CONNECTED", P[1].dataFlags, P[1].dataUpdateFlags, tick, ss, sd, su, Tail(P), v)
    /\ P[1].type = "DATA" => /\ kd /\ (P[1].isUpdate => ku)
                             /\ P[1].version \in Nat /\ (tick # 0 => P[1].version = tick)
    /\ P[1].type \notin {"UPDATE_TICK", "DATA_STATUS"} =>
         \A s \in {"OPENING", "CONNECTED"} : Stream(s, kd, ku, tick, ss, sd, su, Tail(P), v)

\* The stream keeps its order when the client takes the first message.
LEMMA StreamReceive ==
    ASSUME NEW P \in Seq(ServerMsg), P # <<>>,
           NEW ks \in {"OPENING", "CONNECTED"}, NEW kd, NEW ku, NEW tick \in Nat, NEW ss, NEW sd, NEW su,
           NEW v \in Nat, Stream(ks, kd, ku, tick, ss, sd, su, P, v)
    PROVE  ReceivedStream(kd, ku, tick, ss, sd, su, P, v)
<1>1. PICK Q : Q = Tail(P)
  OBVIOUS
<1>2. PICK live : live <=> ss = "CONNECTED"
  OBVIOUS
<1>3. /\ TicksFollow(P, tick, live, v) /\ DataFollow(P, tick, v) /\ FlagsAgree(P, kd, ku)
      /\ ss = "CONNECTED" => FlagsReady(P, kd, ku, sd, su)
  BY <1>2 DEF Stream, TicksFollow
<1>4. /\ P[1].type # "DATA_STATUS" =>
                /\ FlagsAgree(Q, kd, ku)
                /\ \A d, u : FlagsReady(P, kd, ku, d, u) => FlagsReady(Q, kd, ku, d, u)
      /\ P[1].type = "DATA_STATUS" =>
                /\ FlagsAgree(Q, P[1].dataFlags, P[1].dataUpdateFlags)
                /\ \A d, u : FlagsReady(P, kd, ku, d, u) =>
                     FlagsReady(Q, P[1].dataFlags, P[1].dataUpdateFlags, d, u)
      /\ P[1].type = "DATA" => kd /\ (P[1].isUpdate => ku)
  BY <1>1, <1>3, TailFlags
<1>5. ASSUME P[1].type = "UPDATE_TICK"
      PROVE  /\ P[1].version \in 1..v /\ P[1].timestamp = P[1].version % TimestampMod
             /\ tick # 0 => P[1].version = tick + 1
             /\ Stream("CONNECTED", kd, ku, P[1].version, ss, sd, su, Q, v)
  <2>1. /\ P[1].version \in 1..v /\ P[1].timestamp = P[1].version % TimestampMod
        /\ tick # 0 => P[1].version = tick + 1
        /\ TicksFollow(Q, P[1].version, live, v)
        /\ DataFollow(Q, P[1].version, v)
    BY <1>1, <1>3, <1>5, TailTick
  <2>2. TicksFollow(Q, P[1].version, ss = "CONNECTED", v)
    BY <1>2, <2>1 DEF TicksFollow
  <2> QED BY <1>3, <1>4, <1>5, <2>1, <2>2 DEF Stream
<1>6. ASSUME P[1].type # "UPDATE_TICK"
      PROVE  /\ TicksFollow(Q, tick, ss = "CONNECTED", v) /\ DataFollow(Q, tick, v)
             /\ P[1].type = "DATA" => P[1].version \in Nat /\ (tick # 0 => P[1].version = tick)
  <2>1. /\ TicksFollow(Q, tick, live, v) /\ DataFollow(Q, tick, v)
        /\ P[1].type = "DATA" => P[1].version \in 0..v /\ (tick # 0 => P[1].version = tick)
    BY <1>1, <1>3, <1>6, TailOther
  <2>2. TicksFollow(Q, tick, ss = "CONNECTED", v)
    BY <1>2, <2>1 DEF TicksFollow
  <2> QED BY <2>1, <2>2
<1>7. P[1].type = "DATA_STATUS" =>
        Stream("CONNECTED", P[1].dataFlags, P[1].dataUpdateFlags, tick, ss, sd, su, Q, v)
  BY <1>3, <1>4, <1>6 DEF Stream
<1>8. P[1].type \notin {"UPDATE_TICK", "DATA_STATUS"} =>
        \A s \in {"OPENING", "CONNECTED"} : Stream(s, kd, ku, tick, ss, sd, su, Q, v)
  BY <1>3, <1>4, <1>6 DEF Stream
<1> QED BY <1>1, <1>4, <1>5, <1>6, <1>7, <1>8 DEF ReceivedStream

-----------------------------------------------------------------------------
(***************************************************************************)
(* The vocabulary of the protocol is the same in the modules of both ends. *)
(***************************************************************************)
LEMMA ServerNames ==
    /\ S!ServerMsg = ServerMsg /\ S!ESessionState = ESessionState /\ S!EDisconnectReason = EDisconnectReason
    /\ S!Cleared = Cleared /\ S!Garbled = Garbled
    /\ S!ServerMsgBanner = ServerMsgBanner /\ S!ServerMsgHello = ServerMsgHello
    /\ \A d, u : S!ServerMsgDataStatus(d, u) = ServerMsgDataStatus(d, u)
    /\ S!Idle = Idle /\ S!Part = Part /\ S!Body = Body
BY DEF S!ServerMsg, ServerMsg, S!ESessionState, ESessionState, S!EDisconnectReason, EDisconnectReason,
       S!Cleared, Cleared, S!Garbled, Garbled, S!ServerMsgBanner, ServerMsgBanner, S!ServerMsgHello, ServerMsgHello,
       S!ServerMsgDataStatus, ServerMsgDataStatus,
       S!VERSION, VERSION, S!Idle, Idle, S!Part, Part, S!Body, Body

\* The server's Selected is that of the writer's module.
LEMMA ServerSelected ==
    ASSUME NEW q, NEW I
    PROVE  S!Selected(q, I) = Selected(q, I)
BY DEF S!Selected, Selected, S!Cardinality, Cardinality

\* The server's Emitted is that of the writer's module.
LEMMA ServerEmitted ==
    ASSUME NEW pending, NEW n, NEW pos, NEW text
    PROVE  S!Emitted(pending, n, pos, text) = Emitted(pending, n, pos, text)
BY ServerNames, ServerSelected DEF S!Emitted, Emitted

\* The vocabulary of the client's module.
LEMMA ClientNames ==
    /\ C!ServerMsg = ServerMsg /\ C!ClientMsg = ClientMsg
    /\ C!ESessionState = ESessionState /\ C!EDisconnectReason = EDisconnectReason
    /\ C!Cleared = Cleared /\ C!ClientMsgHello = ClientMsgHello
    /\ \A r : C!ClientMsgDisconnect(r) = ClientMsgDisconnect(r)
    /\ \A d, u : C!ClientMsgRequestData(d, u) = ClientMsgRequestData(d, u)
    /\ C!Idle = Idle /\ C!Part = Part /\ C!Body = Body
BY DEF C!ServerMsg, ServerMsg, C!ClientMsg, ClientMsg, C!ESessionState, ESessionState,
       C!EDisconnectReason, EDisconnectReason,
       C!Cleared, Cleared, C!Garbled, Garbled, C!ServerMsgBanner, ServerMsgBanner, C!ServerMsgHello, ServerMsgHello,
       C!ClientMsgHello, ClientMsgHello, C!ClientMsgDisconnect, ClientMsgDisconnect,
       C!ClientMsgRequestData, ClientMsgRequestData,
       C!VERSION, VERSION, C!Idle, Idle, C!Part, Part, C!Body, Body

\* The client's Selected is that of the writer's module.
LEMMA ClientSelected ==
    ASSUME NEW q, NEW I
    PROVE  C!Selected(q, I) = Selected(q, I)
BY DEF C!Selected, Selected, C!Cardinality, Cardinality

\* The client's Emitted is that of the writer's module.
LEMMA ClientEmitted ==
    ASSUME NEW pending, NEW n, NEW pos, NEW text
    PROVE  C!Emitted(pending, n, pos, text) = Emitted(pending, n, pos, text)
<1>1. C!Garbled = Garbled
  BY DEF C!Garbled, Garbled
<1> QED BY <1>1, ClientNames, ClientSelected DEF C!Emitted, Emitted

\* The messages of both ends are of their types.
LEMMA Vocabulary ==
    /\ Cleared \in ServerMsg /\ Garbled \in ServerMsg /\ ServerMsgBanner \in ServerMsg /\ ServerMsgHello \in ServerMsg
    /\ \A t \in 0..TimestampMod - 1, v \in Nat : ServerMsgUpdateTick(t, v) \in ServerMsg
    /\ \A d, u \in BOOLEAN : ServerMsgDataStatus(d, u) \in ServerMsg
    /\ \A u \in BOOLEAN, v \in Nat : ServerMsgData(u, v) \in ServerMsg
    /\ ClientMsgHello \in ClientMsg
    /\ \A r \in EDisconnectReason : ClientMsgDisconnect(r) \in ClientMsg
    /\ \A d, u \in BOOLEAN : ClientMsgRequestData(d, u) \in ClientMsg
    /\ \A d, u : ServerMsgDataStatus(d, u).type = "DATA_STATUS"
    /\ \A t, v : ServerMsgUpdateTick(t, v).type = "UPDATE_TICK"
    /\ \A u, v : ServerMsgData(u, v).type = "DATA" /\ ServerMsgData(u, v).isUpdate = u
                 /\ ServerMsgData(u, v).version = v
    /\ Cleared.type = "UNKNOWN" /\ Garbled.type = "GARBLED" /\ ServerMsgBanner.type = "BANNER"
    /\ ServerMsgHello.type = "HELLO" /\ ClientMsgHello.type = "HELLO"
BY DEF ServerMsg, Cleared, Garbled, ServerMsgBanner, ServerMsgHello, ServerMsgUpdateTick, ServerMsgDataStatus,
       ServerMsgData, ClientMsg, ClientMsgHello, ClientMsgDisconnect, ClientMsgRequestData

-----------------------------------------------------------------------------
(***************************************************************************)
(* What the operations of a session do to the fields the proofs look at.   *)
(***************************************************************************)
SessionIs(r, state, queue, writer, sending, d, u, reason) ==
    /\ r \in S!ServerSessionType
    /\ r.state = state /\ r.sendQueue = queue /\ r.writer = writer /\ r.isSendingData = sending
    /\ r.dataFlags = d /\ r.dataUpdateFlags = u /\ r.reason = reason

\* The fields of a session.
LEMMA SessionFields ==
    ASSUME NEW s \in S!ServerSessionType
    PROVE  /\ s.state \in ESessionState /\ s.sendQueue \in Seq(S!QueuedMsg) /\ s.writer \in S!ServerWriter
           /\ s.isSendingData \in BOOLEAN /\ s.dataFlags \in BOOLEAN /\ s.dataUpdateFlags \in BOOLEAN
           /\ s.pollOut \in BOOLEAN /\ s.reason \in EDisconnectReason
           /\ SessionIs(s, s.state, s.sendQueue, s.writer, s.isSendingData, s.dataFlags, s.dataUpdateFlags, s.reason)
BY ServerNames DEF S!ServerSessionType, SessionIs

\* Changing the queue and the poll mask changes nothing else of a session.
LEMMA SessionPoll ==
    ASSUME NEW s \in S!ServerSessionType, NEW q \in Seq(S!QueuedMsg), NEW b \in BOOLEAN
    PROVE  /\ SessionIs([s EXCEPT !.sendQueue = q, !.pollOut = b], s.state, q, s.writer, s.isSendingData,
                        s.dataFlags, s.dataUpdateFlags, s.reason)
           /\ SessionIs([s EXCEPT !.pollOut = b], s.state, s.sendQueue, s.writer, s.isSendingData,
                        s.dataFlags, s.dataUpdateFlags, s.reason)
BY ServerNames DEF S!ServerSessionType, SessionIs

\* Changing the state changes nothing else of a session.
LEMMA SessionState ==
    ASSUME NEW s \in S!ServerSessionType, NEW state \in ESessionState
    PROVE  SessionIs([s EXCEPT !.state = state], state, s.sendQueue, s.writer, s.isSendingData,
                     s.dataFlags, s.dataUpdateFlags, s.reason)
BY ServerNames DEF S!ServerSessionType, SessionIs

\* Changing the flags changes nothing else of a session.
LEMMA SessionFlags ==
    ASSUME NEW s \in S!ServerSessionType, NEW d \in BOOLEAN, NEW u \in BOOLEAN
    PROVE  SessionIs([s EXCEPT !.dataFlags = d, !.dataUpdateFlags = u], s.state, s.sendQueue, s.writer,
                     s.isSendingData, d, u, s.reason)
BY ServerNames DEF S!ServerSessionType, SessionIs

\* Changing the writer, and the queue with it, changes nothing else of a
\* session.
LEMMA SessionWriter ==
    ASSUME NEW s \in S!ServerSessionType, NEW w \in S!ServerWriter, NEW q \in Seq(S!QueuedMsg), NEW b \in BOOLEAN
    PROVE  /\ SessionIs([s EXCEPT !.writer = w], s.state, s.sendQueue, w, s.isSendingData,
                        s.dataFlags, s.dataUpdateFlags, s.reason)
           /\ SessionIs([s EXCEPT !.writer = w, !.sendQueue = q, !.isSendingData = b], s.state, q, w, b,
                        s.dataFlags, s.dataUpdateFlags, s.reason)
           /\ SessionIs([s EXCEPT !.sendQueue = q, !.writer = w, !.isSendingData = b], s.state, q, w, b,
                        s.dataFlags, s.dataUpdateFlags, s.reason)
BY ServerNames DEF S!ServerSessionType, SessionIs

\* Re-arming the poll mask changes nothing the proofs look at.
LEMMA SessionRearm ==
    ASSUME NEW s \in S!ServerSessionType
    PROVE  SessionIs(S!Rearm(s), s.state, s.sendQueue, s.writer, s.isSendingData,
                     s.dataFlags, s.dataUpdateFlags, s.reason)
<1> DEFINE b == s.state # "DISCONNECTED" /\ s.sendQueue # <<>>
<1>1. b \in BOOLEAN
  OBVIOUS
<1>2. S!Rearm(s) = [s EXCEPT !.pollOut = b]
  BY DEF S!Rearm
<1> HIDE DEF b
<1>3. s.sendQueue \in Seq(S!QueuedMsg)
  BY SessionFields
<1> QED BY <1>1, <1>2, <1>3, SessionPoll

\* sendMessage of the server's session appends to the queue.
LEMMA SessionEnqueue ==
    ASSUME NEW s \in S!ServerSessionType, NEW e \in S!QueuedMsg
    PROVE  SessionIs(S!Enqueue(s, e), s.state, Append(s.sendQueue, e), s.writer, s.isSendingData,
                     s.dataFlags, s.dataUpdateFlags, s.reason)
<1> DEFINE q == Append(s.sendQueue, e)
           b == s.pollOut \/ s.sendQueue = <<>>
<1>1. q \in Seq(S!QueuedMsg)
  BY SessionFields
<1>2. b \in BOOLEAN
  BY SessionFields
<1>3. S!Enqueue(s, e) = [s EXCEPT !.sendQueue = q, !.pollOut = b]
  BY DEF S!Enqueue
<1>4. q = Append(s.sendQueue, e)
  OBVIOUS
<1> HIDE DEF q, b
<1>5. SessionIs([s EXCEPT !.sendQueue = q, !.pollOut = b], s.state, q, s.writer, s.isSendingData,
                s.dataFlags, s.dataUpdateFlags, s.reason)
  BY <1>1, <1>2, SessionPoll
<1> QED BY <1>3, <1>4, <1>5

\* quickDisconnect of the server's session drops the queue and keeps the flags.
LEMMA SessionClose ==
    ASSUME NEW s \in S!ServerSessionType, NEW r \in EDisconnectReason
    PROVE  SessionIs(S!quickDisconnect(s, r), "DISCONNECTED", <<>>, s.writer, FALSE,
                     s.dataFlags, s.dataUpdateFlags, r)
<1>1. ASSUME NEW state \in ESessionState, NEW q \in Seq(S!QueuedMsg), NEW b \in BOOLEAN, NEW p \in BOOLEAN
      PROVE  SessionIs([s EXCEPT !.state = state, !.isSendingData = b, !.sendQueue = q, !.pollOut = p, !.reason = r],
                  state, q, s.writer, b, s.dataFlags, s.dataUpdateFlags, r)
  BY ServerNames DEF S!ServerSessionType, SessionIs
<1>2. "DISCONNECTED" \in ESessionState /\ <<>> \in Seq(S!QueuedMsg) /\ FALSE \in BOOLEAN
  BY DEF ESessionState
<1> QED BY <1>1, <1>2 DEF S!quickDisconnect

\* The shared messages, as Server::onUpdate leaves them.
SharedOK(sh, v) ==
    /\ sh \in [S!SharedBuf -> ServerMsg]
    /\ sh["BANNER"] = ServerMsgBanner
    /\ sh["HELLO"] = ServerMsgHello
    /\ sh["TICK"] = ServerMsgUpdateTick(v % TimestampMod, v)
    /\ sh["FULL"] \in {Cleared, ServerMsgData(FALSE, v)}
    /\ sh["UPDATE"] \in {Cleared, ServerMsgData(TRUE, v)}

\* A new session has a BANNER to send.
LEMMA SessionNew ==
    ASSUME NEW sh, NEW v, SharedOK(sh, v)
    PROVE  SessionIs(S!NewServerSession(sh), "OPENING", <<[buf |-> "BANNER", msg |-> ServerMsgBanner]>>,
                     S!Idle, FALSE, FALSE, FALSE, "UNKNOWN")
<1>1. S!Idle \in S!ServerWriter
  BY ServerNames, Vocabulary DEF S!Idle, S!ServerWriter, S!SharedBuf
<1>2. S!NoServerSession \in S!ServerSessionType
  BY <1>1, ServerNames DEF S!NoServerSession, S!ServerSessionType, ESessionState, EDisconnectReason
<1> DEFINE n == [S!NoServerSession EXCEPT !.state = "OPENING"]
           e == [buf |-> "BANNER", msg |-> ServerMsgBanner]
<1>3. SessionIs(n, "OPENING", <<>>, S!Idle, FALSE, FALSE, FALSE, "UNKNOWN")
  <2>1. SessionIs(S!NoServerSession, "DISCONNECTED", <<>>, S!Idle, FALSE, FALSE, FALSE, "UNKNOWN")
    BY <1>2 DEF SessionIs, S!NoServerSession
  <2> QED BY <2>1, SessionState DEF SessionIs, ESessionState
<1>4. e \in S!QueuedMsg
  BY ServerNames, Vocabulary DEF S!QueuedMsg, S!SharedBuf
<1>5. S!NewServerSession(sh) = S!Enqueue(n, e)
  BY DEF S!NewServerSession, S!sendSharedMessage, SharedOK
<1>6. Append(<<>>, e) = <<e>>
  OBVIOUS
<1> HIDE DEF n, e
<1>7. SessionIs(S!Enqueue(n, e), "OPENING", <<e>>, S!Idle, FALSE, FALSE, FALSE, "UNKNOWN")
  BY <1>3, <1>4, <1>6, SessionEnqueue DEF SessionIs
<1> QED BY <1>5, <1>7 DEF e

\* What a message of the client does to the session: HELLO, DISCONNECT,
\* REQUEST_DATA, or an error.
LEMMA SessionInput ==
    ASSUME NEW sh, NEW v, SharedOK(sh, v), NEW s \in S!ServerSessionType, NEW m \in ClientMsg
    PROVE  \/ /\ m.type = "HELLO" /\ s.state = "OPENING"
              /\ SessionIs(S!HandleInput(s, m, sh), "CONNECTED",
                           Append(s.sendQueue, [buf |-> "HELLO", msg |-> ServerMsgHello]),
                           s.writer, s.isSendingData, s.dataFlags, s.dataUpdateFlags, s.reason)
           \/ /\ m.type = "DISCONNECT"
              /\ SessionIs(S!HandleInput(s, m, sh), "DISCONNECTED", <<>>, s.writer, FALSE,
                           s.dataFlags, s.dataUpdateFlags, m.reason)
           \/ /\ m.type = "REQUEST_DATA" /\ s.state = "CONNECTED"
              /\ SessionIs(S!HandleInput(s, m, sh), "CONNECTED",
                           Append(s.sendQueue, [buf |-> "OWN", msg |-> ServerMsgDataStatus(m.dataFlags, m.dataUpdateFlags)]),
                           s.writer, s.isSendingData, m.dataFlags, m.dataUpdateFlags, s.reason)
           \/ /\ ~(m.type = "HELLO" /\ s.state = "OPENING") /\ m.type # "DISCONNECT"
              /\ ~(m.type = "REQUEST_DATA" /\ s.state = "CONNECTED")
              /\ SessionIs(S!HandleInput(s, m, sh), "DISCONNECTED", <<>>, s.writer, FALSE,
                           s.dataFlags, s.dataUpdateFlags, "PROTOCOL_ERROR")
<1> DEFINE o == S!onMessage(s, m, sh)
<1>0. S!HandleInput(s, m, sh) = S!Rearm(o)
  BY DEF S!HandleInput
<1>1. CASE m.type = "HELLO" /\ s.state = "OPENING"
  <2> DEFINE e == [buf |-> "HELLO", msg |-> ServerMsgHello]
             q == S!Enqueue(s, e)
  <2>1. e \in S!QueuedMsg
    BY ServerNames, Vocabulary DEF S!QueuedMsg, S!SharedBuf
  <2>2. o = [q EXCEPT !.state = "CONNECTED"]
    <3>1. S!sendSharedMessage(s, "HELLO", sh) = q
      BY DEF S!sendSharedMessage, SharedOK
    <3> HIDE DEF q
    <3>2. o = [S!sendSharedMessage(s, "HELLO", sh) EXCEPT !.state = "CONNECTED"]
      <4>1. m.type # "DISCONNECT" /\ ~S!AcceptsRequest(s, m)
        BY <1>1 DEF S!AcceptsRequest
      <4> QED BY <1>1, <4>1, Zenon DEF S!onMessage
    <3> QED BY <3>1, <3>2
  <2> HIDE DEF e, o
  <2>3. SessionIs(q, s.state, Append(s.sendQueue, e), s.writer, s.isSendingData, s.dataFlags, s.dataUpdateFlags, s.reason)
    BY <2>1, SessionEnqueue
  <2> HIDE DEF q
  <2>4. SessionIs(o, "CONNECTED", Append(s.sendQueue, e), s.writer, s.isSendingData, s.dataFlags, s.dataUpdateFlags, s.reason)
    BY <2>2, <2>3, SessionState DEF SessionIs, ESessionState
  <2>5. SessionIs(S!Rearm(o), "CONNECTED", Append(s.sendQueue, e), s.writer, s.isSendingData, s.dataFlags, s.dataUpdateFlags, s.reason)
    BY <2>4, SessionRearm DEF SessionIs
  <2> QED BY <1>0, <1>1, <2>5 DEF e
<1>2. CASE m.type = "DISCONNECT"
  <2>1. m.reason \in EDisconnectReason
    BY <1>2 DEF ClientMsg, ClientMsgHello
  <2>2. o = S!quickDisconnect(s, m.reason)
    BY <1>2 DEF S!onMessage, S!AcceptsRequest
  <2> HIDE DEF o
  <2>3. SessionIs(o, "DISCONNECTED", <<>>, s.writer, FALSE, s.dataFlags, s.dataUpdateFlags, m.reason)
    BY <2>1, <2>2, SessionClose
  <2>4. SessionIs(S!Rearm(o), "DISCONNECTED", <<>>, s.writer, FALSE, s.dataFlags, s.dataUpdateFlags, m.reason)
    BY <2>3, SessionRearm DEF SessionIs
  <2> QED BY <1>0, <1>2, <2>4
<1>3. CASE m.type = "REQUEST_DATA" /\ s.state = "CONNECTED"
  <2> DEFINE e == [buf |-> "OWN", msg |-> ServerMsgDataStatus(m.dataFlags, m.dataUpdateFlags)]
             f == [s EXCEPT !.dataFlags = m.dataFlags, !.dataUpdateFlags = m.dataUpdateFlags]
  <2>1. m.dataFlags \in BOOLEAN /\ m.dataUpdateFlags \in BOOLEAN
    BY <1>3 DEF ClientMsg, ClientMsgHello
  <2>2. e \in S!QueuedMsg
    BY <2>1, ServerNames, Vocabulary DEF S!QueuedMsg, S!SharedBuf
  <2>3. o = S!Enqueue(f, e)
    <3>1. S!sendDataStatus(s, m.dataFlags, m.dataUpdateFlags) = S!Enqueue(f, e)
      BY <1>3, ServerNames, Zenon DEF S!sendDataStatus, S!sendMessage
    <3>2. S!AcceptsRequest(s, m)
      BY <1>3 DEF S!AcceptsRequest
    <3>3. m.type # "HELLO" /\ m.type # "DISCONNECT"
      BY <1>3
    <3> HIDE DEF f, e
    <3> QED BY <3>1, <3>2, <3>3, Zenon DEF S!onMessage
  <2> HIDE DEF e, o
  <2>4. SessionIs(f, s.state, s.sendQueue, s.writer, s.isSendingData, m.dataFlags, m.dataUpdateFlags, s.reason)
    BY <2>1, SessionFlags
  <2> HIDE DEF f
  <2>5. SessionIs(o, s.state, Append(s.sendQueue, e), s.writer, s.isSendingData, m.dataFlags, m.dataUpdateFlags, s.reason)
    BY <2>2, <2>3, <2>4, SessionEnqueue DEF SessionIs
  <2>6. SessionIs(S!Rearm(o), "CONNECTED", Append(s.sendQueue, e), s.writer, s.isSendingData, m.dataFlags, m.dataUpdateFlags, s.reason)
    BY <1>3, <2>5, SessionRearm DEF SessionIs
  <2> QED BY <1>0, <1>3, <2>6 DEF e
<1>4. CASE /\ ~(m.type = "HELLO" /\ s.state = "OPENING") /\ m.type # "DISCONNECT"
           /\ ~(m.type = "REQUEST_DATA" /\ s.state = "CONNECTED")
  <2>1. o = S!quickDisconnect(s, "PROTOCOL_ERROR")
    BY <1>4 DEF S!onMessage, S!AcceptsRequest
  <2> HIDE DEF o
  <2>2. SessionIs(o, "DISCONNECTED", <<>>, s.writer, FALSE, s.dataFlags, s.dataUpdateFlags, "PROTOCOL_ERROR")
    BY <2>1, SessionClose DEF EDisconnectReason
  <2>3. SessionIs(S!Rearm(o), "DISCONNECTED", <<>>, s.writer, FALSE, s.dataFlags, s.dataUpdateFlags, "PROTOCOL_ERROR")
    BY <2>2, SessionRearm DEF SessionIs
  <2> QED BY <1>0, <1>4, <2>3
<1> QED BY <1>1, <1>2, <1>3, <1>4

-----------------------------------------------------------------------------
(***************************************************************************)
(* A message of each shared object, and OWN messages, have a known type.   *)
(***************************************************************************)
OfBuf(buf, m) ==
    /\ buf = "OWN" => m.type = "DATA_STATUS"
    /\ buf = "BANNER" => m = ServerMsgBanner
    /\ buf = "HELLO" => m = ServerMsgHello
    /\ buf = "TICK" => m.type = "UPDATE_TICK"
    /\ buf = "FULL" => m.type = "DATA" /\ ~m.isUpdate
    /\ buf = "UPDATE" => m.type = "DATA" /\ m.isUpdate

(***************************************************************************)
(* A session's queue, writer and flags.  A writer holds a message only     *)
(* while a part of it is sent; of the messages that Server::onUpdate       *)
(* replaces it points only to a tick, unless the session knows that it is  *)
(* sending data.                                                           *)
(***************************************************************************)
WriterOK(state, q, w, sending, d) ==
    /\ \A i \in 1..Len(q) : OfBuf(q[i].buf, q[i].msg)
    /\ w.kind # "NONE" => OfBuf(w.buf, w.msg) /\ w.pos # 0
    /\ w.kind = "OWN" => w.buf = "OWN"
    /\ w.dangling => w.kind # "NONE" /\ w.buf = "TICK"
    /\ w.kind = "SHARED" /\ w.buf \in {"FULL", "UPDATE"} => sending \/ state = "DISCONNECTED"
    /\ sending => w.kind # "NONE" /\ w.msg.type = "DATA"
    /\ state = "OPENING" => ~d

\* The fields of the server's writer.
LEMMA WriterFields ==
    ASSUME NEW w \in S!ServerWriter
    PROVE  /\ w.kind \in {"NONE", "OWN", "SHARED", "BUFFERED"} /\ w.buf \in S!SharedBuf \cup {"OWN"}
           /\ w.msg \in ServerMsg /\ w.pos \in 0..2 /\ w.dangling \in BOOLEAN
BY ServerNames DEF S!ServerWriter, Part, Body

\* The fields of an entry of the server's queue.
LEMMA QueuedFields ==
    ASSUME NEW e \in S!QueuedMsg
    PROVE  e.buf \in S!SharedBuf \cup {"OWN"} /\ e.msg \in ServerMsg
BY ServerNames DEF S!QueuedMsg

\* The entries of the queue and the writer carry messages of the server.
LEMMA ServerCarry == Carry(S!ServerWriter, ServerMsg) /\ Carry(S!QueuedMsg, ServerMsg)
BY WriterFields, QueuedFields DEF Carry

\* A shared buffer holds a message of the entry's kind, or was cleared when the
\* entry is data.
LEMMA ContentFacts ==
    ASSUME NEW sh, NEW v \in Nat, SharedOK(sh, v), NEW e \in S!QueuedMsg, OfBuf(e.buf, e.msg)
    PROVE  /\ S!Content(e, sh) \in ServerMsg
           /\ S!Content(e, sh).type \in Transit <=> e.msg.type \in Transit
           /\ e.msg.type # "UNKNOWN"
           /\ S!Content(e, sh).type = "UNKNOWN" <=> S!Content(e, sh) = Cleared
           /\ S!Content(e, sh) = Cleared => e.msg.type = "DATA"
           /\ S!Content(e, sh).type = "DATA" => e.msg.type = "DATA"
           /\ S!Content(e, sh).type # "UNKNOWN" => OfBuf(e.buf, S!Content(e, sh))
<1>1. PICK m : m = S!Content(e, sh)
  OBVIOUS
<1>2. PICK o : o = e.msg
  OBVIOUS
<1>3. e.buf \in {"BANNER", "HELLO", "TICK", "FULL", "UPDATE", "OWN"} /\ o \in ServerMsg
  BY <1>2, QueuedFields DEF S!SharedBuf
<1>4. /\ Cleared.type = "UNKNOWN" /\ ServerMsgBanner.type = "BANNER" /\ ServerMsgHello.type = "HELLO"
      /\ \A t, x : ServerMsgUpdateTick(t, x).type = "UPDATE_TICK"
      /\ \A u, x : ServerMsgData(u, x).type = "DATA" /\ ServerMsgData(u, x).isUpdate = u
  BY Vocabulary
<1>5. \/ e.buf = "OWN" /\ m = o /\ o.type = "DATA_STATUS"
      \/ e.buf = "BANNER" /\ m = ServerMsgBanner /\ o = m
      \/ e.buf = "HELLO" /\ m = ServerMsgHello /\ o = m
      \/ e.buf = "TICK" /\ m.type = "UPDATE_TICK" /\ o.type = "UPDATE_TICK"
      \/ e.buf = "FULL" /\ o.type = "DATA" /\ (m = Cleared \/ (m.type = "DATA" /\ m.isUpdate = FALSE))
      \/ e.buf = "UPDATE" /\ o.type = "DATA" /\ (m = Cleared \/ (m.type = "DATA" /\ m.isUpdate = TRUE))
  <2>1. CASE e.buf = "OWN"
    BY <1>1, <1>2, <2>1 DEF OfBuf, S!Content
  <2>2. CASE e.buf = "BANNER"
    BY <1>1, <1>2, <2>2 DEF OfBuf, SharedOK, S!Content
  <2>3. CASE e.buf = "HELLO"
    BY <1>1, <1>2, <2>3 DEF OfBuf, SharedOK, S!Content
  <2>4. CASE e.buf = "TICK"
    BY <1>1, <1>2, <1>4, <2>4 DEF OfBuf, SharedOK, S!Content
  <2>5. CASE e.buf = "FULL"
    <3>1. m \in {Cleared, ServerMsgData(FALSE, v)} /\ o.type = "DATA"
      BY <1>1, <1>2, <2>5 DEF OfBuf, SharedOK, S!Content
    <3>2. ServerMsgData(FALSE, v).type = "DATA" /\ ServerMsgData(FALSE, v).isUpdate = FALSE
      BY <1>4
    <3> QED BY <2>5, <3>1, <3>2
  <2>6. CASE e.buf = "UPDATE"
    <3>1. m \in {Cleared, ServerMsgData(TRUE, v)} /\ o.type = "DATA"
      BY <1>1, <1>2, <2>6 DEF OfBuf, SharedOK, S!Content
    <3>2. ServerMsgData(TRUE, v).type = "DATA" /\ ServerMsgData(TRUE, v).isUpdate = TRUE
      BY <1>4
    <3> QED BY <2>6, <3>1, <3>2
  <2> QED BY <1>3, <2>1, <2>2, <2>3, <2>4, <2>5, <2>6
<1>6. m \in ServerMsg
  BY <1>1, <1>2, <1>3 DEF SharedOK, S!Content, S!SharedBuf
<1>7. m.type = "UNKNOWN" <=> m = Cleared
  BY <1>4, <1>5
<1>8. /\ m.type \in Transit <=> o.type \in Transit
      /\ o.type # "UNKNOWN"
      /\ m = Cleared => o.type = "DATA"
      /\ m.type = "DATA" => o.type = "DATA"
  BY <1>4, <1>5 DEF Transit
<1>9. m.type # "UNKNOWN" => OfBuf(e.buf, m)
  BY <1>4, <1>5 DEF OfBuf
<1> QED BY <1>1, <1>2, <1>6, <1>7, <1>8, <1>9

\* The fields of a writer.
WriterIs(w, kind, buf, msg, pos, dangling) ==
    /\ w \in S!ServerWriter /\ w.kind = kind /\ w.buf = buf /\ w.msg = msg
    /\ w.pos = pos /\ w.dangling = dangling

\* The writer takes the present content of the entry's buffer.
LEMMA LoadFacts ==
    ASSUME NEW sh, NEW v, SharedOK(sh, v), NEW e \in S!QueuedMsg
    PROVE  /\ S!Load(e, sh) \in S!ServerWriter /\ S!Load(e, sh).msg = S!Content(e, sh)
           /\ S!Load(e, sh).buf = e.buf /\ S!Load(e, sh).pos = 0 /\ S!Load(e, sh).dangling = FALSE
           /\ S!Load(e, sh).kind # "NONE" /\ (S!Load(e, sh).kind = "OWN" => e.buf = "OWN")
<1>1. ASSUME NEW b \in S!SharedBuf \cup {"OWN"}, NEW m \in ServerMsg
      PROVE  WriterIs(S!sendShared(b, m), "SHARED", b, m, 0, FALSE) /\ WriterIs(S!send(m), "OWN", "OWN", m, 0, FALSE)
  BY ServerNames DEF S!ServerWriter, WriterIs, S!send, S!sendShared, S!Idle
<1>3. e.buf \in S!SharedBuf \cup {"OWN"} /\ e.msg \in ServerMsg
  BY QueuedFields
<1>4. CASE e.buf = "OWN"
  <2>1. S!Load(e, sh) = S!send(e.msg) /\ S!Content(e, sh) = e.msg
    BY <1>4 DEF S!Load, S!Content
  <2>2. WriterIs(S!send(e.msg), "OWN", "OWN", e.msg, 0, FALSE)
    BY <1>1, <1>3
  <2> QED BY <1>4, <2>1, <2>2 DEF WriterIs
<1>5. CASE e.buf # "OWN"
  <2>1. S!Content(e, sh) = sh[e.buf] /\ sh[e.buf] \in ServerMsg
    BY <1>3, <1>5 DEF S!Content, SharedOK
  <2>2. S!Load(e, sh) = S!sendShared(e.buf, sh[e.buf])
    BY <1>5 DEF S!Load
  <2>3. WriterIs(S!sendShared(e.buf, sh[e.buf]), "SHARED", e.buf, sh[e.buf], 0, FALSE)
    BY <1>1, <1>3, <2>1
  <2> QED BY <1>5, <2>1, <2>2, <2>3 DEF WriterIs
<1> QED BY <1>4, <1>5

-----------------------------------------------------------------------------
(***************************************************************************)
(* The pending messages of a session against what it planned to send.      *)
(***************************************************************************)
Unsent(s) == Undelivered(s.writer) \o Msgs(s.sendQueue)

\* 1 if the writer is sending a message.
Busy(w) == IF w.kind # "NONE" THEN 1 ELSE 0

\* 1 if the writer has delivered its message and not finished with it.
Done(w) == IF w.kind # "NONE" /\ w.pos = Body THEN 1 ELSE 0

\* The pending messages are the writer's and the queued ones.
LEMMA PendingFacts ==
    ASSUME NEW sh, NEW v, SharedOK(sh, v), NEW s \in S!ServerSessionType
    PROVE  /\ S!Pending(s, sh) \in Seq(S!ServerWriter)
           /\ Len(S!Pending(s, sh)) = Busy(s.writer) + Len(s.sendQueue)
           /\ Busy(s.writer) = 1 => S!Pending(s, sh)[1] = s.writer
           /\ \A j \in 1..Len(s.sendQueue) : S!Pending(s, sh)[Busy(s.writer) + j] = S!Load(s.sendQueue[j], sh)
<1>1. PICK q, w : q = s.sendQueue /\ w = s.writer
  OBVIOUS
<1>2. q \in Seq(S!QueuedMsg) /\ w \in S!ServerWriter
  BY <1>1, SessionFields
<1> DEFINE a == IF w.kind # "NONE" THEN <<w>> ELSE <<>>
           l == [i \in 1..Len(q) |-> S!Load(q[i], sh)]
<1>3. S!Pending(s, sh) = a \o l
  <2>1. DOMAIN q = 1..Len(q)
    BY <1>2
  <2> QED BY <1>1, <2>1 DEF S!Pending, S!isSending
<1>4. a \in Seq(S!ServerWriter) /\ Len(a) = Busy(w) /\ (Busy(w) = 1 => a[1] = w)
  <2>1. CASE w.kind # "NONE"
    BY <1>2, <2>1 DEF Busy
  <2>2. CASE w.kind = "NONE"
    BY <1>2, <2>2 DEF Busy
  <2> QED BY <2>1, <2>2
<1>5. l \in Seq(S!ServerWriter) /\ Len(l) = Len(q) /\ \A i \in 1..Len(q) : l[i] = S!Load(q[i], sh)
  <2>1. \A i \in 1..Len(q) : S!Load(q[i], sh) \in S!ServerWriter
    <3> TAKE i \in 1..Len(q)
    <3>1. q[i] \in S!QueuedMsg
      BY <1>2
    <3> QED BY <3>1, LoadFacts
  <2>2. Len(q) \in Nat
    BY <1>2
  <2> QED BY <2>1, <2>2
<1> HIDE DEF a, l
<1>6. /\ a \o l \in Seq(S!ServerWriter) /\ Len(a \o l) = Len(a) + Len(l)
      /\ \A i \in 1..Len(a) : (a \o l)[i] = a[i]
      /\ \A i \in 1..Len(l) : (a \o l)[Len(a) + i] = l[i]
  <2>1. PICK x, y : x = a /\ y = l
    OBVIOUS
  <2>2. x \in Seq(S!ServerWriter) /\ y \in Seq(S!ServerWriter)
    BY <1>4, <1>5, <2>1
  <2>3. /\ x \o y \in Seq(S!ServerWriter) /\ Len(x \o y) = Len(x) + Len(y)
        /\ \A i \in 1..Len(x) : (x \o y)[i] = x[i]
        /\ \A i \in 1..Len(y) : (x \o y)[Len(x) + i] = y[i]
    BY ONLY <2>2, ConcatFacts
  <2> QED BY ONLY <2>1, <2>3
<1>7. Busy(w) = 1 => (a \o l)[1] = w
  BY <1>4, <1>6
<1> QED BY <1>1, <1>3, <1>4, <1>5, <1>6, <1>7

\* The writer has at most one message to deliver.
LEMMA UndeliveredFacts ==
    ASSUME NEW w \in S!ServerWriter
    PROVE  /\ Undelivered(w) \in Seq(ServerMsg) /\ Len(Undelivered(w)) = Busy(w) - Done(w)
           /\ Busy(w) \in {0, 1} /\ Done(w) \in {0, 1} /\ Done(w) <= Busy(w)
           /\ Len(Undelivered(w)) = 1 => Undelivered(w)[1] = w.msg /\ w.kind # "NONE" /\ w.pos < Body
<1>1. w.pos \in 0..2 /\ w.msg \in ServerMsg
  BY WriterFields
<1>2. S!Body = Body /\ Body = 2
  BY ServerNames DEF Body
<1>3. CASE w.kind # "NONE" /\ w.pos < Body
  <2>1. Undelivered(w) = <<w.msg>> /\ Busy(w) = 1 /\ Done(w) = 0
    BY <1>1, <1>2, <1>3 DEF Undelivered, Busy, Done
  <2> QED BY <1>1, <1>3, <2>1
<1>4. CASE ~(w.kind # "NONE" /\ w.pos < Body)
  <2>1. Undelivered(w) = <<>> /\ Busy(w) = Done(w) /\ Busy(w) \in {0, 1}
    BY <1>1, <1>2, <1>4 DEF Undelivered, Busy, Done
  <2> QED BY <2>1
<1> QED BY <1>3, <1>4

\* The pending messages p stand for the messages R, d being delivered: the
\* writer's, then the queue's.
PendingIs(p, q, R, b, d, sh) ==
    \A i \in 1..Len(p) : i > d =>
        \/ i = 1 /\ b = 1 /\ p[i].msg = R[i - d] /\ R[i - d].type # "UNKNOWN"
        \/ \E j \in 1..Len(q) :
             /\ i = b + j /\ R[i - d] = q[j].msg /\ p[i] = S!Load(q[j], sh)
             /\ p[i].msg = S!Content(q[j], sh)

\* The pending messages are the unsent ones, as far as their buffers were not
\* replaced.
LEMMA PendingMatches ==
    ASSUME NEW sh, NEW v \in Nat, SharedOK(sh, v), NEW s \in S!ServerSessionType,
           WriterOK(s.state, s.sendQueue, s.writer, s.isSendingData, s.dataFlags),
           NEW p, p = S!Pending(s, sh), NEW d, d = Done(s.writer), NEW b, b = Busy(s.writer),
           NEW R, R = Unsent(s)
    PROVE  /\ R \in Seq(ServerMsg) /\ Len(p) = Len(R) + d
           /\ p # <<>> => (d = 0 <=> p[1].pos < Body)
           /\ PendingIs(p, s.sendQueue, R, b, d, sh)
<1>1. PICK q, w, W, Q : q = s.sendQueue /\ w = s.writer /\ W = Undelivered(w) /\ Q = Msgs(q)
  OBVIOUS
<1>2. q \in Seq(S!QueuedMsg) /\ w \in S!ServerWriter
  BY <1>1, SessionFields
<1>3. /\ W \in Seq(ServerMsg) /\ Len(W) = b - d /\ b \in {0, 1} /\ d \in {0, 1} /\ d <= b
      /\ Len(W) = 1 => W[1] = w.msg
  BY <1>1, <1>2, UndeliveredFacts
<1>4. Q \in Seq(ServerMsg) /\ Len(Q) = Len(q) /\ Len(q) \in Nat /\ \A i \in 1..Len(q) : Q[i] = q[i].msg
  BY <1>1, <1>2, ServerCarry, MsgsFacts
<1>5. /\ p \in Seq(S!ServerWriter) /\ Len(p) = b + Len(q) /\ (b = 1 => p[1] = w)
      /\ \A j \in 1..Len(q) : p[b + j] = S!Load(q[j], sh)
  BY <1>1, PendingFacts
<1>6. /\ R \in Seq(ServerMsg) /\ Len(R) = Len(W) + Len(Q)
      /\ \A i \in 1..Len(W) : R[i] = W[i]
      /\ \A i \in 1..Len(Q) : R[Len(W) + i] = Q[i]
  <2>1. W \in Seq(ServerMsg) /\ Q \in Seq(ServerMsg) /\ R = W \o Q
    BY <1>1, <1>3, <1>4 DEF Unsent
  <2> QED BY ONLY <2>1, ConcatFacts
<1>7. Len(p) = Len(R) + d
  BY <1>3, <1>4, <1>5, <1>6
<1>8. \A j \in 1..Len(q) : S!Load(q[j], sh).msg = S!Content(q[j], sh) /\ S!Load(q[j], sh).pos = 0
  <2> TAKE j \in 1..Len(q)
  <2>1. q[j] \in S!QueuedMsg
    BY <1>2
  <2> QED BY <2>1, LoadFacts
<1>9. ASSUME p # <<>> PROVE d = 0 <=> p[1].pos < Body
  <2>1. CASE b = 1
    <3>1. w.kind # "NONE"
      BY <1>1, <2>1 DEF Busy
    <3>2. w.pos \in 0..2
      BY <1>2, WriterFields
    <3>3. p[1] = w
      BY <1>5, <2>1
    <3> QED BY <1>1, <3>1, <3>2, <3>3 DEF Done, Body
  <2>2. CASE b = 0
    <3>1. d = 0 /\ 1 \in 1..Len(q)
      BY <1>3, <1>4, <1>5, <1>9, <2>2
    <3>2. p[0 + 1] = S!Load(q[1], sh)
      BY <1>5, <2>2, <3>1
    <3>3. p[1].pos = 0
      BY <1>8, <3>1, <3>2
    <3> QED BY <3>1, <3>3 DEF Body
  <2> QED BY <1>3, <2>1, <2>2
<1>10. ASSUME NEW i \in 1..Len(p), i > d
       PROVE  \/ i = 1 /\ b = 1 /\ p[i].msg = R[i - d] /\ R[i - d].type # "UNKNOWN"
              \/ \E j \in 1..Len(q) : /\ i = b + j /\ R[i - d] = q[j].msg /\ p[i] = S!Load(q[j], sh)
                                      /\ p[i].msg = S!Content(q[j], sh)
  <2>1. CASE i <= b
    <3>1. i = 1 /\ b = 1 /\ d = 0 /\ Len(W) = 1 /\ i - d = 1
      BY <1>3, <1>10, <2>1
    <3>2. R[1] = w.msg /\ p[1] = w
      BY <1>3, <1>5, <1>6, <3>1
    <3>3. w.msg.type # "UNKNOWN"
      <4>1. w.kind # "NONE" /\ w.buf \in {"BANNER", "HELLO", "TICK", "FULL", "UPDATE", "OWN"}
        BY <1>1, <1>2, <3>1, WriterFields DEF Busy, S!SharedBuf
      <4>2. OfBuf(w.buf, w.msg)
        BY <1>1, <4>1 DEF WriterOK
      <4>3. ServerMsgBanner.type = "BANNER" /\ ServerMsgHello.type = "HELLO"
        BY Vocabulary
      <4> QED BY <4>1, <4>2, <4>3 DEF OfBuf
    <3> QED BY <3>1, <3>2, <3>3
  <2>2. CASE i > b
    <3>1. PICK j \in 1..Len(q) : i = b + j
      <4>1. i - b \in 1..Len(q) /\ i = b + (i - b)
        BY <1>3, <1>4, <1>5, <2>2
      <4> QED BY <4>1
    <3>2. i - d = Len(W) + j
      BY <1>3, <3>1
    <3>3. R[i - d] = q[j].msg
      BY <1>4, <1>6, <3>2
    <3>4. p[i] = S!Load(q[j], sh) /\ p[i].msg = S!Content(q[j], sh)
      BY <1>5, <1>8, <3>1
    <3>5. \E j1 \in 1..Len(q) : i = b + j1 /\ R[i - d] = q[j1].msg /\ p[i] = S!Load(q[j1], sh)
                                /\ p[i].msg = S!Content(q[j1], sh)
      BY ONLY <3>1, <3>3, <3>4
    <3> QED BY <3>5
  <2>3. i <= b \/ i > b
    BY <1>3
  <2> QED BY ONLY <2>1, <2>2, <2>3
<1>11. s.sendQueue = q
  BY <1>1
<1>12. PendingIs(p, q, R, b, d, sh)
  BY ONLY <1>10 DEF PendingIs
<1> QED BY <1>6, <1>7, <1>9, <1>11, <1>12

\* What the writer reads from a buffer it points into is of the same kind as
\* what it loaded.
LEMMA TextFacts ==
    ASSUME NEW sh, NEW v \in Nat, SharedOK(sh, v), NEW s \in S!ServerSessionType,
           WriterOK(s.state, s.sendQueue, s.writer, s.isSendingData, s.dataFlags),
           NEW p, p = S!Pending(s, sh), NEW text \in S!Texts(p, sh)
    PROVE  text \in ServerMsg /\ (p # <<>> => (text.type \in Transit <=> p[1].msg.type \in Transit))
<1>1. PICK q, w, b : q = s.sendQueue /\ w = s.writer /\ b = Busy(w)
  OBVIOUS
<1>2. q \in Seq(S!QueuedMsg) /\ w \in S!ServerWriter
  BY <1>1, SessionFields
<1>3. /\ p \in Seq(S!ServerWriter) /\ Len(p) = b + Len(q) /\ (b = 1 => p[1] = w)
      /\ \A j \in 1..Len(q) : p[b + j] = S!Load(q[j], sh)
  BY <1>1, PendingFacts
<1>4. CASE p = <<>>
  BY <1>4, ServerNames, Vocabulary DEF S!Texts
<1>5. CASE p # <<>>
  <2>1. p[1] \in S!ServerWriter
    BY <1>3, <1>5
  <2>2. text = p[1].msg \/ (p[1].dangling /\ text \in {sh[p[1].buf], Garbled})
    BY <1>5, ServerNames DEF S!Texts
  <2>3. CASE p[1].dangling
    <3>1. b = 1
      <4>1. CASE b = 0
        <5>1. 1 \in 1..Len(q)
          BY <1>2, <1>3, <1>5, <4>1
        <5>2. p[0 + 1] = S!Load(q[1], sh)
          BY <1>3, <4>1, <5>1
        <5>3. q[1] \in S!QueuedMsg
          BY <1>2, <5>1
        <5>4. S!Load(q[1], sh).dangling = FALSE
          BY <5>3, LoadFacts
        <5> QED BY <2>3, <5>2, <5>4
      <4> QED BY <1>1, <4>1 DEF Busy
    <3>2. p[1] = w /\ w.dangling
      BY <1>3, <2>3, <3>1
    <3>3. w.buf = "TICK" /\ w.msg.type = "UPDATE_TICK" /\ w.msg \in ServerMsg
      <4>1. w.kind # "NONE" /\ w.buf = "TICK" /\ OfBuf(w.buf, w.msg)
        BY <1>1, <3>2 DEF WriterOK
      <4> QED BY <1>2, <4>1, WriterFields DEF OfBuf
    <3>4. sh["TICK"] \in ServerMsg /\ sh["TICK"].type = "UPDATE_TICK"
      BY Vocabulary DEF SharedOK, S!SharedBuf
    <3>5. text \in {w.msg, sh["TICK"], Garbled}
      BY <2>2, <3>2, <3>3
    <3>6. text \in ServerMsg /\ text.type \in {"UPDATE_TICK", "GARBLED"}
      BY <3>3, <3>4, <3>5, Vocabulary
    <3> QED BY <3>2, <3>3, <3>6 DEF Transit
  <2>4. CASE ~p[1].dangling
    <3>1. text = p[1].msg /\ p[1].msg \in ServerMsg
      BY <2>1, <2>2, <2>4, WriterFields
    <3> QED BY <3>1
  <2> QED BY <2>3, <2>4
<1> QED BY <1>4, <1>5

\* Unless a replaced buffer is sent, the pending messages are the unsent ones
\* or cleared data.
LEMMA PendingFaithful ==
    ASSUME NEW sh, NEW v \in Nat, SharedOK(sh, v), NEW s \in S!ServerSessionType,
           WriterOK(s.state, s.sendQueue, s.writer, s.isSendingData, s.dataFlags),
           NEW p, p = S!Pending(s, sh), NEW d, d = Done(s.writer), NEW b, b = Busy(s.writer),
           NEW R, R = Unsent(s),
           NEW n \in 0..Len(p), NEW l, l = S!Loaded(s, n, p), NEW text
    PROVE  /\ Matches(p, R, d)
           /\ \A i \in 1..Len(p) : i > d => R[i - d].type # "UNKNOWN"
           /\ ~S!SendsReplaced(s, n, text, sh) =>
                /\ p # <<>> => text = p[1].msg
                /\ \A i \in 1..Len(p) : i > d /\ i <= n + 1 =>
                     p[i].msg = R[i - d] \/ (p[i].msg = Cleared /\ R[i - d].type = "DATA")
<1>1. PICK q : q = s.sendQueue
  OBVIOUS
<1>2. q \in Seq(S!QueuedMsg) /\ Len(q) \in Nat
  BY <1>1, SessionFields
<1>3. \A j \in 1..Len(q) : q[j] \in S!QueuedMsg /\ OfBuf(q[j].buf, q[j].msg)
  BY <1>1, <1>2 DEF WriterOK
<1>4. \A i \in 1..Len(p) : i > d =>
                \/ i = 1 /\ b = 1 /\ p[i].msg = R[i - d] /\ R[i - d].type # "UNKNOWN"
                \/ \E j \in 1..Len(q) :
                     /\ i = b + j /\ R[i - d] = q[j].msg /\ p[i] = S!Load(q[j], sh)
                     /\ p[i].msg = S!Content(q[j], sh)
  <2>1. PendingIs(p, q, R, b, d, sh)
    BY <1>1, PendingMatches
  <2> QED BY ONLY <2>1 DEF PendingIs
<1>5. Len(p) = b + Len(q) /\ b \in {0, 1} /\ d \in {0, 1}
  <2>1. s.writer \in S!ServerWriter
    BY SessionFields
  <2>2. b \in {0, 1} /\ d \in {0, 1}
    BY <2>1, UndeliveredFacts
  <2>3. Len(p) = b + Len(q)
    BY <1>1, PendingFacts
  <2> QED BY <2>2, <2>3
<1>6. ASSUME NEW i \in 1..Len(p), i > d
      PROVE  R[i - d].type # "UNKNOWN" /\ (p[i].msg.type \in Transit <=> R[i - d].type \in Transit)
  <2>1. CASE p[i].msg = R[i - d] /\ R[i - d].type # "UNKNOWN"
    BY <2>1
  <2>2. CASE \E j \in 1..Len(q) : R[i - d] = q[j].msg /\ p[i].msg = S!Content(q[j], sh)
    <3>1. PICK j \in 1..Len(q) : R[i - d] = q[j].msg /\ p[i].msg = S!Content(q[j], sh)
      BY <2>2
    <3>2. q[j] \in S!QueuedMsg /\ OfBuf(q[j].buf, q[j].msg)
      BY <1>3
    <3> QED BY <3>1, <3>2, ContentFacts
  <2> QED BY <1>4, <1>6, <2>1, <2>2
<1>7. Matches(p, R, d)
  BY <1>6 DEF Matches
<1>8. ASSUME ~S!SendsReplaced(s, n, text, sh)
      PROVE  /\ p # <<>> => text = p[1].msg
             /\ \A j \in 1..l : S!Content(q[j], sh) \in {q[j].msg, Cleared}
  BY <1>1, <1>8, ServerNames DEF S!SendsReplaced
<1>9. l = IF (IF n < b + Len(q) THEN n + 1 ELSE n) > b THEN (IF n < b + Len(q) THEN n + 1 ELSE n) - b ELSE 0
  <2>1. Len(p) - Len(q) = b
    BY <1>2, <1>5
  <2> QED BY <1>1, <1>5, <2>1 DEF S!Loaded
<1>10. ASSUME ~S!SendsReplaced(s, n, text, sh), NEW i \in 1..Len(p), i > d, i <= n + 1
       PROVE  p[i].msg = R[i - d] \/ (p[i].msg = Cleared /\ R[i - d].type = "DATA")
  <2>1. CASE p[i].msg = R[i - d]
    BY <2>1
  <2>2. CASE \E j \in 1..Len(q) : i = b + j /\ R[i - d] = q[j].msg /\ p[i].msg = S!Content(q[j], sh)
    <3>1. PICK j \in 1..Len(q) : i = b + j /\ R[i - d] = q[j].msg /\ p[i].msg = S!Content(q[j], sh)
      BY <2>2
    <3>2. q[j] \in S!QueuedMsg /\ OfBuf(q[j].buf, q[j].msg)
      BY <1>3
    <3>3. j \in 1..l
      <4>1. b \in Int /\ Len(q) \in Nat /\ n \in Int /\ n <= b + Len(q) /\ b + j <= n + 1
        BY <1>2, <1>5, <1>10, <3>1
      <4> QED BY ONLY <1>9, <4>1, j \in 1..Len(q)
    <3>4. S!Content(q[j], sh) \in {q[j].msg, Cleared}
      BY <1>8, <1>10, <3>3
    <3>5. S!Content(q[j], sh) = Cleared => q[j].msg.type = "DATA"
      BY <3>2, ContentFacts
    <3> QED BY <3>1, <3>4, <3>5
  <2> QED BY <1>4, <1>10, <2>1, <2>2
<1> QED BY <1>6, <1>7, <1>8, <1>10

\* Moving the writer's position changes nothing else of it.
LEMMA WriterPos ==
    ASSUME NEW w \in S!ServerWriter, NEW pos \in 0..2
    PROVE  WriterIs([w EXCEPT !.pos = pos], w.kind, w.buf, w.msg, pos, w.dangling)
BY ServerNames DEF S!ServerWriter, WriterIs, Part, Body

\* The fields of a writer with nothing to send.
LEMMA IdleWriter == WriterIs(S!Idle, "NONE", "OWN", Cleared, 0, FALSE)
BY ServerNames, Vocabulary DEF S!ServerWriter, WriterIs, S!Idle, S!SharedBuf

\* How many entries of the queue an output hands to the writer.
LEMMA LoadedIs ==
    ASSUME NEW sh, NEW v \in Nat, SharedOK(sh, v), NEW s \in S!ServerSessionType,
           NEW p, p = S!Pending(s, sh), NEW b, b = Busy(s.writer), NEW n \in 0..Len(p)
    PROVE  S!Loaded(s, n, p) = LoadedOf(n, b, Len(s.sendQueue))
<1>1. Len(p) = b + Len(s.sendQueue) /\ b \in {0, 1} /\ Len(s.sendQueue) \in Nat
  <2>1. s.writer \in S!ServerWriter /\ s.sendQueue \in Seq(S!QueuedMsg)
    BY SessionFields
  <2>2. b \in {0, 1}
    BY <2>1, UndeliveredFacts
  <2>3. Len(p) = b + Len(s.sendQueue)
    BY PendingFacts
  <2> QED BY <2>1, <2>2, <2>3
<1>2. Len(p) - Len(s.sendQueue) = b
  BY <1>1
<1> QED BY <1>1, <1>2 DEF S!Loaded, LoadedOf

\* What the session will be sending after the call.
LEMMA NextPending ==
    ASSUME NEW sh, NEW v \in Nat, SharedOK(sh, v), NEW s \in S!ServerSessionType,
           WriterOK(s.state, s.sendQueue, s.writer, s.isSendingData, s.dataFlags),
           NEW p, p = S!Pending(s, sh), NEW n \in 0..Len(p), n < Len(p), NEW x, x = p[n + 1]
    PROVE  /\ x \in S!ServerWriter /\ x.kind # "NONE"
           /\ x.msg.type # "UNKNOWN" => OfBuf(x.buf, x.msg)
           /\ x.kind = "OWN" => x.buf = "OWN"
           /\ x.dangling => x.buf = "TICK"
           /\ S!Loaded(s, n, p) = 0 => x = s.writer
<1>1. PICK q, w, b : q = s.sendQueue /\ w = s.writer /\ b = Busy(w)
  OBVIOUS
<1>2. q \in Seq(S!QueuedMsg) /\ w \in S!ServerWriter /\ Len(q) \in Nat
  BY <1>1, SessionFields
<1>3. /\ p \in Seq(S!ServerWriter) /\ Len(p) = b + Len(q) /\ (b = 1 => p[1] = w)
      /\ \A j \in 1..Len(q) : p[b + j] = S!Load(q[j], sh)
  BY <1>1, PendingFacts
<1>4. b \in {0, 1}
  BY <1>1, <1>2, UndeliveredFacts
<1>5. S!Loaded(s, n, p) = LoadedOf(n, b, Len(q))
  BY <1>1, LoadedIs
<1>6. CASE n + 1 <= b
  <2>1. n = 0 /\ b = 1 /\ x = w
    BY <1>3, <1>4, <1>6
  <2>2. w.kind # "NONE"
    BY <1>1, <2>1 DEF Busy
  <2>3. OfBuf(w.buf, w.msg) /\ (w.kind = "OWN" => w.buf = "OWN") /\ (w.dangling => w.buf = "TICK")
    BY <1>1, <2>2 DEF WriterOK
  <2> QED BY <1>1, <1>2, <2>1, <2>2, <2>3
<1>7. CASE n + 1 > b
  <2>1. PICK j \in 1..Len(q) : n + 1 = b + j
    <3>1. (n + 1) - b \in 1..Len(q) /\ n + 1 = b + ((n + 1) - b)
      BY <1>2, <1>3, <1>4, <1>7
    <3> QED BY <3>1
  <2>2. q[j] \in S!QueuedMsg /\ OfBuf(q[j].buf, q[j].msg) /\ x = S!Load(q[j], sh)
    BY <1>1, <1>2, <1>3, <2>1 DEF WriterOK
  <2>3. /\ x \in S!ServerWriter /\ x.msg = S!Content(q[j], sh) /\ x.buf = q[j].buf /\ x.dangling = FALSE
        /\ x.kind # "NONE" /\ (x.kind = "OWN" => q[j].buf = "OWN")
    <3>1. PICK e : e = q[j]
      OBVIOUS
    <3>2. e \in S!QueuedMsg /\ x = S!Load(e, sh)
      BY <2>2, <3>1
    <3>3. /\ x \in S!ServerWriter /\ x.msg = S!Content(e, sh) /\ x.buf = e.buf /\ x.dangling = FALSE
          /\ x.kind # "NONE" /\ (x.kind = "OWN" => e.buf = "OWN")
      BY <3>2, LoadFacts
    <3> QED BY <3>1, <3>3
  <2>4. x.msg.type # "UNKNOWN" => OfBuf(x.buf, x.msg)
    BY <2>2, <2>3, ContentFacts
  <2>5. LoadedOf(n, b, Len(q)) # 0
    BY <1>2, <1>3, <1>4, <1>7 DEF LoadedOf
  <2> QED BY <1>5, <2>3, <2>4, <2>5
<1> QED BY <1>4, <1>6, <1>7

\* The writer after an output holds the first message that is not sent
\* completely.
LEMMA NextWriter ==
    ASSUME NEW sh, NEW v \in Nat, SharedOK(sh, v), NEW s \in S!ServerSessionType,
           WriterOK(s.state, s.sendQueue, s.writer, s.isSendingData, s.dataFlags),
           NEW p, p = S!Pending(s, sh), NEW n \in 0..Len(p), NEW pos \in {1, 2}, S!CanSend(p, n, pos),
           NEW w, w = S!doSend(p, n, pos)
    PROVE  /\ w \in S!ServerWriter
           /\ n = Len(p) => w.kind = "NONE" /\ ~w.dangling
           /\ n < Len(p) => /\ w.kind # "NONE" /\ w.pos = pos /\ w.msg = p[n + 1].msg /\ w.msg.type # "UNKNOWN"
                            /\ OfBuf(w.buf, w.msg)
                            /\ w.kind = "OWN" => w.buf = "OWN"
                            /\ w.dangling => w.buf = "TICK"
                            /\ S!Loaded(s, n, p) = 0 => w.kind = s.writer.kind /\ w.buf = s.writer.buf /\ w.msg = s.writer.msg
           /\ Undelivered(w) \in Seq(ServerMsg)
           /\ Len(Undelivered(w)) = IF n < Len(p) /\ pos # Body THEN 1 ELSE 0
           /\ Len(Undelivered(w)) = 1 => Undelivered(w)[1] = p[n + 1].msg
<1>1. CASE n < Len(p)
  <2>1. PICK x : x = p[n + 1]
    OBVIOUS
  <2>2. /\ x \in S!ServerWriter /\ x.kind # "NONE"
        /\ x.msg.type # "UNKNOWN" => OfBuf(x.buf, x.msg)
        /\ x.kind = "OWN" => x.buf = "OWN"
        /\ x.dangling => x.buf = "TICK"
        /\ S!Loaded(s, n, p) = 0 => x = s.writer
    BY <1>1, <2>1, NextPending
  <2>3. x.msg.type # "UNKNOWN" /\ pos > x.pos
    BY <1>1, <2>1 DEF S!CanSend
  <2>4. w = [x EXCEPT !.pos = pos]
    BY <1>1, <2>1 DEF S!doSend
  <2>5. WriterIs(w, x.kind, x.buf, x.msg, pos, x.dangling)
    <3>1. pos \in 0..2
      OBVIOUS
    <3> QED BY <2>2, <2>4, <3>1, WriterPos
  <2>6. w \in S!ServerWriter /\ w.kind = x.kind /\ w.buf = x.buf /\ w.msg = x.msg /\ w.pos = pos /\ w.dangling = x.dangling
    BY <2>5 DEF WriterIs
  <2>7. /\ Undelivered(w) \in Seq(ServerMsg) /\ Len(Undelivered(w)) = Busy(w) - Done(w)
        /\ Len(Undelivered(w)) = 1 => Undelivered(w)[1] = w.msg
    BY <2>6, UndeliveredFacts
  <2>8. Busy(w) - Done(w) = IF pos # Body THEN 1 ELSE 0
    BY <2>2, <2>6 DEF Busy, Done
  <2> QED BY <1>1, <2>1, <2>2, <2>3, <2>6, <2>7, <2>8
<1>2. CASE ~(n < Len(p))
  <2>1. w = S!Idle
    BY <1>2 DEF S!doSend
  <2>2. w \in S!ServerWriter /\ w.kind = "NONE" /\ ~w.dangling
    BY <2>1, IdleWriter DEF WriterIs
  <2>3. Undelivered(w) = <<>>
    BY <2>2 DEF Undelivered
  <2> QED BY <1>2, <2>2, <2>3
<1> QED BY <1>1, <1>2

\* The session after an output: its queue loses the entries handed to the
\* writer.
LEMMA OutputSession ==
    ASSUME NEW sh, NEW v \in Nat, SharedOK(sh, v), NEW s \in S!ServerSessionType,
           WriterOK(s.state, s.sendQueue, s.writer, s.isSendingData, s.dataFlags),
           NEW p, p = S!Pending(s, sh), NEW n \in 0..Len(p), NEW pos \in {1, 2}, S!CanSend(p, n, pos),
           NEW r, r = S!HandleOutput(s, n, pos, sh), NEW l, l = LoadedOf(n, Busy(s.writer), Len(s.sendQueue))
    PROVE  /\ r \in S!ServerSessionType /\ r.state = s.state /\ r.dataFlags = s.dataFlags
           /\ r.dataUpdateFlags = s.dataUpdateFlags /\ r.reason = s.reason
           /\ r.writer = S!doSend(p, n, pos) /\ r.sendQueue = SubSeq(s.sendQueue, l + 1, Len(s.sendQueue))
           /\ l \in 0..Len(s.sendQueue)
           /\ WriterOK(r.state, r.sendQueue, r.writer, r.isSendingData, r.dataFlags)
<1>1. PICK q, w, b, x : q = s.sendQueue /\ w = s.writer /\ b = Busy(w) /\ x = S!doSend(p, n, pos)
  OBVIOUS
<1>2. q \in Seq(S!QueuedMsg) /\ w \in S!ServerWriter /\ Len(q) \in Nat
  BY <1>1, SessionFields
<1>3. Len(p) = b + Len(q) /\ b \in {0, 1}
  <2>1. Len(p) = b + Len(q)
    BY <1>1, PendingFacts
  <2> QED BY <1>1, <1>2, <2>1, UndeliveredFacts
<1>4. S!Loaded(s, n, p) = l
  BY <1>1, LoadedIs
<1>5. l \in 0..Len(q) /\ l = LoadedOf(n, b, Len(q))
  BY <1>1, <1>2, <1>3 DEF LoadedOf
<1>6. /\ x \in S!ServerWriter
      /\ n = Len(p) => x.kind = "NONE" /\ ~x.dangling
      /\ n < Len(p) => /\ x.kind # "NONE" /\ x.pos = pos /\ x.msg.type # "UNKNOWN"
                       /\ OfBuf(x.buf, x.msg)
                       /\ x.kind = "OWN" => x.buf = "OWN"
                       /\ x.dangling => x.buf = "TICK"
                       /\ l = 0 => x.kind = w.kind /\ x.buf = w.buf /\ x.msg = w.msg
  BY <1>1, <1>4, NextWriter
<1>7. PICK y : y = SubSeq(q, l + 1, Len(q))
  OBVIOUS
<1>8. y \in Seq(S!QueuedMsg) /\ Len(y) = Len(q) - l /\ \A i \in 1..Len(q) - l : y[i] = q[l + i]
  BY <1>2, <1>5, <1>7, SplitFacts
<1>9. PICK g : g = IF n = Len(p) THEN FALSE ELSE IF l = 0 THEN s.isSendingData ELSE x.msg.type = "DATA"
  OBVIOUS
<1>10. g \in BOOLEAN
  BY <1>9, SessionFields
<1>11. SessionIs(r, s.state, y, x, g, s.dataFlags, s.dataUpdateFlags, s.reason)
  <2>1. PICK a : a = [s EXCEPT !.writer = x, !.sendQueue = y, !.isSendingData = g]
    OBVIOUS
  <2>2. SessionIs(a, s.state, y, x, g, s.dataFlags, s.dataUpdateFlags, s.reason)
    BY <1>6, <1>8, <1>10, <2>1, SessionWriter
  <2>3. r = S!Rearm(a)
    <3>1. S!HandleOutput(s, n, pos, sh) =
            S!Rearm([s EXCEPT !.writer = S!doSend(p, n, pos),
                              !.sendQueue = SubSeq(s.sendQueue, S!Loaded(s, n, p) + 1, Len(s.sendQueue)),
                              !.isSendingData = IF n = Len(p) THEN FALSE
                                  ELSE IF S!Loaded(s, n, p) = 0 THEN s.isSendingData
                                  ELSE S!doSend(p, n, pos).msg.type = "DATA"])
      BY Zenon DEF S!HandleOutput
    <3> QED BY <1>1, <1>4, <1>7, <1>9, <2>1, <3>1, Zenon
  <2> QED BY <2>2, <2>3, SessionRearm DEF SessionIs
<1>12. WriterOK(s.state, y, x, g, s.dataFlags)
  <2>1. \A i \in 1..Len(y) : OfBuf(y[i].buf, y[i].msg)
    <3> TAKE i \in 1..Len(y)
    <3>1. l + i \in 1..Len(q) /\ y[i] = q[l + i]
      BY <1>2, <1>5, <1>8
    <3> QED BY <1>1, <3>1 DEF WriterOK
  <2>2. s.state = "OPENING" => ~s.dataFlags
    BY DEF WriterOK
  <2>3. CASE n = Len(p)
    <3>1. g = FALSE /\ x.kind = "NONE" /\ ~x.dangling
      BY <1>6, <1>9, <2>3
    <3> QED BY <2>1, <2>2, <3>1 DEF WriterOK
  <2>4. CASE n < Len(p)
    <3>0. n # Len(p) /\ pos # 0
      BY <1>3, <1>2, <2>4
    <3>1. x.kind = "SHARED" /\ x.buf \in {"FULL", "UPDATE"} => g \/ s.state = "DISCONNECTED"
      <4>1. CASE l = 0
        BY <1>1, <1>6, <1>9, <2>4, <3>0, <4>1 DEF WriterOK
      <4>2. CASE l # 0
        BY <1>6, <1>9, <2>4, <3>0, <4>2 DEF OfBuf
      <4> QED BY <4>1, <4>2
    <3>2. g => x.msg.type = "DATA"
      <4>1. CASE l = 0
        BY <1>1, <1>6, <1>9, <2>4, <3>0, <4>1 DEF WriterOK
      <4>2. CASE l # 0
        BY <1>9, <3>0, <4>2
      <4> QED BY <4>1, <4>2
    <3> QED BY <1>6, <2>1, <2>2, <2>4, <3>0, <3>1, <3>2 DEF WriterOK
  <2> QED BY <1>2, <1>3, <2>3, <2>4
<1> QED BY <1>1, <1>5, <1>7, <1>11, <1>12 DEF SessionIs

\* E is sent and X remains of R; some of it is dropped, or replaced.
Sends(E, X, R, replaced) ==
    /\ E \in Seq(ServerMsg) /\ R \in Seq(ServerMsg) /\ X \in Seq(ServerMsg)
    /\ Count(E \o X) = Count(R)
    /\ ~replaced => Thins(E \o X, R, TRUE)

\* An output sends the first unsent messages and leaves the others.
LEMMA OutputMessages ==
    ASSUME NEW sh, NEW v \in Nat, SharedOK(sh, v), NEW s \in S!ServerSessionType,
           WriterOK(s.state, s.sendQueue, s.writer, s.isSendingData, s.dataFlags),
           NEW p, p = S!Pending(s, sh), NEW n \in 0..Len(p), NEW pos \in {1, 2}, S!CanSend(p, n, pos),
           NEW text \in S!Texts(p, sh), NEW E, E = S!Emitted(p, n, pos, text),
           NEW r, r = S!HandleOutput(s, n, pos, sh),
           NEW R, R = Unsent(s),
           NEW X, X = Unsent(r)
    PROVE  Sends(E, X, R, S!SendsReplaced(s, n, text, sh))
<1>1. PICK q, w, b, d, x, W, Q, V, l, c :
        /\ q = s.sendQueue /\ w = s.writer /\ b = Busy(w) /\ d = Done(w) /\ x = r.writer
        /\ W = Undelivered(w) /\ Q = Msgs(q) /\ V = Undelivered(x)
        /\ l = LoadedOf(n, b, Len(q)) /\ c = Delivered(p, n, pos)
  OBVIOUS
<1>2. q \in Seq(S!QueuedMsg) /\ w \in S!ServerWriter /\ Len(q) \in Nat
  BY <1>1, SessionFields
<1>3. W \in Seq(ServerMsg) /\ Len(W) = b - d /\ b \in {0, 1} /\ d \in {0, 1} /\ d <= b
  BY <1>1, <1>2, UndeliveredFacts
<1>4. Q \in Seq(ServerMsg) /\ Len(Q) = Len(q) /\ \A i \in 1..Len(q) : Q[i] = q[i].msg
  BY <1>1, <1>2, ServerCarry, MsgsFacts
<1>5. p \in Seq(S!ServerWriter) /\ Len(p) = b + Len(q)
  BY <1>1, PendingFacts
<1>25. b = Busy(s.writer) /\ d = Done(s.writer)
  BY <1>1
<1>6. R \in Seq(ServerMsg) /\ Len(p) = Len(R) + d /\ (p # <<>> => (d = 0 <=> p[1].pos < Body))
  BY <1>25, PendingMatches
<1>7. /\ Matches(p, R, d)
      /\ \A i \in 1..Len(p) : i > d => R[i - d].type # "UNKNOWN"
      /\ ~S!SendsReplaced(s, n, text, sh) =>
           /\ p # <<>> => text = p[1].msg
           /\ \A i \in 1..Len(p) : i > d /\ i <= n + 1 =>
                p[i].msg = R[i - d] \/ (p[i].msg = Cleared /\ R[i - d].type = "DATA")
  BY <1>25, PendingFaithful
<1>8. x = S!doSend(p, n, pos) /\ r.sendQueue = SubSeq(q, l + 1, Len(q)) /\ l \in 0..Len(q)
  BY <1>1, OutputSession
<1>9. /\ V \in Seq(ServerMsg) /\ Len(V) = (IF n < Len(p) /\ pos # Body THEN 1 ELSE 0)
      /\ Len(V) = 1 => V[1] = p[n + 1].msg
      /\ n < Len(p) => p[n + 1].msg.type # "UNKNOWN"
  <2>1. V \in Seq(ServerMsg) /\ Len(V) = (IF n < Len(p) /\ pos # Body THEN 1 ELSE 0) /\ (Len(V) = 1 => V[1] = p[n + 1].msg)
    BY <1>1, <1>8, NextWriter
  <2> QED BY <1>1, <2>1 DEF S!CanSend
<1>10. c = (IF n < Len(p) /\ pos = Body THEN n + 1 ELSE n) /\ c \in 0..Len(p) /\ c <= n + 1
  <2>3. c = (IF n < Len(p) /\ pos = Body THEN n + 1 ELSE n)
    BY <1>1 DEF Delivered
  <2>2. Len(p) \in Nat /\ n \in Nat /\ n <= Len(p)
    BY <1>5
  <2> QED BY <2>2, <2>3
<1>11. d <= c
  <2>1. CASE d = 1 /\ n = 0
    <3>1. Len(p) >= 1 /\ p # <<>> /\ p[1] \in S!ServerWriter
      BY <1>2, <1>3, <1>5, <2>1
    <3>2. p[1].pos \in 0..2 /\ ~(p[1].pos < Body)
      BY <1>6, <2>1, <3>1, WriterFields
    <3>3. pos > p[1].pos
      BY <2>1, <3>1 DEF S!CanSend
    <3> QED BY <3>2, <3>3 DEF Body
  <2> QED BY <1>3, <1>10, <2>1
<1>12. text \in ServerMsg /\ (p # <<>> => (text.type \in Transit <=> p[1].msg.type \in Transit))
  BY TextFacts
<1>13. E = Emitted(p, n, pos, text)
  BY ServerEmitted
<1>14. Cleared \in ServerMsg /\ Garbled \in ServerMsg /\ Carry(S!ServerWriter, ServerMsg)
  BY Vocabulary, ServerCarry
<1>15. E \in Seq(ServerMsg) /\ Count(E) = Count(SubSeq(R, 1, c - d)) /\ c - d \in 0..Len(R)
  <2>1. /\ Cleared \in ServerMsg /\ Garbled \in ServerMsg /\ Carry(S!ServerWriter, ServerMsg)
        /\ p \in Seq(S!ServerWriter) /\ n \in 0..Len(p) /\ text \in ServerMsg /\ R \in Seq(ServerMsg) /\ d \in {0, 1}
        /\ Len(p) = Len(R) + d /\ d <= Delivered(p, n, pos) /\ Matches(p, R, d)
        /\ p # <<>> => /\ text.type \in Transit <=> p[1].msg.type \in Transit
                       /\ d = 0 <=> p[1].pos < Body
    BY <1>1, <1>3, <1>5, <1>6, <1>7, <1>11, <1>12, <1>14
  <2>2. /\ Delivered(p, n, pos) - d \in 0..Len(R) /\ Emitted(p, n, pos, text) \in Seq(ServerMsg)
        /\ Count(Emitted(p, n, pos, text)) = Count(SubSeq(R, 1, Delivered(p, n, pos) - d))
    BY ONLY <2>1, EmittedCount
  <2> QED BY ONLY <1>1, <1>13, <2>2
<1>16. Msgs(r.sendQueue) = SubSeq(Q, l + 1, Len(Q))
  <2>1. PICK y, z : y = r.sendQueue /\ z = SubSeq(Q, l + 1, Len(Q))
    OBVIOUS
  <2>2. y \in Seq(S!QueuedMsg) /\ Len(y) = Len(q) - l /\ \A i \in 1..Len(q) - l : y[i] = q[l + i]
    BY <1>2, <1>8, <2>1, SplitFacts
  <2>3. z \in Seq(ServerMsg) /\ Len(z) = Len(Q) - l /\ \A i \in 1..Len(Q) - l : z[i] = Q[l + i]
    BY <1>4, <1>8, <2>1, SplitFacts
  <2>4. Msgs(y) \in Seq(ServerMsg) /\ Len(Msgs(y)) = Len(y) /\ \A i \in 1..Len(y) : Msgs(y)[i] = y[i].msg
    BY <2>2, ServerCarry, MsgsFacts
  <2>5. \A i \in 1..Len(z) : Msgs(y)[i] = z[i]
    <3> TAKE i \in 1..Len(z)
    <3>1. i \in 1..Len(y) /\ l + i \in 1..Len(q)
      BY <1>2, <1>4, <1>8, <2>2, <2>3
    <3>2. Msgs(y)[i] = y[i].msg /\ y[i] = q[l + i] /\ z[i] = Q[l + i] /\ Q[l + i] = q[l + i].msg
      BY <1>4, <2>2, <2>3, <2>4, <3>1
    <3> QED BY <3>2
  <2>6. Len(Msgs(y)) = Len(z)
    BY <1>4, <2>2, <2>3, <2>4
  <2>7. Msgs(y) = z
    BY <2>3, <2>4, <2>5, <2>6, SameSequence
  <2> QED BY <2>1, <2>7
<1>17. PICK Y : Y = SubSeq(R, c - d + 1, Len(R))
  OBVIOUS
<1>18. R = W \o Q /\ X = V \o SubSeq(Q, l + 1, Len(Q))
  BY <1>1, <1>16 DEF Unsent
<1>19. /\ X \in Seq(ServerMsg) /\ Y \in Seq(ServerMsg)
       /\ Len(V) = 1 => n + 1 - d \in 1..Len(R)
       /\ (Len(V) = 1 => V[1] = R[n + 1 - d]) => X = Y
       /\ (Len(V) = 1 => (V[1].type \in Transit <=> R[n + 1 - d].type \in Transit)) => Count(X) = Count(Y)
  <2>1. OutputShape(n, b, d, c, pos, Len(Q), Len(W), Len(V))
    BY <1>3, <1>4, <1>5, <1>9, <1>10, <1>11 DEF OutputShape
  <2>2. l = LoadedOf(n, b, Len(Q))
    BY <1>1, <1>4
  <2>3. b \in Nat /\ d \in Nat /\ c \in Nat /\ n \in Nat
    BY <1>3, <1>5, <1>10
  <2>4. X \in Seq(ServerMsg) /\ Y \in Seq(ServerMsg) /\ RestIs(V, R, n + 1 - d, X, Y)
    BY ONLY <1>3, <1>4, <1>9, <1>17, <1>18, <2>1, <2>2, <2>3, OutputRest, ZenonT(60)
  <2> QED BY <2>4 DEF RestIs
<1>20. PICK A : A = SubSeq(R, 1, c - d)
  OBVIOUS
<1>21. A \in Seq(ServerMsg) /\ R = A \o Y
  BY <1>6, <1>15, <1>17, <1>20, SplitFacts
<1>22. Len(V) = 1 => n + 1 \in 1..Len(p) /\ n + 1 > d /\ n < Len(p)
  <2> HAVE Len(V) = 1
  <2>1. n < Len(p) /\ pos # Body
    BY <1>9
  <2>2. c = n
    BY <1>10, <2>1
  <2>3. Len(p) \in Nat /\ n \in Nat /\ d \in Nat
    BY <1>3, <1>5
  <2> QED BY <1>11, <2>1, <2>2, <2>3
<1>23. Count(E \o X) = Count(R)
  <2>1. Count(X) = Count(Y)
    <3>1. Len(V) = 1 => (V[1].type \in Transit <=> R[n + 1 - d].type \in Transit)
      <4> HAVE Len(V) = 1
      <4>1. PICK i : i = n + 1
        OBVIOUS
      <4>2. i \in 1..Len(p) /\ i > d
        BY <1>22, <4>1
      <4>3. p[i].msg.type \in Transit <=> R[i - d].type \in Transit
        BY <1>7, <4>2 DEF Matches
      <4>4. p[n + 1].msg.type \in Transit <=> R[n + 1 - d].type \in Transit
        BY ONLY <1>3, <4>1, <4>3, n \in Nat
      <4> QED BY <1>9, <4>4
    <3> QED BY <1>19, <3>1
  <2>2. Count(E \o X) = Count(E) + Count(X) /\ Count(A \o Y) = Count(A) + Count(Y)
    BY <1>15, <1>19, <1>21, CountConcat
  <2> QED BY <1>15, <1>20, <1>21, <2>1, <2>2
<1>24. ASSUME ~S!SendsReplaced(s, n, text, sh) PROVE Thins(E \o X, R, TRUE)
  <2>1. Len(V) = 1 => V[1] = R[n + 1 - d]
    <3> HAVE Len(V) = 1
    <3>1. p[n + 1].msg = R[n + 1 - d] \/ p[n + 1].msg = Cleared
      <4>1. PICK i : i = n + 1
        OBVIOUS
      <4>2. i \in 1..Len(p) /\ i > d /\ i <= n + 1
        BY <1>22, <4>1
      <4>3. p[i].msg = R[i - d] \/ p[i].msg = Cleared
        BY <1>7, <1>24, <4>2
      <4> QED BY ONLY <1>3, <4>1, <4>3, n \in Nat
    <3>2. p[n + 1].msg # Cleared
      BY <1>9, <1>22, Vocabulary
    <3> QED BY <1>9, <3>1, <3>2
  <2>2. X = Y
    BY <1>19, <2>1
  <2>3. Faithful(p, c, R, d)
    <3>1. ASSUME NEW i \in 1..c, i > d
          PROVE  /\ R[i - d].type # "UNKNOWN"
                 /\ p[i].msg = R[i - d] \/ (p[i].msg = Cleared /\ R[i - d].type = "DATA")
      <4>1. i \in 1..Len(p) /\ i <= n + 1
        BY <1>5, <1>10
      <4> QED BY <1>7, <1>24, <3>1, <4>1
    <3> QED BY <3>1 DEF Faithful
  <2>4. FirstIs(p, text, d)
    BY <1>6, <1>7, <1>24 DEF FirstIs
  <2>5. Thins(E, A, TRUE)
    <3>1. c = Delivered(p, n, pos)
      BY <1>1
    <3>2. Faithful(p, Delivered(p, n, pos), R, d) /\ d <= Delivered(p, n, pos)
      BY <1>11, <2>3, <3>1
    <3>3. Thins(Emitted(p, n, pos, text), SubSeq(R, 1, Delivered(p, n, pos) - d), TRUE)
      <4>1. n \in 0..Len(p)
        OBVIOUS
      <4> QED BY ONLY <1>3, <1>5, <1>6, <1>12, <1>14, <2>4, <3>2, <4>1, EmittedThins
    <3> QED BY <1>13, <1>20, <3>1, <3>3
  <2>6. Thins(Y, Y, TRUE)
    BY <1>19, ThinsSelf
  <2>7. Thins(E \o Y, A \o Y, TRUE)
    BY <1>15, <1>19, <1>21, <2>5, <2>6, ThinsConcat
  <2> QED BY <1>21, <2>2, <2>7
<1> QED BY <1>6, <1>15, <1>19, <1>23, <1>24 DEF Sends

\* A socket that fails during an output has sent some of the unsent messages.
LEMMA ErrorMessages ==
    ASSUME NEW sh, NEW v \in Nat, SharedOK(sh, v), NEW s \in S!ServerSessionType,
           WriterOK(s.state, s.sendQueue, s.writer, s.isSendingData, s.dataFlags),
           NEW p, p = S!Pending(s, sh), NEW n \in 0..Len(p), NEW text \in S!Texts(p, sh),
           NEW E, E = S!Emitted(p, n, 0, text), NEW R, R = Unsent(s)
    PROVE  /\ E \in Seq(ServerMsg) /\ R \in Seq(ServerMsg) /\ Count(E) <= Count(R)
           /\ ~S!SendsReplaced(s, n, text, sh) => Thins(E, R, FALSE)
<1>1. PICK b, d : b = Busy(s.writer) /\ d = Done(s.writer)
  OBVIOUS
<1>2. b \in {0, 1} /\ d \in {0, 1}
  <2>1. s.writer \in S!ServerWriter
    BY SessionFields
  <2> QED BY <1>1, <2>1, UndeliveredFacts
<1>3. p \in Seq(S!ServerWriter) /\ Len(p) \in Nat
  <2>1. p \in Seq(S!ServerWriter)
    BY PendingFacts
  <2> QED BY <2>1
<1>4. R \in Seq(ServerMsg) /\ Len(p) = Len(R) + d /\ (p # <<>> => (d = 0 <=> p[1].pos < Body))
  BY <1>1, PendingMatches
<1>5. /\ Matches(p, R, d)
      /\ \A i \in 1..Len(p) : i > d => R[i - d].type # "UNKNOWN"
      /\ ~S!SendsReplaced(s, n, text, sh) =>
           /\ p # <<>> => text = p[1].msg
           /\ \A i \in 1..Len(p) : i > d /\ i <= n + 1 =>
                p[i].msg = R[i - d] \/ (p[i].msg = Cleared /\ R[i - d].type = "DATA")
  BY <1>1, PendingFaithful
<1>6. Delivered(p, n, 0) = n
  BY DEF Delivered, Body
<1>7. text \in ServerMsg /\ (p # <<>> => (text.type \in Transit <=> p[1].msg.type \in Transit))
  BY TextFacts
<1>8. E = Emitted(p, n, 0, text)
  BY ServerEmitted
<1>9. Cleared \in ServerMsg /\ Garbled \in ServerMsg /\ Carry(S!ServerWriter, ServerMsg) /\ n \in 0..Len(p)
  BY Vocabulary, ServerCarry
<1>10. CASE n = 0
  <2>1. Delivered(p, n, 0) = 0
    BY <1>6, <1>10
  <2>2. Emitted(p, n, 0, text) = <<>>
    BY ONLY <1>3, <1>7, <1>9, <2>1, NothingEmitted
  <2>3. Count(R) \in Nat
    BY <1>4, CountType
  <2>4. Thins(<<>>, R, FALSE)
    <3>1. PICK e : e = <<>>
      OBVIOUS
    <3>2. e \in Seq(ServerMsg) /\ e \o R = R
      BY <1>4, <3>1
    <3>3. Thins(e, e, TRUE)
      BY <3>2, ThinsSelf
    <3>4. Thins(e, e \o R, FALSE)
      BY <1>4, <3>2, <3>3, ThinsPrefix
    <3> QED BY <3>1, <3>2, <3>4
  <2>5. <<>> \in Seq(ServerMsg)
    OBVIOUS
  <2>6. E = <<>>
    BY ONLY <1>8, <2>2
  <2>7. Count(E) = 0
    BY ONLY <2>6, CountEmpty
  <2>8. Count(E) <= Count(R)
    BY ONLY <2>3, <2>7
  <2>9. E \in Seq(ServerMsg) /\ Thins(E, R, FALSE)
    BY ONLY <2>4, <2>5, <2>6
  <2> QED BY ONLY <1>4, <2>8, <2>9
<1>11. CASE n # 0
  <2>1. d <= n /\ d <= Delivered(p, n, 0)
    BY <1>2, <1>6, <1>11
  <2>2. PICK A, Y : A = SubSeq(R, 1, n - d) /\ Y = SubSeq(R, n - d + 1, Len(R))
    OBVIOUS
  <2>3. E \in Seq(ServerMsg) /\ Count(E) = Count(A) /\ n - d \in 0..Len(R)
    <3>1. /\ Emitted(p, n, 0, text) \in Seq(ServerMsg)
          /\ Count(Emitted(p, n, 0, text)) = Count(SubSeq(R, 1, Delivered(p, n, 0) - d))
          /\ Delivered(p, n, 0) - d \in 0..Len(R)
      BY ONLY <1>2, <1>3, <1>4, <1>5, <1>7, <1>9, <2>1, EmittedCount
    <3> QED BY <1>6, <1>8, <2>2, <3>1
  <2>4. A \in Seq(ServerMsg) /\ Y \in Seq(ServerMsg) /\ R = A \o Y
    BY <1>4, <2>2, <2>3, SplitFacts
  <2>5. Count(E) <= Count(R)
    <3>1. Count(A \o Y) = Count(A) + Count(Y) /\ Count(A) \in Nat /\ Count(Y) \in Nat
      BY <2>4, CountConcat, CountType
    <3> QED BY <2>3, <2>4, <3>1
  <2>6. ASSUME ~S!SendsReplaced(s, n, text, sh) PROVE Thins(E, R, FALSE)
    <3>1. Faithful(p, n, R, d)
      <4>1. ASSUME NEW i \in 1..n, i > d
            PROVE  /\ R[i - d].type # "UNKNOWN"
                   /\ p[i].msg = R[i - d] \/ (p[i].msg = Cleared /\ R[i - d].type = "DATA")
        <5>1. i \in 1..Len(p) /\ i <= n + 1
          BY <1>3
        <5> QED BY <1>5, <2>6, <4>1, <5>1
      <4> QED BY <4>1 DEF Faithful
    <3>2. FirstIs(p, text, d)
      BY <1>4, <1>5, <2>6 DEF FirstIs
    <3>3. Faithful(p, Delivered(p, n, 0), R, d)
      BY <1>6, <3>1
    <3>4. Thins(Emitted(p, n, 0, text), SubSeq(R, 1, Delivered(p, n, 0) - d), TRUE)
      BY ONLY <1>2, <1>3, <1>4, <1>7, <1>9, <2>1, <3>2, <3>3, EmittedThins
    <3>5. Thins(E, A, TRUE)
      BY <1>6, <1>8, <2>2, <3>4
    <3>6. Thins(E, A \o Y, FALSE)
      BY <2>3, <2>4, <3>5, ThinsPrefix
    <3> QED BY <2>4, <3>6
  <2> QED BY <1>4, <2>3, <2>5, <2>6
<1> QED BY <1>10, <1>11

\* Appending to the second sequence is appending to the concatenation.
LEMMA ConcatAppend ==
    ASSUME NEW M, NEW a \in Seq(M), NEW b \in Seq(M), NEW m \in M
    PROVE  a \o Append(b, m) = Append(a \o b, m)
OBVIOUS

\* Appending an entry appends its message.
LEMMA MsgsAppend ==
    ASSUME NEW q \in Seq(S!QueuedMsg), NEW e \in S!QueuedMsg
    PROVE  Msgs(Append(q, e)) = Append(Msgs(q), e.msg) /\ e.msg \in ServerMsg /\ Msgs(q) \in Seq(ServerMsg)
<1>1. PICK r : r = Append(q, e)
  OBVIOUS
<1>2. r \in Seq(S!QueuedMsg) /\ Len(r) = Len(q) + 1 /\ Len(q) \in Nat /\ r[Len(q) + 1] = e
      /\ \A i \in 1..Len(q) : r[i] = q[i]
  BY <1>1
<1>3. Msgs(r) \in Seq(ServerMsg) /\ Len(Msgs(r)) = Len(r) /\ \A i \in 1..Len(r) : Msgs(r)[i] = r[i].msg
  BY <1>2, ServerCarry, MsgsFacts
<1>4. Msgs(q) \in Seq(ServerMsg) /\ Len(Msgs(q)) = Len(q) /\ \A i \in 1..Len(q) : Msgs(q)[i] = q[i].msg
  BY ServerCarry, MsgsFacts
<1>5. e.msg \in ServerMsg
  BY QueuedFields
<1>6. PICK y : y = Append(Msgs(q), e.msg)
  OBVIOUS
<1>7. y \in Seq(ServerMsg) /\ Len(y) = Len(q) + 1 /\ y[Len(q) + 1] = e.msg
      /\ \A i \in 1..Len(q) : y[i] = q[i].msg
  BY <1>4, <1>5, <1>6
<1>8. \A i \in 1..Len(y) : Msgs(r)[i] = y[i]
  BY <1>2, <1>3, <1>7
<1>9. Msgs(r) = y
  BY <1>2, <1>3, <1>7, <1>8, SameSequence
<1> QED BY <1>1, <1>4, <1>5, <1>6, <1>9

\* What a session has not sent are messages of the server.
LEMMA UnsentType ==
    ASSUME NEW s \in S!ServerSessionType
    PROVE  Unsent(s) \in Seq(ServerMsg) /\ Undelivered(s.writer) \in Seq(ServerMsg) /\ Msgs(s.sendQueue) \in Seq(ServerMsg)
<1>1. s.writer \in S!ServerWriter /\ s.sendQueue \in Seq(S!QueuedMsg)
  BY SessionFields
<1>2. Undelivered(s.writer) \in Seq(ServerMsg)
  BY <1>1, UndeliveredFacts
<1>3. Msgs(s.sendQueue) \in Seq(ServerMsg)
  BY <1>1, ServerCarry, MsgsFacts
<1> QED BY <1>2, <1>3 DEF Unsent

\* Appending an entry to the queue appends its message to the unsent ones.
LEMMA UnsentAppend ==
    ASSUME NEW s \in S!ServerSessionType, NEW r, NEW e \in S!QueuedMsg,
           r.sendQueue = Append(s.sendQueue, e), Undelivered(r.writer) = Undelivered(s.writer)
    PROVE  Unsent(r) = Append(Unsent(s), e.msg)
<1>1. PICK q, W, Q : q = s.sendQueue /\ W = Undelivered(s.writer) /\ Q = Msgs(q)
  OBVIOUS
<1>2. q \in Seq(S!QueuedMsg) /\ W \in Seq(ServerMsg)
  BY <1>1, SessionFields, UnsentType
<1>3. Msgs(Append(q, e)) = Append(Q, e.msg) /\ e.msg \in ServerMsg /\ Q \in Seq(ServerMsg)
  BY <1>1, <1>2, MsgsAppend
<1>4. W \o Append(Q, e.msg) = Append(W \o Q, e.msg)
  BY <1>2, <1>3, ConcatAppend
<1>5. Unsent(r) = W \o Append(Q, e.msg) /\ Unsent(s) = W \o Q
  BY <1>1, <1>3 DEF Unsent
<1> QED BY <1>4, <1>5

-----------------------------------------------------------------------------
(***************************************************************************)
(* What Server::onUpdate does to a session.                                *)
(***************************************************************************)
LEMMA StopWriter ==
    ASSUME NEW w \in S!ServerWriter, w.kind \in {"SHARED", "BUFFERED"}, w.pos # 0
    PROVE  WriterIs(S!stop(w), "BUFFERED", w.buf, w.msg, w.pos, w.dangling)
<1>1. CASE w.kind = "SHARED"
  <2>1. S!stop(w) = [w EXCEPT !.kind = "BUFFERED"]
    BY <1>1 DEF S!stop
  <2> QED BY <2>1, ServerNames DEF S!ServerWriter, WriterIs
<1>2. CASE w.kind = "BUFFERED"
  <2>1. S!stop(w) = w
    BY <1>2 DEF S!stop
  <2> QED BY <1>2, <2>1 DEF WriterIs
<1> QED BY <1>1, <1>2

\* Replacing the shared buffers leaves the writer's message; it may now point
\* at a freed one.
LEMMA ReplacedWriter ==
    ASSUME NEW w \in S!ServerWriter, NEW B, NEW x, x = S!Replaced(w, B)
    PROVE  /\ x \in S!ServerWriter /\ x.kind = w.kind /\ x.buf = w.buf /\ x.msg = w.msg /\ x.pos = w.pos
           /\ x.dangling => w.dangling \/ (w.kind = "SHARED" /\ w.buf \in B)
           /\ Undelivered(x) = Undelivered(w)
<1>1. ASSUME NEW b \in BOOLEAN
      PROVE  WriterIs([w EXCEPT !.dangling = b], w.kind, w.buf, w.msg, w.pos, b)
  BY ServerNames DEF S!ServerWriter, WriterIs
<1>2. /\ x \in S!ServerWriter /\ x.kind = w.kind /\ x.buf = w.buf /\ x.msg = w.msg /\ x.pos = w.pos
      /\ x.dangling => w.dangling \/ (w.kind = "SHARED" /\ w.buf \in B)
  BY <1>1 DEF S!Replaced, WriterIs
<1> QED BY <1>2 DEF Undelivered

\* stopSendingData drops queued data only, secures the data in the writer and
\* clears the flags.
LEMMA StopSession ==
    ASSUME NEW sh, NEW v \in Nat, SharedOK(sh, v), NEW s \in S!ServerSessionType,
           WriterOK(s.state, s.sendQueue, s.writer, s.isSendingData, s.dataFlags), s.isSendingData,
           NEW r, r = S!stopSendingData(s, sh)
    PROVE  /\ r \in S!ServerSessionType /\ r.state = s.state /\ r.reason = s.reason
           /\ ~r.isSendingData /\ ~r.dataFlags /\ ~r.dataUpdateFlags
           /\ WriterOK(r.state, r.sendQueue, r.writer, r.isSendingData, r.dataFlags)
           /\ Thins(Unsent(r), Unsent(s), TRUE)
<1>1. PICK q, w, I, k, x : /\ q = s.sendQueue /\ w = s.writer
                           /\ I = {i \in DOMAIN s.sendQueue : S!Content(s.sendQueue[i], sh).type # "DATA"}
                           /\ k = S!Selected(s.sendQueue, I) /\ x = S!stop(w)
  OBVIOUS
<1>2. q \in Seq(S!QueuedMsg) /\ w \in S!ServerWriter /\ DOMAIN q = 1..Len(q)
  BY <1>1, SessionFields
<1>3. w.kind \in {"SHARED", "BUFFERED"} /\ w.pos # 0 /\ OfBuf(w.buf, w.msg) /\ w.msg.type = "DATA"
      /\ (w.dangling => w.buf = "TICK")
  <2>1. w.kind # "NONE" /\ w.msg.type = "DATA" /\ OfBuf(w.buf, w.msg) /\ w.pos # 0
    BY <1>1 DEF WriterOK
  <2>2. w.kind # "OWN"
    BY <1>1, <2>1 DEF WriterOK, OfBuf
  <2> QED BY <1>1, <1>2, <2>1, <2>2, WriterFields DEF WriterOK
<1>4. /\ x \in S!ServerWriter /\ x.kind = "BUFFERED" /\ x.buf = w.buf /\ x.msg = w.msg /\ x.pos = w.pos
      /\ x.dangling = w.dangling
  BY <1>1, <1>2, <1>3, StopWriter DEF WriterIs
<1>5. I \in SUBSET (1..Len(q)) /\ \A i \in (1..Len(q)) \ I : q[i].msg.type = "DATA"
  <2>1. I \in SUBSET (1..Len(q)) /\ \A i \in (1..Len(q)) \ I : S!Content(q[i], sh).type = "DATA"
    BY <1>1, <1>2
  <2>2. \A i \in 1..Len(q) : q[i] \in S!QueuedMsg /\ OfBuf(q[i].buf, q[i].msg)
    BY <1>1, <1>2 DEF WriterOK
  <2>3. \A i \in 1..Len(q) : S!Content(q[i], sh).type = "DATA" => q[i].msg.type = "DATA"
    BY <2>2, ContentFacts
  <2> QED BY <2>1, <2>3
<1>6. k = Selected(q, I)
  BY <1>1, ServerSelected
<1>7. k \in Seq(S!QueuedMsg) /\ Thins(Msgs(k), Msgs(q), TRUE)
  BY <1>2, <1>5, <1>6, ServerCarry, KeptThins
<1>8. \A i \in 1..Len(k) : OfBuf(k[i].buf, k[i].msg)
  <2>1. PICK f : Picks(f, k, q, I)
    BY <1>2, <1>5, <1>6, SelectedPicks
  <2>2. \A i \in 1..Len(k) : f[i] \in 1..Len(q) /\ k[i] = q[f[i]]
    BY <1>5, <2>1 DEF Picks
  <2>3. \A i \in 1..Len(q) : OfBuf(q[i].buf, q[i].msg)
    BY <1>1 DEF WriterOK
  <2> QED BY <2>2, <2>3
<1>9. SessionIs(r, s.state, k, x, FALSE, FALSE, FALSE, s.reason)
  <2>1. PICK a : a = [s EXCEPT !.sendQueue = k, !.writer = x, !.isSendingData = FALSE]
    OBVIOUS
  <2>2. SessionIs(a, s.state, k, x, FALSE, s.dataFlags, s.dataUpdateFlags, s.reason)
    BY <1>4, <1>7, <2>1, SessionWriter
  <2>3. r = [a EXCEPT !.dataFlags = FALSE, !.dataUpdateFlags = FALSE]
    <3>1. S!stopSendingData(s, sh) =
            [[s EXCEPT !.sendQueue = S!Selected(s.sendQueue, {i \in DOMAIN s.sendQueue : S!Content(s.sendQueue[i], sh).type # "DATA"}),
                       !.writer = S!stop(s.writer), !.isSendingData = FALSE]
             EXCEPT !.dataFlags = FALSE, !.dataUpdateFlags = FALSE]
      BY Zenon DEF S!stopSendingData
    <3> QED BY <1>1, <2>1, <3>1, Zenon
  <2>4. a \in S!ServerSessionType /\ FALSE \in BOOLEAN
    BY <2>2 DEF SessionIs
  <2>5. SessionIs(r, a.state, a.sendQueue, a.writer, a.isSendingData, FALSE, FALSE, a.reason)
    BY ONLY <2>3, <2>4, SessionFlags
  <2> QED BY ONLY <2>2, <2>5 DEF SessionIs
<1>10. WriterOK(s.state, k, x, FALSE, FALSE)
  BY <1>3, <1>4, <1>8 DEF WriterOK
<1>11. Undelivered(x) = Undelivered(w)
  BY <1>3, <1>4 DEF Undelivered
<1>12. Thins(Undelivered(w) \o Msgs(k), Undelivered(w) \o Msgs(q), TRUE)
  <2>1. Undelivered(w) \in Seq(ServerMsg)
    BY <1>2, UndeliveredFacts
  <2>2. Msgs(k) \in Seq(ServerMsg) /\ Msgs(q) \in Seq(ServerMsg)
    BY <1>2, <1>7, ServerCarry, MsgsFacts
  <2>3. Thins(Undelivered(w), Undelivered(w), TRUE)
    BY <2>1, ThinsSelf
  <2> QED BY <1>7, <2>1, <2>2, <2>3, ThinsConcat
<1> QED BY <1>1, <1>9, <1>10, <1>11, <1>12 DEF SessionIs, Unsent

\* The entry for a shared buffer that is not cleared holds the present message.
LEMMA SharedEntry ==
    ASSUME NEW sh, NEW v \in Nat, SharedOK(sh, v), NEW buf \in {"TICK", "FULL", "UPDATE"}, sh[buf] # Cleared,
           NEW e, e = [buf |-> buf, msg |-> sh[buf]]
    PROVE  /\ e \in S!QueuedMsg /\ e.msg = sh[buf] /\ OfBuf(e.buf, e.msg) /\ sh[buf] \in ServerMsg
           /\ buf # "TICK" => sh[buf].type = "DATA" /\ sh[buf].version = v /\ (sh[buf].isUpdate <=> buf = "UPDATE")
<1>1. sh[buf] \in ServerMsg /\ buf \in S!SharedBuf
  BY DEF SharedOK, S!SharedBuf
<1>2. e \in S!QueuedMsg /\ e.msg = sh[buf] /\ e.buf = buf
  BY <1>1, ServerNames DEF S!QueuedMsg
<1>3. CASE buf = "TICK"
  <2>1. sh[buf].type = "UPDATE_TICK"
    BY <1>3, Vocabulary DEF SharedOK
  <2> QED BY <1>1, <1>2, <1>3, <2>1 DEF OfBuf
<1>4. CASE buf = "FULL"
  <2>1. sh[buf] = ServerMsgData(FALSE, v)
    BY <1>4 DEF SharedOK
  <2>2. sh[buf].type = "DATA" /\ sh[buf].version = v /\ sh[buf].isUpdate = FALSE
    BY <2>1 DEF ServerMsgData
  <2> QED BY <1>1, <1>2, <1>4, <2>2 DEF OfBuf
<1>5. CASE buf = "UPDATE"
  <2>1. sh[buf] = ServerMsgData(TRUE, v)
    BY <1>5 DEF SharedOK
  <2>2. sh[buf].type = "DATA" /\ sh[buf].version = v /\ sh[buf].isUpdate = TRUE
    BY <2>1 DEF ServerMsgData
  <2> QED BY <1>1, <1>2, <1>5, <2>2 DEF OfBuf
<1> QED BY <1>3, <1>4, <1>5

\* A session of its type whose queue and writer agree with its state.
SessionOK(s) ==
    /\ s \in S!ServerSessionType
    /\ WriterOK(s.state, s.sendQueue, s.writer, s.isSendingData, s.dataFlags)

\* r is s with another message queued.
Queued(r, s, m) ==
    /\ SessionOK(r) /\ r.state = s.state /\ r.reason = s.reason
    /\ r.isSendingData = s.isSendingData /\ r.dataFlags = s.dataFlags /\ r.dataUpdateFlags = s.dataUpdateFlags
    /\ Unsent(r) = Append(Unsent(s), m)

\* sendSharedMessage appends the content of the buffer.
LEMMA QueueShared ==
    ASSUME NEW sh, NEW v \in Nat, SharedOK(sh, v), NEW buf \in {"TICK", "FULL", "UPDATE"}, sh[buf] # Cleared,
           NEW s, SessionOK(s), NEW r, r = S!sendSharedMessage(s, buf, sh)
    PROVE  Queued(r, s, sh[buf])
<1>0. s \in S!ServerSessionType /\ WriterOK(s.state, s.sendQueue, s.writer, s.isSendingData, s.dataFlags)
  BY DEF SessionOK
<1>1. PICK e : e = [buf |-> buf, msg |-> sh[buf]]
  OBVIOUS
<1>2. e \in S!QueuedMsg /\ e.msg = sh[buf] /\ OfBuf(e.buf, e.msg)
  BY <1>1, SharedEntry
<1>3. r = S!Enqueue(s, e)
  BY <1>1 DEF S!sendSharedMessage
<1>4. SessionIs(r, s.state, Append(s.sendQueue, e), s.writer, s.isSendingData, s.dataFlags, s.dataUpdateFlags, s.reason)
  BY <1>0, <1>2, <1>3, SessionEnqueue
<1>5. PICK q : q = Append(s.sendQueue, e)
  OBVIOUS
<1>6. \A i \in 1..Len(q) : OfBuf(q[i].buf, q[i].msg)
  <2>1. PICK o : o = s.sendQueue
    OBVIOUS
  <2>2. o \in Seq(S!QueuedMsg) /\ \A i \in 1..Len(o) : OfBuf(o[i].buf, o[i].msg)
    BY <1>0, <2>1, SessionFields DEF WriterOK
  <2>3. q = Append(o, e)
    BY <1>5, <2>1
  <2>4. \A i \in 1..Len(q) : (i \in 1..Len(o) /\ q[i] = o[i]) \/ q[i] = e
    BY <1>2, <2>2, <2>3
  <2> QED BY <1>2, <2>2, <2>4
<1>7. WriterOK(s.state, q, s.writer, s.isSendingData, s.dataFlags)
  BY <1>0, <1>6 DEF WriterOK
<1>8. Unsent(r) = Append(Unsent(s), e.msg)
  <2>1. r.sendQueue = Append(s.sendQueue, e) /\ r.writer = s.writer
    BY <1>4 DEF SessionIs
  <2> QED BY <1>0, <1>2, <2>1, UnsentAppend
<1> QED BY <1>2, <1>4, <1>5, <1>7, <1>8 DEF SessionIs, SessionOK, Queued

\* r is s after a tick, which m stands for; the data it asked for is forgotten.
Ticked(r, s, m) ==
    /\ SessionOK(r) /\ r.state = s.state /\ r.reason = s.reason
    /\ ~r.isSendingData /\ ~r.dataFlags /\ ~r.dataUpdateFlags
    /\ s.state = "CONNECTED" => Unsent(r) = Append(Unsent(s), m)
    /\ s.state # "CONNECTED" => Unsent(r) = Unsent(s)

\* onUpdate of a session that sends no data appends the tick to it.
LEMMA TickSession ==
    ASSUME NEW sh, NEW v \in Nat, SharedOK(sh, v), NEW s, SessionOK(s), s.state # "DISCONNECTED", ~s.isSendingData,
           NEW r, r = S!onUpdate([s EXCEPT !.writer = S!Replaced(s.writer, S!ReplacedBuf)], sh)
    PROVE  Ticked(r, s, sh["TICK"])
<1>0. s \in S!ServerSessionType /\ WriterOK(s.state, s.sendQueue, s.writer, s.isSendingData, s.dataFlags)
  BY DEF SessionOK
<1>1. PICK w, x, a, b : /\ w = s.writer /\ x = S!Replaced(s.writer, S!ReplacedBuf)
                        /\ a = [s EXCEPT !.writer = x]
                        /\ b = [a EXCEPT !.dataFlags = FALSE, !.dataUpdateFlags = FALSE]
  OBVIOUS
<1>2. w \in S!ServerWriter
  BY <1>0, <1>1, SessionFields
<1>3. /\ x \in S!ServerWriter /\ x.kind = w.kind /\ x.buf = w.buf /\ x.msg = w.msg /\ x.pos = w.pos
      /\ x.dangling => w.dangling \/ (w.kind = "SHARED" /\ w.buf \in S!ReplacedBuf)
      /\ Undelivered(x) = Undelivered(w)
  BY <1>1, <1>2, ReplacedWriter
<1>4. SessionIs(a, s.state, s.sendQueue, x, s.isSendingData, s.dataFlags, s.dataUpdateFlags, s.reason)
  <2>1. <<>> \in Seq(S!QueuedMsg) /\ FALSE \in BOOLEAN
    OBVIOUS
  <2> QED BY <1>0, <1>1, <1>3, <2>1, SessionWriter
<1>5. SessionIs(b, s.state, s.sendQueue, x, s.isSendingData, FALSE, FALSE, s.reason)
  <2>1. a \in S!ServerSessionType /\ FALSE \in BOOLEAN /\ b = [a EXCEPT !.dataFlags = FALSE, !.dataUpdateFlags = FALSE]
    BY <1>1, <1>4 DEF SessionIs
  <2>2. SessionIs(b, a.state, a.sendQueue, a.writer, a.isSendingData, FALSE, FALSE, a.reason)
    BY ONLY <2>1, SessionFlags
  <2> QED BY ONLY <1>4, <2>2 DEF SessionIs
<1>6. WriterOK(s.state, s.sendQueue, x, FALSE, FALSE)
  <2>1. w.kind = "SHARED" => w.buf \notin {"FULL", "UPDATE"}
    BY <1>0, <1>1 DEF WriterOK
  <2>2. x.dangling => x.kind # "NONE" /\ x.buf = "TICK"
    BY <1>0, <1>1, <1>3, <2>1 DEF WriterOK, S!ReplacedBuf
  <2>3. /\ \A i \in 1..Len(s.sendQueue) : OfBuf(s.sendQueue[i].buf, s.sendQueue[i].msg)
        /\ w.kind # "NONE" => OfBuf(w.buf, w.msg) /\ w.pos # 0
        /\ w.kind = "OWN" => w.buf = "OWN"
    BY <1>0, <1>1 DEF WriterOK
  <2> QED BY ONLY <1>3, <2>1, <2>2, <2>3 DEF WriterOK
<1>7. Unsent(b) = Unsent(s)
  BY <1>1, <1>3, <1>5 DEF SessionIs, Unsent
<1>8. /\ SessionOK(b) /\ b.state = s.state /\ b.reason = s.reason /\ ~b.isSendingData
      /\ ~b.dataFlags /\ ~b.dataUpdateFlags
  <2>1. s.isSendingData = FALSE
    BY <1>0, SessionFields
  <2>2. SessionIs(b, s.state, s.sendQueue, x, FALSE, FALSE, FALSE, s.reason)
    BY ONLY <1>5, <2>1
  <2> QED BY ONLY <1>6, <2>2 DEF SessionIs, SessionOK
<1>9. CASE s.state = "CONNECTED"
  <2>1. a.state = "CONNECTED"
    BY <1>4, <1>9 DEF SessionIs
  <2>2. r = S!sendSharedMessage(b, "TICK", sh)
    <3>1. S!onUpdate(a, sh) = S!sendSharedMessage(b, "TICK", sh)
      BY <1>1, <2>1 DEF S!onUpdate
    <3> QED BY <1>1, <3>1, Zenon
  <2>3. sh["TICK"] # Cleared
    BY Vocabulary DEF SharedOK
  <2>4. Queued(r, b, sh["TICK"])
    <3>1. "TICK" \in {"TICK", "FULL", "UPDATE"}
      OBVIOUS
    <3> QED BY <1>8, <2>2, <2>3, <3>1, QueueShared
  <2> QED BY <1>7, <1>8, <1>9, <2>4 DEF Queued, Ticked
<1>10. CASE s.state # "CONNECTED"
  <2>1. a.state # "CONNECTED"
    BY <1>4, <1>10 DEF SessionIs
  <2>2. r = b
    <3>1. S!onUpdate(a, sh) = b
      BY <1>1, <2>1 DEF S!onUpdate
    <3> QED BY <1>1, <3>1, Zenon
  <2> QED BY <1>7, <1>8, <1>10, <2>2 DEF Ticked
<1> QED BY <1>9, <1>10

\* r is s after the update v: X remains of what was to be sent, then the tick t and perhaps data.
UpdatedTo(r, s, X, t, v) ==
    /\ SessionOK(r) /\ r.state = s.state /\ r.reason = s.reason /\ r.dataFlags = FALSE
    /\ X \in Seq(ServerMsg) /\ Unsent(s) \in Seq(ServerMsg) /\ Thins(X, Unsent(s), TRUE) /\ t \in ServerMsg
    /\ s.state # "CONNECTED" => Unsent(r) = X
    /\ s.state = "CONNECTED" =>
         \/ Unsent(r) = Append(X, t)
         \/ \E m \in ServerMsg : /\ m.type = "DATA" /\ m.version = v /\ s.dataFlags
                                 /\ m.isUpdate => s.dataUpdateFlags
                                 /\ Unsent(r) = Append(Append(X, t), m)

\* The update of a session: data still queued are dropped, the tick and the new
\* data are appended.
LEMMA UpdateSession ==
    ASSUME NEW sh, NEW v \in Nat, SharedOK(sh, v), NEW new, SharedOK(new, v + 1), NEW s, SessionOK(s),
           s.state # "DISCONNECTED",
           NEW a, a = IF s.isSendingData THEN S!stopSendingData(s, sh) ELSE s,
           NEW t, t = S!onUpdate([a EXCEPT !.writer = S!Replaced(a.writer, S!ReplacedBuf)], new),
           NEW buf \in {"NONE", "FULL", "UPDATE"},
           buf # "NONE" => new[buf] # Cleared /\ a.dataFlags /\ (buf = "UPDATE" => a.dataUpdateFlags),
           NEW r, r = IF buf = "NONE" THEN t ELSE S!sendData(t, buf, new)
    PROVE  UpdatedTo(r, s, Unsent(a), new["TICK"], v + 1)
<1>0. s \in S!ServerSessionType /\ WriterOK(s.state, s.sendQueue, s.writer, s.isSendingData, s.dataFlags)
  BY DEF SessionOK
<1>1. /\ SessionOK(a) /\ a.state = s.state /\ a.reason = s.reason /\ ~a.isSendingData
      /\ Thins(Unsent(a), Unsent(s), TRUE)
      /\ a.dataFlags => s.dataFlags /\ a.dataUpdateFlags = s.dataUpdateFlags
  <2>1. CASE s.isSendingData
    BY <1>0, <2>1, StopSession DEF SessionOK
  <2>2. CASE ~s.isSendingData
    <3>1. Thins(Unsent(s), Unsent(s), TRUE)
      BY <1>0, UnsentType, ThinsSelf
    <3> QED BY <2>2, <3>1
  <2> QED BY <2>1, <2>2
<1>2. Unsent(a) \in Seq(ServerMsg) /\ Unsent(s) \in Seq(ServerMsg)
  BY <1>0, <1>1, UnsentType DEF SessionOK
<1>3. v + 1 \in Nat
  OBVIOUS
<1>4. Ticked(t, a, new["TICK"])
  <2>1. a.state # "DISCONNECTED"
    BY <1>1
  <2> QED BY <1>1, <1>3, <2>1, TickSession
<1>7. /\ SessionOK(r) /\ r.state = s.state /\ r.reason = s.reason /\ ~r.dataFlags
      /\ Unsent(a) \in Seq(ServerMsg) /\ Unsent(s) \in Seq(ServerMsg) /\ Thins(Unsent(a), Unsent(s), TRUE)
      /\ s.state # "CONNECTED" => Unsent(r) = Unsent(a)
      /\ s.state = "CONNECTED" =>
           \/ Unsent(r) = Append(Unsent(a), new["TICK"])
           \/ \E m \in ServerMsg : /\ m.type = "DATA" /\ m.version = v + 1 /\ s.dataFlags
                                   /\ m.isUpdate => s.dataUpdateFlags
                                   /\ Unsent(r) = Append(Append(Unsent(a), new["TICK"]), m)
  <2>5. CASE buf = "NONE" \/ s.state # "CONNECTED"
    <3>1. r = t
      BY <1>1, <1>4, <2>5 DEF S!sendData, Ticked
    <3> QED BY <1>1, <1>2, <1>4, <3>1 DEF Ticked
  <2>6. CASE buf # "NONE" /\ s.state = "CONNECTED"
    <3>1. r = S!sendSharedMessage(t, buf, new)
      BY <1>1, <1>4, <2>6 DEF S!sendData, Ticked
    <3>2. buf \in {"TICK", "FULL", "UPDATE"} /\ new[buf] # Cleared /\ buf # "TICK"
      BY <2>6
    <3>3. Queued(r, t, new[buf])
      <4>1. SessionOK(t)
        BY <1>4 DEF Ticked
      <4> QED BY <1>3, <3>1, <3>2, <4>1, QueueShared
    <3>4. /\ new[buf] \in ServerMsg /\ new[buf].type = "DATA" /\ new[buf].version = v + 1
          /\ new[buf].isUpdate <=> buf = "UPDATE"
      <4>1. PICK e : e = [buf |-> buf, msg |-> new[buf]]
        OBVIOUS
      <4> QED BY <1>3, <3>2, <4>1, SharedEntry
    <3>5. s.dataFlags /\ (new[buf].isUpdate => s.dataUpdateFlags)
      BY <1>1, <2>6, <3>4
    <3>6. Unsent(r) = Append(Append(Unsent(a), new["TICK"]), new[buf])
      BY <1>1, <1>4, <2>6, <3>3 DEF Ticked, Queued
    <3>7. \E m \in ServerMsg : /\ m.type = "DATA" /\ m.version = v + 1 /\ s.dataFlags
                               /\ m.isUpdate => s.dataUpdateFlags
                               /\ Unsent(r) = Append(Append(Unsent(a), new["TICK"]), m)
      BY ONLY <3>4, <3>5, <3>6
    <3> QED BY <1>1, <1>2, <1>4, <2>6, <3>3, <3>7 DEF Ticked, Queued
  <2> QED BY <2>5, <2>6
<1>8. r.dataFlags = FALSE
  BY <1>7, SessionFields DEF SessionOK
<1>9. new["TICK"] \in ServerMsg
  BY DEF SharedOK, S!SharedBuf
<1> QED BY <1>7, <1>8, <1>9 DEF UpdatedTo

-----------------------------------------------------------------------------
(***************************************************************************)
(* The fields of a client the proofs look at, in three groups: how far the *)
(* session is and what it has to say, what it has agreed to, and the data. *)
(***************************************************************************)
SameTalk(r, k) ==
    /\ r.state = k.state /\ r.expectedMsg = k.expectedMsg /\ r.sendQueue = k.sendQueue
    /\ r.writer = k.writer /\ r.reason = k.reason

\* r and k have agreed to the same.
SameFlags(r, k) ==
    /\ r.dataFlags = k.dataFlags /\ r.dataUpdateFlags = k.dataUpdateFlags
    /\ r.currentTimestamp = k.currentTimestamp

\* r and k hold the same data.
SameData(r, k) ==
    /\ r.requestedData = k.requestedData /\ r.remainingData = k.remainingData
    /\ r.isSynchronized = k.isSynchronized /\ r.list = k.list /\ r.tick = k.tick

\* r is k for the proofs.
SameClient(r, k) == r \in C!ClientType /\ SameTalk(r, k) /\ SameFlags(r, k) /\ SameData(r, k)

\* The fields of a client.
LEMMA ClientFields ==
    ASSUME NEW k \in C!ClientType
    PROVE  /\ k.state \in ESessionState /\ k.expectedMsg \in C!EExpectedMsg /\ k.sendQueue \in Seq(ClientMsg)
           /\ k.writer \in C!ClientWriter /\ k.reason \in EDisconnectReason
           /\ k.dataFlags \in BOOLEAN /\ k.dataUpdateFlags \in BOOLEAN /\ k.currentTimestamp \in 0..TimestampMod - 1
           /\ k.requestedData \in BOOLEAN /\ k.requestedDataUpdate \in BOOLEAN /\ k.remainingData \in BOOLEAN
           /\ k.isSynchronized \in BOOLEAN /\ k.list \in Nat \cup {-1} /\ k.tick \in Nat
           /\ k.isPaused \in BOOLEAN /\ k.isDataRequested \in BOOLEAN /\ k.sessionTTL \in Nat
           /\ k.pollOut \in BOOLEAN /\ k.isConnectionEstablished \in BOOLEAN /\ k.protocol \in Nat
           /\ SameClient(k, k)
BY ClientNames DEF C!ClientType, SameClient, SameTalk, SameFlags, SameData, C!Diverged

\* Fields nobody looks at: the poll events, the time to live, and what the user sees.
LEMMA ClientOther ==
    ASSUME NEW k \in C!ClientType, NEW b \in BOOLEAN, NEW n \in Nat
    PROVE  /\ SameClient([k EXCEPT !.pollOut = b], k)
           /\ SameClient([k EXCEPT !.isPaused = b], k)
           /\ SameClient([k EXCEPT !.isDataRequested = b], k)
           /\ SameClient([k EXCEPT !.isConnectionEstablished = b], k)
           /\ SameClient([k EXCEPT !.requestedDataUpdate = b], k)
           /\ SameClient([k EXCEPT !.sessionTTL = n], k)
BY DEF C!ClientType, SameClient, SameTalk, SameFlags, SameData

\* r is k with another queue, writer and expected message.
Talks(r, k, q, w, e) ==
    /\ r \in C!ClientType /\ SameFlags(r, k) /\ SameData(r, k)
    /\ r.state = k.state /\ r.reason = k.reason
    /\ r.sendQueue = q /\ r.writer = w /\ r.expectedMsg = e

\* Changing the queue, the writer or what is expected changes nothing else of a
\* client.
LEMMA ClientTalk ==
    ASSUME NEW k \in C!ClientType, NEW q \in Seq(ClientMsg), NEW w \in C!ClientWriter, NEW b \in BOOLEAN,
           NEW e \in C!EExpectedMsg
    PROVE  /\ Talks([k EXCEPT !.sendQueue = q, !.pollOut = b], k, q, k.writer, k.expectedMsg)
           /\ Talks([k EXCEPT !.expectedMsg = e], k, k.sendQueue, k.writer, e)
           /\ Talks([k EXCEPT !.writer = w, !.sendQueue = q], k, q, w, k.expectedMsg)
<1>1. Talks([k EXCEPT !.sendQueue = q, !.pollOut = b], k, q, k.writer, k.expectedMsg)
  BY ClientNames DEF C!ClientType, SameFlags, SameData, Talks
<1>2. Talks([k EXCEPT !.expectedMsg = e], k, k.sendQueue, k.writer, e)
  BY ClientNames DEF C!ClientType, SameFlags, SameData, Talks
<1>3. Talks([k EXCEPT !.writer = w, !.sendQueue = q], k, q, w, k.expectedMsg)
  BY ClientNames DEF C!ClientType, SameFlags, SameData, Talks
<1> QED BY <1>1, <1>2, <1>3

\* sendMessage of the client appends to its queue.
LEMMA ClientSend ==
    ASSUME NEW k \in C!ClientType, NEW m \in ClientMsg, NEW r, r = C!sendMessage(k, m)
    PROVE  Talks(r, k, Append(k.sendQueue, m), k.writer, k.expectedMsg)
<1>1. PICK q, b : q = Append(k.sendQueue, m) /\ b = (k.pollOut \/ k.sendQueue = <<>>)
  OBVIOUS
<1>2. q \in Seq(ClientMsg) /\ b \in BOOLEAN /\ k.writer \in C!ClientWriter /\ k.expectedMsg \in C!EExpectedMsg
  BY <1>1, ClientFields
<1>3. r = [k EXCEPT !.sendQueue = q, !.pollOut = b]
  BY <1>1, Zenon DEF C!sendMessage
<1> QED BY <1>1, <1>2, <1>3, ClientTalk

\* r is k, except that it may have asked for data.
Asks(r, k) ==
    /\ r \in C!ClientType /\ SameFlags(r, k) /\ SameData(r, k)
    /\ r.state = k.state /\ r.reason = k.reason /\ r.writer = k.writer
    /\ \/ r.expectedMsg = k.expectedMsg /\ r.sendQueue = k.sendQueue
       \/ /\ k.state = "CONNECTED" /\ k.expectedMsg = "NONE" /\ r.expectedMsg = "SERVER_DATA_STATUS"
          /\ \E m \in ClientMsg : /\ m.type = "REQUEST_DATA" /\ m.dataFlags = k.requestedData
                                  /\ r.sendQueue = Append(k.sendQueue, m)

\* A client that does not change asks for nothing.
LEMMA AsksNothing ==
    ASSUME NEW k, NEW r, SameClient(r, k)
    PROVE  Asks(r, k)
BY DEF SameClient, SameTalk, Asks

\* Asking only depends on what the proofs look at.
LEMMA AsksSame ==
    ASSUME NEW k, NEW j, SameClient(j, k), NEW r, Asks(r, j)
    PROVE  Asks(r, k)
BY DEF SameClient, SameTalk, SameFlags, SameData, Asks

\* What follows asking may change what the proofs do not look at.
LEMMA AsksThen ==
    ASSUME NEW k, NEW j, Asks(j, k), NEW r, SameClient(r, j)
    PROVE  Asks(r, k)
BY DEF SameClient, SameTalk, SameFlags, SameData, Asks

\* RequestData sends a request when none is open and the data are wanted.
LEMMA ClientRequest ==
    ASSUME NEW k \in C!ClientType, NEW r, r = C!RequestData(k)
    PROVE  Asks(r, k)
<1>1. PICK d, u, j : d = k.requestedData /\ u = k.requestedDataUpdate /\ j = C!requestData(k, d, u)
  OBVIOUS
<1>2. d \in BOOLEAN /\ u \in BOOLEAN
  BY <1>1, ClientFields
<1>3. r = [j EXCEPT !.isDataRequested = TRUE]
  BY <1>1, Zenon DEF C!RequestData
<1>4. Asks(j, k)
  <2>1. CASE k.state = "CONNECTED" /\ k.expectedMsg = "NONE"
    <3>1. PICK a : a = [k EXCEPT !.expectedMsg = "SERVER_DATA_STATUS"]
      OBVIOUS
    <3>2. PICK m : m = C!ClientMsgRequestData(d, u)
      OBVIOUS
    <3>3. m \in ClientMsg /\ m.type = "REQUEST_DATA" /\ m.dataFlags = d
      BY <1>2, <3>2 DEF C!ClientMsgRequestData, ClientMsg
    <3>4. Talks(a, k, k.sendQueue, k.writer, "SERVER_DATA_STATUS")
      <4>1. "SERVER_DATA_STATUS" \in C!EExpectedMsg
        BY DEF C!EExpectedMsg
      <4>2. k.sendQueue \in Seq(ClientMsg) /\ k.writer \in C!ClientWriter
        BY ClientFields
      <4> QED BY <3>1, <4>1, <4>2, ClientTalk
    <3>5. j = C!sendMessage(a, m)
      BY <1>1, <2>1, <3>1, <3>2, Zenon DEF C!requestData
    <3>6. Talks(j, a, Append(a.sendQueue, m), a.writer, a.expectedMsg)
      BY <3>3, <3>4, <3>5, ClientSend DEF Talks
    <3>7. SameFlags(j, k) /\ SameData(j, k)
      BY <3>4, <3>6 DEF SameFlags, SameData, Talks
    <3> QED BY <1>1, <2>1, <3>3, <3>4, <3>6, <3>7 DEF Asks, Talks
  <2>2. CASE ~(k.state = "CONNECTED" /\ k.expectedMsg = "NONE")
    <3>1. j = k
      BY <1>1, <2>2, Zenon DEF C!requestData
    <3> QED BY <3>1, ClientFields, AsksNothing
  <2> QED BY <2>1, <2>2
<1>5. SameClient(r, j)
  <2>1. j \in C!ClientType
    BY <1>4 DEF Asks
  <2> QED BY <1>3, <2>1, ClientOther
<1> QED BY <1>4, <1>5, AsksThen

\* setPaused does not do more than ask for data.
LEMMA ClientPause ==
    ASSUME NEW k \in C!ClientType, NEW b \in BOOLEAN, NEW r, r = C!setPaused(k, b)
    PROVE  Asks(r, k)
<1>1. PICK j : j = [k EXCEPT !.isPaused = b]
  OBVIOUS
<1>2. SameClient(j, k) /\ j \in C!ClientType
  BY <1>1, ClientOther DEF SameClient
<1>3. r = j \/ r = C!RequestData(j)
  BY <1>1, Zenon DEF C!setPaused
<1>4. Asks(C!RequestData(j), k)
  BY <1>2, ClientRequest, AsksSame
<1> QED BY <1>2, <1>3, <1>4, AsksNothing

\* r is k after the end of its session.
Closed(r, k, reason) ==
    /\ r \in C!ClientType /\ SameFlags(r, k)
    /\ r.state = "DISCONNECTED" /\ r.sendQueue = <<>> /\ r.writer = k.writer /\ r.reason = reason
    /\ r.expectedMsg = k.expectedMsg
    /\ r.requestedData = k.requestedData /\ r.remainingData = k.remainingData
    /\ r.list = k.list /\ r.tick = k.tick
    /\ r.isSynchronized = k.isSynchronized \/ r.isSynchronized = FALSE

\* quickDisconnect of the client drops its queue.
LEMMA ClientClose ==
    ASSUME NEW k \in C!ClientType, NEW reason \in EDisconnectReason, NEW r, r = C!quickDisconnect(k, reason)
    PROVE  Closed(r, k, reason)
<1>1. PICK j : j = C!CloseSession(k, reason)
  OBVIOUS
<1>2. Closed(j, k, reason) /\ j.isSynchronized = k.isSynchronized
  <2>1. ASSUME NEW a \in ESessionState, NEW b \in BOOLEAN, NEW q \in Seq(ClientMsg), a = "DISCONNECTED", q = <<>>
        PROVE  Closed([k EXCEPT !.state = a, !.isConnectionEstablished = b, !.sendQueue = q, !.pollOut = b,
                                !.reason = reason], k, reason)
    <3>1. PICK x : x = [k EXCEPT !.state = a, !.isConnectionEstablished = b, !.sendQueue = q, !.pollOut = b,
                                 !.reason = reason]
      OBVIOUS
    <3>2. x \in C!ClientType
      BY <2>1, <3>1, ClientNames DEF C!ClientType
    <3>3. /\ x.state = a /\ x.sendQueue = q /\ x.writer = k.writer /\ x.reason = reason /\ x.expectedMsg = k.expectedMsg
          /\ x.requestedData = k.requestedData /\ x.remainingData = k.remainingData /\ x.list = k.list /\ x.tick = k.tick
          /\ x.isSynchronized = k.isSynchronized
      BY <2>1, <3>1 DEF C!ClientType
    <3>4. SameFlags(x, k)
      BY <2>1, <3>1 DEF C!ClientType, SameFlags
    <3> QED BY <2>1, <3>1, <3>2, <3>3, <3>4 DEF Closed
  <2>2. PICK a \in ESessionState : a = "DISCONNECTED"
    BY DEF ESessionState
  <2>7. <<>> \in Seq(ClientMsg)
    OBVIOUS
  <2>3. PICK q \in Seq(ClientMsg) : q = <<>>
    BY <2>7, Zenon
  <2>6. PICK b \in BOOLEAN : b = FALSE
    OBVIOUS
  <2>4. j = [k EXCEPT !.state = a, !.isConnectionEstablished = b, !.sendQueue = q, !.pollOut = b, !.reason = reason]
    BY <1>1, <2>2, <2>3, <2>6, Zenon DEF C!CloseSession
  <2>5. j.isSynchronized = k.isSynchronized
    BY <2>4 DEF C!ClientType
  <2> QED BY <2>1, <2>2, <2>3, <2>4, <2>5
<1>3. PICK x : x = [j EXCEPT !.isSynchronized = FALSE, !.isDataRequested = FALSE]
  OBVIOUS
<1>4. Closed(x, k, reason)
  <2>1. j \in C!ClientType
    BY <1>2 DEF Closed
  <2>2. /\ x \in C!ClientType /\ SameFlags(x, j) /\ SameTalk(x, j)
        /\ x.requestedData = j.requestedData /\ x.remainingData = j.remainingData
        /\ x.list = j.list /\ x.tick = j.tick /\ x.isSynchronized = FALSE
    BY <1>3, <2>1 DEF C!ClientType, SameFlags, SameTalk
  <2> QED BY <1>2, <2>2 DEF Closed, SameFlags, SameTalk
<1>5. r = j \/ r = x
  BY <1>1, <1>3, Zenon DEF C!quickDisconnect, C!onSessionDisconnect
<1> QED BY <1>2, <1>4, <1>5

-----------------------------------------------------------------------------
(***************************************************************************)
(* What a message from the server does to a client.                        *)
(***************************************************************************)

\* x is k with other data.
Holds(x, k, rd, rem, sync, list, tick) ==
    /\ x \in C!ClientType /\ SameTalk(x, k) /\ SameFlags(x, k)
    /\ x.requestedData = rd /\ x.remainingData = rem /\ x.isSynchronized = sync
    /\ x.list = list /\ x.tick = tick

\* Changing the state of the data changes nothing else of a client.
LEMMA ClientData ==
    ASSUME NEW k \in C!ClientType, NEW a \in BOOLEAN, NEW b \in BOOLEAN, NEW c \in BOOLEAN, NEW l \in Nat \cup {-1}
    PROVE  /\ Holds([k EXCEPT !.remainingData = a, !.requestedDataUpdate = b, !.isSynchronized = c], k,
                    k.requestedData, a, c, k.list, k.tick)
           /\ Holds([k EXCEPT !.isSynchronized = a], k, k.requestedData, k.remainingData, a, k.list, k.tick)
           /\ Holds([k EXCEPT !.remainingData = a], k, k.requestedData, a, k.isSynchronized, k.list, k.tick)
           /\ Holds([k EXCEPT !.requestedData = a, !.requestedDataUpdate = b], k,
                    a, k.remainingData, k.isSynchronized, k.list, k.tick)
           /\ Holds([k EXCEPT !.requestedDataUpdate = a], k,
                    k.requestedData, k.remainingData, k.isSynchronized, k.list, k.tick)
           /\ Holds([k EXCEPT !.isSynchronized = a, !.requestedDataUpdate = b], k,
                    k.requestedData, k.remainingData, a, k.list, k.tick)
           /\ Holds([k EXCEPT !.list = l, !.remainingData = a], k,
                    k.requestedData, a, k.isSynchronized, l, k.tick)
           /\ Holds([k EXCEPT !.requestedData = a, !.requestedDataUpdate = b, !.remainingData = c], k,
                    a, c, k.isSynchronized, k.list, k.tick)
<1>1. Holds([k EXCEPT !.remainingData = a, !.requestedDataUpdate = b, !.isSynchronized = c], k,
          k.requestedData, a, c, k.list, k.tick)
  BY DEF C!ClientType, SameTalk, SameFlags, Holds, C!Diverged
<1>2. Holds([k EXCEPT !.isSynchronized = a], k, k.requestedData, k.remainingData, a, k.list, k.tick)
  BY DEF C!ClientType, SameTalk, SameFlags, Holds, C!Diverged
<1>3. Holds([k EXCEPT !.remainingData = a], k, k.requestedData, a, k.isSynchronized, k.list, k.tick)
  BY DEF C!ClientType, SameTalk, SameFlags, Holds, C!Diverged
<1>4. Holds([k EXCEPT !.requestedData = a, !.requestedDataUpdate = b], k,
          a, k.remainingData, k.isSynchronized, k.list, k.tick)
  BY DEF C!ClientType, SameTalk, SameFlags, Holds, C!Diverged
<1>5. Holds([k EXCEPT !.requestedDataUpdate = a], k,
          k.requestedData, k.remainingData, k.isSynchronized, k.list, k.tick)
  BY DEF C!ClientType, SameTalk, SameFlags, Holds, C!Diverged
<1>6. Holds([k EXCEPT !.isSynchronized = a, !.requestedDataUpdate = b], k,
          k.requestedData, k.remainingData, a, k.list, k.tick)
  BY DEF C!ClientType, SameTalk, SameFlags, Holds, C!Diverged
<1>7. Holds([k EXCEPT !.list = l, !.remainingData = a], k, k.requestedData, a, k.isSynchronized, l, k.tick)
  BY DEF C!ClientType, SameTalk, SameFlags, Holds, C!Diverged
<1>8. Holds([k EXCEPT !.requestedData = a, !.requestedDataUpdate = b, !.remainingData = c], k,
          a, c, k.isSynchronized, k.list, k.tick)
  BY DEF C!ClientType, SameTalk, SameFlags, Holds, C!Diverged
<1> QED BY <1>1, <1>2, <1>3, <1>4, <1>5, <1>6, <1>7, <1>8

\* r is k after a tick.
TickTaken(r, k, t, n) ==
    \E x : /\ Asks(r, x) /\ x \in C!ClientType /\ SameTalk(x, k)
           /\ x.dataFlags = k.dataFlags /\ x.dataUpdateFlags = k.dataUpdateFlags /\ x.currentTimestamp = t
           /\ x.requestedData = k.requestedData /\ x.list = k.list /\ x.tick = n
           /\ \/ x.remainingData = FALSE /\ x.isSynchronized = FALSE
              \/ /\ k.remainingData = FALSE /\ x.remainingData = k.requestedData
                 /\ x.isSynchronized = k.isSynchronized

\* What a tick does to a client.
LEMMA ClientTick ==
    ASSUME NEW k \in C!ClientType, NEW t \in 0..TimestampMod - 1, NEW n \in Nat,
           NEW r, r = C!onSessionServerTick([k EXCEPT !.currentTimestamp = t, !.sessionTTL = @ + 1, !.tick = n])
    PROVE  TickTaken(r, k, t, n)
<1>1. PICK j : j = [k EXCEPT !.currentTimestamp = t, !.sessionTTL = k.sessionTTL + 1, !.tick = n]
  OBVIOUS
<1>2. /\ j \in C!ClientType /\ SameTalk(j, k)
      /\ j.dataFlags = k.dataFlags /\ j.dataUpdateFlags = k.dataUpdateFlags /\ j.currentTimestamp = t
      /\ j.requestedData = k.requestedData /\ j.remainingData = k.remainingData
      /\ j.isSynchronized = k.isSynchronized /\ j.list = k.list /\ j.tick = n
  <2>1. ASSUME NEW l \in Nat, NEW x, x = [k EXCEPT !.currentTimestamp = t, !.sessionTTL = l, !.tick = n]
        PROVE  /\ x \in C!ClientType /\ SameTalk(x, k)
               /\ x.dataFlags = k.dataFlags /\ x.dataUpdateFlags = k.dataUpdateFlags /\ x.currentTimestamp = t
               /\ x.requestedData = k.requestedData /\ x.remainingData = k.remainingData
               /\ x.isSynchronized = k.isSynchronized /\ x.list = k.list /\ x.tick = n
    BY <2>1 DEF C!ClientType, SameTalk
  <2>2. PICK l : l = k.sessionTTL + 1
    OBVIOUS
  <2>3. l \in Nat
    BY <2>2, ClientFields
  <2>4. j = [k EXCEPT !.currentTimestamp = t, !.sessionTTL = l, !.tick = n]
    BY <1>1, <2>2, Zenon
  <2> QED BY <2>1, <2>3, <2>4
<1>3. j.remainingData \in BOOLEAN /\ j.requestedData \in BOOLEAN
  BY <1>2, ClientFields
<1>4. PICK lost, late, due :
        /\ lost = [j EXCEPT !.remainingData = FALSE, !.requestedDataUpdate = FALSE, !.isSynchronized = FALSE]
        /\ late = [j EXCEPT !.isSynchronized = FALSE]
        /\ due = [j EXCEPT !.remainingData = j.requestedData]
  OBVIOUS
<1>5. /\ Holds(lost, j, j.requestedData, FALSE, FALSE, j.list, j.tick)
      /\ Holds(late, j, j.requestedData, j.remainingData, FALSE, j.list, j.tick)
      /\ Holds(due, j, j.requestedData, j.requestedData, j.isSynchronized, j.list, j.tick)
  <2>1. FALSE \in BOOLEAN /\ 0 \in Nat \cup {-1}
    OBVIOUS
  <2>2. Holds(lost, j, j.requestedData, FALSE, FALSE, j.list, j.tick)
    BY <1>2, <1>4, <2>1, ClientData
  <2>3. Holds(late, j, j.requestedData, j.remainingData, FALSE, j.list, j.tick)
    BY <1>2, <1>4, <2>1, ClientData
  <2>4. Holds(due, j, j.requestedData, j.requestedData, j.isSynchronized, j.list, j.tick)
    BY <1>2, <1>3, <1>4, <2>1, ClientData
  <2> QED BY <2>2, <2>3, <2>4
<1>6. PICK next : /\ r = [next EXCEPT !.isDataRequested = FALSE]
                  /\ \/ next = lost \/ next = C!RequestData(lost)
                     \/ j.remainingData = FALSE /\ next = late
                     \/ j.remainingData = FALSE /\ next = due
  <2>1. r = C!onSessionServerTick(j)
    BY <1>1, Zenon
  <2>2. CASE j.remainingData
    <3>1. r = [(IF j.isPaused THEN lost ELSE C!RequestData(lost)) EXCEPT !.isDataRequested = FALSE]
      BY <1>4, <2>1, <2>2, Zenon DEF C!onSessionServerTick
    <3> QED BY <3>1, Zenon
  <2>3. CASE j.remainingData = FALSE
    <3>1. CASE C!isDataRequestInProgress(j) \/ j.isPaused
      <4>1. r = [late EXCEPT !.isDataRequested = FALSE]
        BY <1>4, <2>1, <2>3, <3>1, Zenon DEF C!onSessionServerTick
      <4> QED BY <2>3, <4>1, Zenon
    <3>2. CASE ~(C!isDataRequestInProgress(j) \/ j.isPaused)
      <4>1. r = [due EXCEPT !.isDataRequested = FALSE]
        BY <1>4, <2>1, <2>3, <3>2, Zenon DEF C!onSessionServerTick
      <4> QED BY <2>3, <4>1, Zenon
    <3> QED BY <3>1, <3>2
  <2> QED BY <1>3, <2>2, <2>3
<1>7. PICK x \in {lost, late, due} : Asks(next, x) /\ (x # lost => j.remainingData = FALSE)
  <2>1. lost \in C!ClientType /\ late \in C!ClientType /\ due \in C!ClientType
    BY <1>5 DEF Holds
  <2>2. Asks(lost, lost) /\ Asks(C!RequestData(lost), lost) /\ Asks(late, late) /\ Asks(due, due)
    BY <2>1, ClientFields, ClientRequest, AsksNothing
  <2> QED BY <1>6, <2>2
<1>8. Asks(r, x)
  <2>1. next \in C!ClientType
    BY <1>7 DEF Asks
  <2>2. SameClient(r, next)
    BY <1>6, <2>1, ClientOther
  <2> QED BY <1>7, <2>2, AsksThen
<1>9. /\ x \in C!ClientType /\ SameTalk(x, j) /\ SameFlags(x, j)
      /\ x.requestedData = j.requestedData /\ x.list = j.list /\ x.tick = j.tick
  BY <1>5, <1>7 DEF Holds
<1>10. \/ x.remainingData = FALSE /\ x.isSynchronized = FALSE
       \/ /\ j.remainingData = FALSE /\ x.remainingData = j.requestedData
          /\ x.isSynchronized = j.isSynchronized
  BY <1>5, <1>7 DEF Holds
<1>11. SameTalk(x, k) /\ x.dataFlags = k.dataFlags /\ x.dataUpdateFlags = k.dataUpdateFlags /\ x.currentTimestamp = t
  BY <1>2, <1>9 DEF SameTalk, SameFlags
<1> QED BY <1>2, <1>8, <1>9, <1>10, <1>11 DEF TickTaken

\* r is k after DATA_STATUS.
StatusTaken(r, k, d, u) ==
    \E x : /\ Asks(r, x) /\ x \in C!ClientType
           /\ x.state = k.state /\ x.expectedMsg = "NONE" /\ x.sendQueue = k.sendQueue /\ x.writer = k.writer
           /\ x.reason = k.reason
           /\ x.dataFlags = d /\ x.dataUpdateFlags = u /\ x.currentTimestamp = k.currentTimestamp
           /\ k.requestedData /\ d => x.requestedData
           /\ x.remainingData = k.remainingData /\ x.isSynchronized = k.isSynchronized
           /\ x.list = k.list /\ x.tick = k.tick

\* What the answer to a request does to a client.
LEMMA ClientStatus ==
    ASSUME NEW k \in C!ClientType, NEW d \in BOOLEAN, NEW u \in BOOLEAN,
           NEW r, r = C!onSessionDataStatus([k EXCEPT !.dataFlags = d, !.dataUpdateFlags = u,
                                                      !.expectedMsg = "NONE", !.sessionTTL = 3])
    PROVE  StatusTaken(r, k, d, u)
<1>1. PICK j : j = [k EXCEPT !.dataFlags = d, !.dataUpdateFlags = u, !.expectedMsg = "NONE", !.sessionTTL = 3]
  OBVIOUS
<1>2. /\ j \in C!ClientType /\ SameData(j, k)
      /\ j.state = k.state /\ j.expectedMsg = "NONE" /\ j.sendQueue = k.sendQueue /\ j.writer = k.writer
      /\ j.reason = k.reason
      /\ j.dataFlags = d /\ j.dataUpdateFlags = u /\ j.currentTimestamp = k.currentTimestamp
  <2>2. PICK e \in C!EExpectedMsg : e = "NONE"
    BY DEF C!EExpectedMsg
  <2>3. PICK n \in Nat : n = 3
    OBVIOUS
  <2>4. j = [k EXCEPT !.dataFlags = d, !.dataUpdateFlags = u, !.expectedMsg = e, !.sessionTTL = n]
    BY <1>1, <2>2, <2>3, Zenon
  <2>5. /\ j \in C!ClientType /\ SameData(j, k)
        /\ j.state = k.state /\ j.expectedMsg = e /\ j.sendQueue = k.sendQueue /\ j.writer = k.writer
        /\ j.reason = k.reason
        /\ j.dataFlags = d /\ j.dataUpdateFlags = u /\ j.currentTimestamp = k.currentTimestamp
    BY <2>4 DEF C!ClientType, SameData
  <2> QED BY <2>2, <2>5
<1>3. PICK a, b, y, z : /\ a = (j.requestedData /\ j.dataFlags) /\ b = (j.requestedDataUpdate /\ j.dataUpdateFlags)
                        /\ y = [j EXCEPT !.requestedData = a, !.requestedDataUpdate = b]
                        /\ z = [y EXCEPT !.requestedDataUpdate = FALSE]
  OBVIOUS
<1>4. a \in BOOLEAN /\ b \in BOOLEAN /\ (k.requestedData /\ d => a)
  <2>1. j.requestedData \in BOOLEAN /\ j.dataFlags \in BOOLEAN /\ j.requestedDataUpdate \in BOOLEAN /\ j.dataUpdateFlags \in BOOLEAN
    BY <1>2, ClientFields
  <2>2. a \in BOOLEAN /\ b \in BOOLEAN
    BY <1>3, <2>1, Zenon
  <2>3. j.requestedData = k.requestedData /\ j.dataFlags = d
    BY <1>2 DEF SameData
  <2> QED BY <1>3, <2>2, <2>3, Zenon
<1>5. Holds(y, j, a, j.remainingData, j.isSynchronized, j.list, j.tick)
  BY <1>2, <1>3, <1>4, ClientData
<1>6. y \in C!ClientType
  BY <1>5 DEF Holds
<1>7. SameClient(z, y)
  BY <1>3, <1>6, ClientOther
<1>8. r = y \/ r = C!RequestData(z)
  <2>1. r = C!onSessionDataStatus(j)
    BY <1>1, Zenon
  <2> QED BY <1>3, <2>1, Zenon DEF C!onSessionDataStatus
<1>9. Asks(r, y)
  <2>1. Asks(y, y)
    BY <1>6, ClientFields, AsksNothing
  <2>2. z \in C!ClientType
    BY <1>7 DEF SameClient
  <2>3. Asks(C!RequestData(z), y)
    BY <1>7, <2>2, ClientRequest, AsksSame
  <2> QED BY <1>8, <2>1, <2>3
<1>10. /\ y.state = k.state /\ y.expectedMsg = "NONE" /\ y.sendQueue = k.sendQueue /\ y.writer = k.writer
       /\ y.reason = k.reason
       /\ y.dataFlags = d /\ y.dataUpdateFlags = u /\ y.currentTimestamp = k.currentTimestamp
  BY <1>2, <1>5 DEF Holds, SameTalk, SameFlags
<1>11. /\ y.requestedData = a /\ y.remainingData = k.remainingData /\ y.isSynchronized = k.isSynchronized
       /\ y.list = k.list /\ y.tick = k.tick
  BY <1>2, <1>5 DEF Holds, SameData
<1>12. k.requestedData /\ d => y.requestedData
  BY <1>4, <1>11, Zenon
<1> QED BY <1>6, <1>9, <1>10, <1>11, <1>12 DEF StatusTaken

\* r is k after DATA.
DataTaken(r, k, m) ==
    \E x : /\ Asks(r, x) /\ x \in C!ClientType /\ SameTalk(x, k) /\ SameFlags(x, k)
           /\ x.requestedData = k.requestedData /\ x.remainingData = FALSE
           /\ x.list = C!Applied(k.list, m) /\ x.tick = k.tick
           /\ k.remainingData /\ (m.isUpdate => k.isSynchronized)

\* Data applied to a list yield a version, or -1 when they do not fit.
LEMMA AppliedType ==
    ASSUME NEW list, NEW m \in ServerMsg, m.type = "DATA"
    PROVE  C!Applied(list, m) \in Nat \cup {-1}
<1>1. m.version \in Nat
  BY DEF ServerMsg, Cleared, Garbled, ServerMsgBanner, ServerMsgHello
<1> QED BY <1>1 DEF C!Applied, C!Diverged

\* What data do to a client.
LEMMA ClientTakesData ==
    ASSUME NEW k \in C!ClientType, NEW m \in ServerMsg, m.type = "DATA", NEW r, r = C!onSessionData(k, m)
    PROVE  r = k \/ DataTaken(r, k, m)
<1>1. PICK l, y, z : /\ l = C!Applied(k.list, m) /\ y = [k EXCEPT !.list = l, !.remainingData = FALSE]
                     /\ z = [y EXCEPT !.isSynchronized = TRUE, !.requestedDataUpdate = k.requestedData]
  OBVIOUS
<1>2. Holds(y, k, k.requestedData, FALSE, k.isSynchronized, l, k.tick)
  <2>1. l \in Nat \cup {-1}
    BY <1>1, AppliedType
  <2> QED BY <1>1, <2>1, ClientData
<1>3. y \in C!ClientType /\ k.requestedData \in BOOLEAN
  BY <1>2, ClientFields DEF Holds
<1>4. Holds(z, y, y.requestedData, y.remainingData, TRUE, y.list, y.tick)
  BY <1>1, <1>3, ClientData
<1>5. CASE (m.isUpdate /\ ~k.isSynchronized) \/ ~k.remainingData \/ k.isPaused
  <2>1. r = k
    BY <1>5, Zenon DEF C!onSessionData
  <2> QED BY <2>1
<1>6. CASE ~((m.isUpdate /\ ~k.isSynchronized) \/ ~k.remainingData \/ k.isPaused)
  <2>1. PICK x : x \in {y, z} /\ r = C!RequestData(x)
    <3>1. r = C!RequestData(IF k.isSynchronized THEN y ELSE z)
      BY <1>1, <1>6, Zenon DEF C!onSessionData
    <3> QED BY <3>1
  <2>2. /\ y \in C!ClientType /\ SameTalk(y, k) /\ SameFlags(y, k)
        /\ y.requestedData = k.requestedData /\ y.remainingData = FALSE /\ y.list = l /\ y.tick = k.tick
    BY <1>2 DEF Holds
  <2>3. /\ z \in C!ClientType /\ SameTalk(z, k) /\ SameFlags(z, k)
        /\ z.requestedData = k.requestedData /\ z.remainingData = FALSE /\ z.list = l /\ z.tick = k.tick
    BY <1>4, <2>2 DEF Holds, SameTalk, SameFlags
  <2>4. Asks(r, x)
    BY <2>1, <2>2, <2>3, ClientRequest
  <2>5. k.remainingData /\ (m.isUpdate => k.isSynchronized)
    BY <1>6
  <2> QED BY <1>1, <2>1, <2>2, <2>3, <2>4, <2>5 DEF DataTaken
<1> QED BY <1>5, <1>6

\* r is k after HELLO.
HelloTaken(r, k) ==
    \E x : /\ Asks(r, x) /\ x \in C!ClientType
           /\ x.state = "CONNECTED" /\ x.expectedMsg = "NONE" /\ x.sendQueue = k.sendQueue /\ x.writer = k.writer
           /\ x.reason = k.reason
           /\ x.dataFlags = FALSE /\ x.dataUpdateFlags = FALSE /\ x.currentTimestamp = 0
           /\ x.requestedData = TRUE /\ x.remainingData = FALSE /\ x.isSynchronized = FALSE
           /\ x.tick = k.tick

\* What the HELLO of the server does to a client.
LEMMA ClientHello ==
    ASSUME NEW k \in C!ClientType,
           NEW r, r = C!onSessionEstablished(
                        [k EXCEPT !.expectedMsg = "NONE", !.state = "CONNECTED", !.sessionTTL = 3,
                                  !.currentTimestamp = 0, !.dataFlags = FALSE, !.dataUpdateFlags = FALSE])
    PROVE  HelloTaken(r, k)
<1>1. PICK j : j = [k EXCEPT !.expectedMsg = "NONE", !.state = "CONNECTED", !.sessionTTL = 3,
                             !.currentTimestamp = 0, !.dataFlags = FALSE, !.dataUpdateFlags = FALSE]
  OBVIOUS
<1>2. /\ j \in C!ClientType
      /\ j.state = "CONNECTED" /\ j.expectedMsg = "NONE" /\ j.sendQueue = k.sendQueue /\ j.writer = k.writer
      /\ j.reason = k.reason /\ j.tick = k.tick
      /\ j.dataFlags = FALSE /\ j.dataUpdateFlags = FALSE /\ j.currentTimestamp = 0
  <2>2. PICK e \in C!EExpectedMsg : e = "NONE"
    BY DEF C!EExpectedMsg
  <2>3. PICK n \in Nat : n = 3
    OBVIOUS
  <2>4. PICK t \in 0..TimestampMod - 1 : t = 0
    BY TimestampModAssumption
  <2>5. PICK st \in ESessionState : st = "CONNECTED"
    BY DEF ESessionState
  <2>6. PICK b \in BOOLEAN : b = FALSE
    OBVIOUS
  <2>7. j = [k EXCEPT !.expectedMsg = e, !.state = st, !.sessionTTL = n,
                      !.currentTimestamp = t, !.dataFlags = b, !.dataUpdateFlags = b]
    BY <1>1, <2>2, <2>3, <2>4, <2>5, <2>6, Zenon
  <2>8. /\ j \in C!ClientType
        /\ j.state = st /\ j.expectedMsg = e /\ j.sendQueue = k.sendQueue /\ j.writer = k.writer
        /\ j.reason = k.reason /\ j.tick = k.tick
        /\ j.dataFlags = b /\ j.dataUpdateFlags = b /\ j.currentTimestamp = t
    BY <2>7, ClientNames DEF C!ClientType
  <2> QED BY <2>2, <2>4, <2>5, <2>6, <2>8
<1>3. PICK y, z : /\ y = [j EXCEPT !.requestedData = TRUE, !.requestedDataUpdate = FALSE, !.remainingData = FALSE]
                  /\ z = C!RequestData(y)
  OBVIOUS
<1>4. Holds(y, j, TRUE, FALSE, j.isSynchronized, j.list, j.tick)
  <2>1. TRUE \in BOOLEAN /\ FALSE \in BOOLEAN /\ 0 \in Nat \cup {-1}
    OBVIOUS
  <2> QED BY <1>2, <1>3, <2>1, ClientData
<1>5. y \in C!ClientType
  BY <1>4 DEF Holds
<1>6. Asks(z, y)
  BY <1>3, <1>5, ClientRequest
<1>7. r = [z EXCEPT !.isSynchronized = FALSE]
  BY <1>1, <1>3, Zenon DEF C!onSessionEstablished
<1>8. PICK x : x = [y EXCEPT !.isSynchronized = FALSE]
  OBVIOUS
<1>9. Holds(x, y, y.requestedData, y.remainingData, FALSE, y.list, y.tick)
  <2>1. TRUE \in BOOLEAN /\ FALSE \in BOOLEAN /\ 0 \in Nat \cup {-1}
    OBVIOUS
  <2> QED BY <1>5, <1>8, <2>1, ClientData
<1>10. Holds(r, z, z.requestedData, z.remainingData, FALSE, z.list, z.tick)
  <2>1. z \in C!ClientType
    BY <1>6 DEF Asks
  <2>2. TRUE \in BOOLEAN /\ FALSE \in BOOLEAN /\ 0 \in Nat \cup {-1}
    OBVIOUS
  <2> QED BY <1>7, <2>1, <2>2, ClientData
<1>11. Asks(r, x)
  BY <1>6, <1>9, <1>10 DEF Holds, Asks, SameTalk, SameFlags, SameData
<1>12. /\ x \in C!ClientType
       /\ x.state = "CONNECTED" /\ x.expectedMsg = "NONE" /\ x.sendQueue = k.sendQueue /\ x.writer = k.writer
       /\ x.reason = k.reason
       /\ x.dataFlags = FALSE /\ x.dataUpdateFlags = FALSE /\ x.currentTimestamp = 0
       /\ x.requestedData = TRUE /\ x.remainingData = FALSE /\ x.isSynchronized = FALSE
       /\ x.tick = k.tick
  BY <1>2, <1>4, <1>9 DEF Holds, SameTalk, SameFlags
<1> QED BY <1>11, <1>12 DEF HelloTaken

\* r is k after BANNER.
LEMMA ClientBanner ==
    ASSUME NEW k \in C!ClientType,
           NEW r, r = C!sendMessage([k EXCEPT !.expectedMsg = "SERVER_HELLO"], C!ClientMsgHello)
    PROVE  Talks(r, k, Append(k.sendQueue, ClientMsgHello), k.writer, "SERVER_HELLO")
<1>1. PICK j : j = [k EXCEPT !.expectedMsg = "SERVER_HELLO"]
  OBVIOUS
<1>2. Talks(j, k, k.sendQueue, k.writer, "SERVER_HELLO")
  <2>1. "SERVER_HELLO" \in C!EExpectedMsg /\ k.sendQueue \in Seq(ClientMsg) /\ k.writer \in C!ClientWriter /\ TRUE \in BOOLEAN
    BY ClientFields DEF C!EExpectedMsg
  <2> QED BY <1>1, <2>1, ClientTalk
<1>3. r = C!sendMessage(j, ClientMsgHello) /\ ClientMsgHello \in ClientMsg
  BY <1>1, ClientNames, Vocabulary, Zenon
<1>4. j \in C!ClientType
  BY <1>2 DEF Talks
<1>5. Talks(r, j, Append(j.sendQueue, ClientMsgHello), j.writer, j.expectedMsg)
  BY <1>3, <1>4, ClientSend
<1> QED BY <1>2, <1>5 DEF Talks, SameFlags, SameData

\* Re-arming the poll mask and the end of connect() change nothing the proofs
\* look at.
LEMMA ClientPoll ==
    ASSUME NEW k \in C!ClientType
    PROVE  SameClient(C!Rearm(k), k) /\ SameClient(C!verifyConnect(k), k)
<1>1. ASSUME NEW x \in C!ClientType PROVE SameClient(C!Rearm(x), x)
  <2>1. PICK b \in BOOLEAN : b = (x.state # "DISCONNECTED" /\ x.sendQueue # <<>>)
    OBVIOUS
  <2>2. C!Rearm(x) = [x EXCEPT !.pollOut = b]
    BY <2>1, Zenon DEF C!Rearm
  <2> QED BY <2>2, ClientOther
<1>2. PICK j : j = [k EXCEPT !.isConnectionEstablished = TRUE]
  OBVIOUS
<1>3. SameClient(j, k)
  BY <1>2, ClientOther
<1>4. SameClient(C!Rearm(j), k)
  <2>1. j \in C!ClientType
    BY <1>3 DEF SameClient
  <2>2. SameClient(C!Rearm(j), j)
    BY <1>1, <2>1
  <2> QED BY <1>3, <2>2 DEF SameClient, SameTalk, SameFlags, SameData
<1>5. C!verifyConnect(k) = C!Rearm(k) \/ C!verifyConnect(k) = C!Rearm(j)
  BY <1>2, Zenon DEF C!verifyConnect
<1> QED BY <1>1, <1>4, <1>5

\* HandleInput does no more than onMessage as far as the proofs look.
LEMMA ClientHandles ==
    ASSUME NEW k, NEW m, C!onMessage(k, m) \in C!ClientType
    PROVE  SameClient(C!HandleInput(k, m), C!onMessage(k, m))
<1>1. \/ C!HandleInput(k, m) = C!Rearm(C!onMessage(k, m))
      \/ C!HandleInput(k, m) = C!verifyConnect(C!onMessage(k, m))
  BY Zenon DEF C!HandleInput
<1> QED BY <1>1, ClientPoll

\* The effect of a message, by its type.
MessageTaken(r, k, m) ==
    \/ C!Ignores(k, m) /\ r = k
    \/ /\ ~C!Ignores(k, m) /\ C!Throws(k, m)
       /\ Closed(r, k, "PROTOCOL_ERROR")
    \/ /\ m.type = "BANNER" /\ k.state = "OPENING" /\ k.expectedMsg = "SERVER_BANNER"
       /\ \/ Closed(r, k, "VERSION_MISMATCH")
          \/ Talks(r, k, Append(k.sendQueue, ClientMsgHello), k.writer, "SERVER_HELLO")
    \/ /\ m.type = "HELLO" /\ k.state = "OPENING" /\ k.expectedMsg = "SERVER_HELLO"
       /\ HelloTaken(r, k)
    \/ /\ m.type = "UPDATE_TICK" /\ k.state = "CONNECTED"
       /\ TickTaken(r, k, m.timestamp, m.version)
    \/ /\ m.type = "DATA_STATUS" /\ k.state # "CLOSING" /\ k.expectedMsg = "SERVER_DATA_STATUS"
       /\ StatusTaken(r, k, m.dataFlags, m.dataUpdateFlags)
    \/ /\ m.type = "DATA" /\ k.state = "CONNECTED"
       /\ r = k \/ DataTaken(r, k, m)

\* The fields of the messages of the server.
LEMMA MessageFields ==
    ASSUME NEW m \in ServerMsg
    PROVE  /\ m.type \in {"UNKNOWN", "GARBLED", "BANNER", "HELLO", "UPDATE_TICK", "DATA_STATUS", "DATA"}
           /\ m.type = "UPDATE_TICK" => m.timestamp \in 0..TimestampMod - 1 /\ m.version \in Nat
           /\ m.type = "DATA_STATUS" => m.dataFlags \in BOOLEAN /\ m.dataUpdateFlags \in BOOLEAN
BY DEF ServerMsg, Cleared, Garbled, ServerMsgBanner, ServerMsgHello

\* What a message does to a client, by its type and the client's state.
LEMMA ClientMessage ==
    ASSUME NEW k \in C!ClientType, NEW m \in ServerMsg, NEW r, r = C!onMessage(k, m)
    PROVE  MessageTaken(r, k, m)
<1>1. CASE C!Ignores(k, m)
  <2>1. r = k
    BY <1>1, Zenon DEF C!onMessage
  <2> QED BY <1>1, <2>1 DEF MessageTaken
<1>2. CASE ~C!Ignores(k, m) /\ C!Throws(k, m)
  <2>1. r = C!quickDisconnect(k, "PROTOCOL_ERROR")
    BY <1>2, Zenon DEF C!onMessage
  <2>2. "PROTOCOL_ERROR" \in EDisconnectReason
    BY DEF EDisconnectReason
  <2>3. Closed(r, k, "PROTOCOL_ERROR")
    BY <2>1, <2>2, ClientClose
  <2> QED BY <1>2, <2>3 DEF MessageTaken
<1>3. CASE ~C!Ignores(k, m) /\ ~C!Throws(k, m)
  <2>0. m.type \in {"UNKNOWN", "GARBLED", "BANNER", "HELLO", "UPDATE_TICK", "DATA_STATUS", "DATA"}
    BY MessageFields
  <2>1. CASE m.type = "BANNER"
    <3>0. m.type # "HELLO" /\ m.type # "UPDATE_TICK" /\ m.type # "DATA_STATUS" /\ m.type # "DATA"
      BY <2>1
    <3>1. r = IF m.protocol # k.protocol THEN C!quickDisconnect(k, "VERSION_MISMATCH")
              ELSE C!sendMessage([k EXCEPT !.expectedMsg = "SERVER_HELLO"], C!ClientMsgHello)
      BY <1>3, <2>1, <3>0, Zenon DEF C!onMessage
    <3>2. k.state = "OPENING" /\ k.expectedMsg = "SERVER_BANNER"
      BY <1>3, <2>1 DEF C!Throws
    <3>3. "VERSION_MISMATCH" \in EDisconnectReason
      BY DEF EDisconnectReason
    <3>4. Closed(C!quickDisconnect(k, "VERSION_MISMATCH"), k, "VERSION_MISMATCH")
      BY <3>3, ClientClose
    <3>5. Closed(r, k, "VERSION_MISMATCH") \/ Talks(r, k, Append(k.sendQueue, ClientMsgHello), k.writer, "SERVER_HELLO")
      <4>1. PICK j : j = C!sendMessage([k EXCEPT !.expectedMsg = "SERVER_HELLO"], C!ClientMsgHello)
        OBVIOUS
      <4>2. Talks(j, k, Append(k.sendQueue, ClientMsgHello), k.writer, "SERVER_HELLO")
        BY <4>1, ClientBanner, Zenon
      <4> QED BY <3>1, <3>4, <4>1, <4>2, Zenon
    <3> QED BY <2>1, <3>2, <3>5, Zenon DEF MessageTaken
  <2>2. CASE m.type = "HELLO"
    <3>0. m.type # "BANNER" /\ m.type # "UPDATE_TICK" /\ m.type # "DATA_STATUS" /\ m.type # "DATA"
      BY <2>2
    <3>1. r = C!onSessionEstablished(
                  [k EXCEPT !.expectedMsg = "NONE", !.state = "CONNECTED", !.sessionTTL = 3,
                            !.currentTimestamp = 0, !.dataFlags = FALSE,
                            !.dataUpdateFlags = FALSE])
      BY <1>3, <2>2, <3>0, Zenon DEF C!onMessage
    <3>2. k.state = "OPENING" /\ k.expectedMsg = "SERVER_HELLO"
      BY <1>3, <2>2 DEF C!Throws
    <3>3. HelloTaken(r, k)
      BY <3>1, ClientHello, Zenon
    <3> QED BY <2>2, <3>2, <3>3 DEF MessageTaken
  <2>3. CASE m.type = "UPDATE_TICK"
    <3>0. m.type # "BANNER" /\ m.type # "HELLO" /\ m.type # "DATA_STATUS" /\ m.type # "DATA"
      BY <2>3
    <3>1. r = C!onSessionServerTick(
                  [k EXCEPT !.currentTimestamp = m.timestamp, !.sessionTTL = @ + 1,
                            !.tick = m.version])
      BY <1>3, <2>3, <3>0, Zenon DEF C!onMessage
    <3>2. k.state = "CONNECTED"
      BY <1>3, <2>3 DEF C!Throws
    <3>3. m.timestamp \in 0..TimestampMod - 1 /\ m.version \in Nat
      BY <2>3, MessageFields
    <3>4. TickTaken(r, k, m.timestamp, m.version)
      BY <3>1, <3>3, ClientTick, Zenon
    <3> QED BY <2>3, <3>2, <3>4 DEF MessageTaken
  <2>4. CASE m.type = "DATA_STATUS"
    <3>0. m.type # "BANNER" /\ m.type # "HELLO" /\ m.type # "UPDATE_TICK" /\ m.type # "DATA"
      BY <2>4
    <3>1. r = C!onSessionDataStatus(
                  [k EXCEPT !.dataFlags = m.dataFlags, !.dataUpdateFlags = m.dataUpdateFlags,
                            !.expectedMsg = "NONE", !.sessionTTL = 3])
      BY <1>3, <2>4, <3>0, Zenon DEF C!onMessage
    <3>2. k.state # "CLOSING" /\ k.expectedMsg = "SERVER_DATA_STATUS"
      BY <1>3, <2>4 DEF C!Throws, C!Ignores
    <3>3. m.dataFlags \in BOOLEAN /\ m.dataUpdateFlags \in BOOLEAN
      BY <2>4, MessageFields
    <3>4. StatusTaken(r, k, m.dataFlags, m.dataUpdateFlags)
      BY <3>1, <3>3, ClientStatus, Zenon
    <3> QED BY <2>4, <3>2, <3>4, Zenon DEF MessageTaken
  <2>5. CASE m.type = "DATA"
    <3>0. m.type # "BANNER" /\ m.type # "HELLO" /\ m.type # "UPDATE_TICK" /\ m.type # "DATA_STATUS"
      BY <2>5
    <3>1. r = C!onSessionData(k, m)
      BY <1>3, <2>5, <3>0, Zenon DEF C!onMessage
    <3>2. k.state = "CONNECTED"
      BY <1>3, <2>5 DEF C!Throws
    <3>3. r = k \/ DataTaken(r, k, m)
      BY <2>5, <3>1, ClientTakesData
    <3> QED BY <2>5, <3>2, <3>3 DEF MessageTaken
  <2>6. CASE m.type \in {"UNKNOWN", "GARBLED"}
    BY <1>3, <2>6 DEF C!Throws
  <2> QED BY <2>0, <2>1, <2>2, <2>3, <2>4, <2>5, <2>6
<1> QED BY <1>1, <1>2, <1>3

-----------------------------------------------------------------------------
(***************************************************************************)
(* The other operations of a client.                                       *)
(***************************************************************************)
LEMMA ClientConnects ==
    ASSUME NEW k \in C!ClientType, k.state = "DISCONNECTED", NEW r, r = C!connect(k)
    PROVE  /\ r \in C!ClientType /\ SameFlags(r, k) /\ SameData(r, k)
           /\ r.state = "OPENING" /\ r.expectedMsg = "SERVER_BANNER" /\ r.sendQueue = k.sendQueue
           /\ r.writer = k.writer /\ r.reason = k.reason
<1>1. PICK a \in ESessionState : a = "OPENING"
  BY DEF ESessionState
<1>2. PICK e \in C!EExpectedMsg : e = "SERVER_BANNER"
  BY DEF C!EExpectedMsg
<1>3. PICK n \in Nat : n = 4
  OBVIOUS
<1>4. PICK b \in BOOLEAN : b = TRUE
  OBVIOUS
<1>5. r = [k EXCEPT !.state = a, !.sessionTTL = n, !.expectedMsg = e, !.pollOut = b]
  BY <1>1, <1>2, <1>3, <1>4, Zenon DEF C!connect
<1>6. /\ r \in C!ClientType /\ SameFlags(r, k) /\ SameData(r, k)
      /\ r.state = a /\ r.expectedMsg = e /\ r.sendQueue = k.sendQueue
      /\ r.writer = k.writer /\ r.reason = k.reason
  BY ONLY <1>5, ClientNames, k \in C!ClientType, a \in ESessionState, e \in C!EExpectedMsg, n \in Nat, b \in BOOLEAN
     DEF C!ClientType, SameFlags, SameData
<1> QED BY <1>1, <1>2, <1>6

\* r is k after the user asked a connected client to disconnect.
Leaves(r, k) ==
    /\ r \in C!ClientType /\ SameFlags(r, k) /\ SameData(r, k)
    /\ r.state = "CLOSING" /\ r.expectedMsg = k.expectedMsg /\ r.writer = k.writer /\ r.reason = "USER_DECISION"
    /\ r.sendQueue = Append(k.sendQueue, ClientMsgDisconnect("USER_DECISION"))

\* disconnect() says farewell when connected, closes at once when opening, and
\* else does nothing.
LEMMA ClientLeaves ==
    ASSUME NEW k \in C!ClientType, NEW r, r = C!disconnect(k)
    PROVE  \/ k.state = "CONNECTED" /\ Leaves(r, k)
           \/ k.state = "OPENING" /\ Closed(r, k, "USER_DECISION")
           \/ k.state \notin {"CONNECTED", "OPENING"} /\ r = k
<1>1. PICK u \in EDisconnectReason : u = "USER_DECISION"
  BY DEF EDisconnectReason
<1>2. CASE k.state = "CONNECTED"
  <2>1. PICK a \in ESessionState : a = "CLOSING"
    BY DEF ESessionState
  <2>2. PICK n \in Nat : n = 2
    OBVIOUS
  <2>3. PICK j : j = [k EXCEPT !.state = a, !.sessionTTL = n, !.reason = u]
    OBVIOUS
  <2>4. /\ j \in C!ClientType /\ SameFlags(j, k) /\ SameData(j, k)
        /\ j.state = a /\ j.expectedMsg = k.expectedMsg /\ j.sendQueue = k.sendQueue
        /\ j.writer = k.writer /\ j.reason = u
    BY <2>3, ClientNames DEF C!ClientType, SameFlags, SameData
  <2>5. r = C!sendMessage(j, C!ClientMsgDisconnect("USER_DECISION"))
    <3>1. k.state # "OPENING"
      BY <1>2
    <3> QED BY <1>1, <1>2, <2>1, <2>2, <2>3, <3>1, Zenon DEF C!disconnect
  <2>6. PICK m : m = ClientMsgDisconnect("USER_DECISION")
    OBVIOUS
  <2>7. m = C!ClientMsgDisconnect("USER_DECISION") /\ m \in ClientMsg
    BY <1>1, <2>6, ClientNames, Vocabulary
  <2>8. Talks(r, j, Append(j.sendQueue, m), j.writer, j.expectedMsg)
    BY <2>4, <2>5, <2>7, ClientSend
  <2> QED BY <1>1, <1>2, <2>1, <2>4, <2>6, <2>8 DEF Talks, Leaves, SameFlags, SameData
<1>3. CASE k.state = "OPENING"
  <2>1. k.state # "CONNECTED"
    BY <1>3
  <2>2. r = C!quickDisconnect(k, u)
    BY <1>1, <1>3, <2>1, Zenon DEF C!disconnect
  <2>3. Closed(r, k, u)
    BY <2>2, ClientClose
  <2> QED BY <1>1, <1>3, <2>3
<1>4. CASE k.state \notin {"CONNECTED", "OPENING"}
  <2>1. k.state # "CONNECTED" /\ k.state # "OPENING"
    BY <1>4
  <2>2. r = k
    BY <2>1, Zenon DEF C!disconnect
  <2> QED BY <1>4, <2>2
<1> QED BY <1>2, <1>3, <1>4

\* The timer of the client does nothing or gives up.
LEMMA ClientTimer ==
    ASSUME NEW k \in C!ClientType, k.state # "DISCONNECTED", NEW r, r = C!onUpdate(k)
    PROVE  SameClient(r, k) \/ Closed(r, k, "TIMEOUT")
<1>1. CASE k.sessionTTL > 0
  <2>1. PICK n : n = k.sessionTTL - 1
    OBVIOUS
  <2>2. n \in Nat
    <3>1. k.sessionTTL \in Nat
      BY ClientFields
    <3> QED BY <1>1, <2>1, <3>1
  <2>3. r = [k EXCEPT !.sessionTTL = n]
    BY <1>1, <2>1, Zenon DEF C!onUpdate
  <2> QED BY <2>2, <2>3, ClientOther
<1>2. CASE ~(k.sessionTTL > 0)
  <2>1. r = C!quickDisconnect(k, "TIMEOUT")
    BY <1>2, Zenon DEF C!onUpdate
  <2>2. "TIMEOUT" \in EDisconnectReason
    BY DEF EDisconnectReason
  <2> QED BY <2>1, <2>2, ClientClose
<1> QED BY <1>1, <1>2

\* A lost connection closes the session, the reason being the one it had or the
\* loss.
LEMMA ClientLost ==
    ASSUME NEW k \in C!ClientType, NEW r, r = C!HandleConnectionLost(k)
    PROVE  \E reason \in EDisconnectReason : reason \in {k.reason, "CONNECTION_LOST"} /\ Closed(r, k, reason)
<1>1. PICK u : u = IF k.state = "CLOSING" THEN k.reason ELSE "CONNECTION_LOST"
  OBVIOUS
<1>2. u \in EDisconnectReason /\ u \in {k.reason, "CONNECTION_LOST"}
  BY <1>1, ClientFields DEF EDisconnectReason
<1>3. r = C!quickDisconnect(k, u)
  BY <1>1, Zenon DEF C!HandleConnectionLost
<1> QED BY <1>2, <1>3, ClientClose

-----------------------------------------------------------------------------
(***************************************************************************)
(* What a client has to say, and what its writer puts on the wire.         *)
(***************************************************************************)
ToSay(k) == Undelivered(k.writer) \o k.sendQueue

\* The message in progress, if any, is one.
Carries(w) == w.kind # "NONE" => w.msg \in ClientMsg

\* The fields of the client's writer.
LEMMA ClientWriterFields ==
    ASSUME NEW w \in C!ClientWriter
    PROVE  /\ w.kind \in {"NONE", "OWN"} /\ w.buf = "OWN" /\ w.msg \in ClientMsg \cup {Cleared}
           /\ w.pos \in 0..2
BY ClientNames DEF C!ClientWriter, Part, Body

\* The types of the client's messages.
LEMMA ClientMessageTypes ==
    ASSUME NEW m \in ClientMsg
    PROVE  m.type \in {"HELLO", "DISCONNECT", "REQUEST_DATA"}
BY DEF ClientMsg, ClientMsgHello

\* The client's writer has at most one message to deliver.
LEMMA ClientUndelivered ==
    ASSUME NEW w \in C!ClientWriter, Carries(w)
    PROVE  /\ Undelivered(w) \in Seq(ClientMsg) /\ Len(Undelivered(w)) = Busy(w) - Done(w)
           /\ Busy(w) \in {0, 1} /\ Done(w) \in {0, 1} /\ Done(w) <= Busy(w)
           /\ Len(Undelivered(w)) = 1 => Undelivered(w)[1] = w.msg /\ w.kind # "NONE" /\ w.pos < Body
<1>1. w.pos \in 0..2
  BY ClientWriterFields
<1>2. S!Body = Body /\ Body = 2
  BY ServerNames DEF Body
<1>3. CASE w.kind # "NONE" /\ w.pos < Body
  <2>1. w.msg \in ClientMsg
    BY <1>3 DEF Carries
  <2> QED BY <1>1, <1>2, <1>3, <2>1 DEF Undelivered, Busy, Done
<1>4. CASE ~(w.kind # "NONE" /\ w.pos < Body)
  BY <1>1, <1>2, <1>4 DEF Undelivered, Busy, Done
<1> QED BY <1>3, <1>4

\* What a client has to say are messages of the client.
LEMMA ToSayType ==
    ASSUME NEW k \in C!ClientType, Carries(k.writer)
    PROVE  ToSay(k) \in Seq(ClientMsg) /\ Undelivered(k.writer) \in Seq(ClientMsg) /\ k.sendQueue \in Seq(ClientMsg)
<1>1. k.writer \in C!ClientWriter /\ k.sendQueue \in Seq(ClientMsg)
  BY ClientFields
<1>2. Undelivered(k.writer) \in Seq(ClientMsg)
  BY <1>1, ClientUndelivered
<1> QED BY <1>1, <1>2 DEF ToSay

\* The client's writer takes the message itself.
LEMMA ClientLoads ==
    ASSUME NEW m \in ClientMsg, NEW w, w = C!send(m)
    PROVE  w \in C!ClientWriter /\ w.msg = m /\ w.kind = "OWN" /\ w.pos = 0
BY ClientNames DEF C!send, C!Idle, C!ClientWriter

\* The pending messages are the writer's and the queued ones.
LEMMA ClientPending ==
    ASSUME NEW k \in C!ClientType, NEW p, p = C!Pending(k), NEW b, b = Busy(k.writer)
    PROVE  /\ p \in Seq(C!ClientWriter)
           /\ Len(p) = b + Len(k.sendQueue)
           /\ b = 1 => p[1] = k.writer
           /\ \A j \in 1..Len(k.sendQueue) : p[b + j] = C!send(k.sendQueue[j])
<1>1. PICK q, w : q = k.sendQueue /\ w = k.writer
  OBVIOUS
<1>2. q \in Seq(ClientMsg) /\ w \in C!ClientWriter
  BY <1>1, ClientFields
<1> DEFINE a == IF w.kind # "NONE" THEN <<w>> ELSE <<>>
           l == [i \in 1..Len(q) |-> C!send(q[i])]
<1>3. C!Pending(k) = a \o l
  <2>1. DOMAIN q = 1..Len(q)
    BY <1>2
  <2> QED BY <1>1, <2>1 DEF C!Pending, C!isSending
<1>4. a \in Seq(C!ClientWriter) /\ Len(a) = Busy(w) /\ (Busy(w) = 1 => a[1] = w)
  <2>1. CASE w.kind # "NONE"
    BY <1>2, <2>1 DEF Busy
  <2>2. CASE w.kind = "NONE"
    BY <1>2, <2>2 DEF Busy
  <2> QED BY <2>1, <2>2
<1>5. l \in Seq(C!ClientWriter) /\ Len(l) = Len(q) /\ \A i \in 1..Len(q) : l[i] = C!send(q[i])
  <2>1. \A i \in 1..Len(q) : C!send(q[i]) \in C!ClientWriter
    <3> TAKE i \in 1..Len(q)
    <3>1. q[i] \in ClientMsg
      BY <1>2
    <3> QED BY <3>1, ClientLoads
  <2>2. Len(q) \in Nat
    BY <1>2
  <2> QED BY <2>1, <2>2
<1> HIDE DEF a, l
<1>6. /\ a \o l \in Seq(C!ClientWriter) /\ Len(a \o l) = Len(a) + Len(l)
      /\ \A i \in 1..Len(a) : (a \o l)[i] = a[i]
      /\ \A i \in 1..Len(l) : (a \o l)[Len(a) + i] = l[i]
  <2>1. PICK x, y : x = a /\ y = l
    OBVIOUS
  <2>2. x \in Seq(C!ClientWriter) /\ y \in Seq(C!ClientWriter)
    BY <1>4, <1>5, <2>1
  <2>3. /\ x \o y \in Seq(C!ClientWriter) /\ Len(x \o y) = Len(x) + Len(y)
        /\ \A i \in 1..Len(x) : (x \o y)[i] = x[i]
        /\ \A i \in 1..Len(y) : (x \o y)[Len(x) + i] = y[i]
    BY ONLY <2>2, ConcatFacts
  <2> QED BY ONLY <2>1, <2>3
<1>7. Busy(w) = 1 => (a \o l)[1] = w
  BY <1>4, <1>6
<1> QED BY <1>1, <1>3, <1>4, <1>5, <1>6, <1>7

\* What is pending is what the client has to say.
Said(p, R, d) == \A i \in 1..Len(p) : i > d => p[i].msg = R[i - d] /\ R[i - d] \in ClientMsg

\* The pending messages of the client are the ones it has to say.
LEMMA ClientMatches ==
    ASSUME NEW k \in C!ClientType, Carries(k.writer), NEW p, p = C!Pending(k), NEW d, d = Done(k.writer),
           NEW R, R = ToSay(k)
    PROVE  /\ Len(p) = Len(R) + d
           /\ p # <<>> => (d = 0 <=> p[1].pos < Body)
           /\ Said(p, R, d)
<1>1. PICK q, w, b, W : q = k.sendQueue /\ w = k.writer /\ b = Busy(w) /\ W = Undelivered(w)
  OBVIOUS
<1>2. q \in Seq(ClientMsg) /\ w \in C!ClientWriter /\ Len(q) \in Nat
  BY <1>1, ClientFields
<1>3. /\ W \in Seq(ClientMsg) /\ Len(W) = b - d /\ b \in {0, 1} /\ d \in {0, 1} /\ d <= b
      /\ Len(W) = 1 => W[1] = w.msg
  BY <1>1, <1>2, ClientUndelivered
<1>4. /\ p \in Seq(C!ClientWriter) /\ Len(p) = b + Len(q) /\ (b = 1 => p[1] = w)
      /\ \A j \in 1..Len(q) : p[b + j] = C!send(q[j])
  BY <1>1, ClientPending
<1>5. /\ R \in Seq(ClientMsg) /\ Len(R) = Len(W) + Len(q)
      /\ \A i \in 1..Len(W) : R[i] = W[i]
      /\ \A i \in 1..Len(q) : R[Len(W) + i] = q[i]
  <2>1. R = W \o q
    BY <1>1 DEF ToSay
  <2> QED BY ONLY <1>2, <1>3, <2>1, ConcatFacts
<1>6. Len(p) = Len(R) + d
  BY <1>2, <1>3, <1>4, <1>5
<1>7. \A j \in 1..Len(q) : p[b + j].msg = q[j] /\ p[b + j].pos = 0
  <2> TAKE j \in 1..Len(q)
  <2>1. PICK m : m = q[j]
    OBVIOUS
  <2>2. m \in ClientMsg
    BY <1>2, <2>1
  <2>3. C!send(m).msg = m /\ C!send(m).pos = 0
    BY <2>2, ClientLoads
  <2> QED BY <1>4, <2>1, <2>3
<1>8. p # <<>> => (d = 0 <=> p[1].pos < Body)
  <2>1. CASE b = 1
    <3>1. w.kind # "NONE" /\ w.pos \in 0..2
      <4>1. w.kind # "NONE"
        BY <1>1, <2>1 DEF Busy
      <4> QED BY <1>2, <4>1, ClientWriterFields
    <3> QED BY <1>1, <1>4, <2>1, <3>1 DEF Done, Body
  <2>2. CASE b = 0 /\ p # <<>>
    <3>1. 1 \in 1..Len(q) /\ d = 0
      BY <1>2, <1>3, <1>4, <2>2
    <3>2. p[b + 1].pos = 0
      BY <1>7, <3>1
    <3> QED BY <2>2, <3>1, <3>2 DEF Body
  <2> QED BY <1>3, <2>1, <2>2
<1>9. ASSUME NEW i \in 1..Len(p), i > d PROVE p[i].msg = R[i - d] /\ R[i - d] \in ClientMsg
  <2>1. CASE i = 1 /\ b = 1
    <3>1. d = 0 /\ Len(W) = 1
      BY <1>3, <1>9, <2>1
    <3>2. i - d = 1 /\ 1 \in 1..Len(W)
      BY <2>1, <3>1
    <3>3. R[1] = w.msg /\ p[1] = w
      BY <1>3, <1>4, <1>5, <2>1, <3>1, <3>2
    <3>4. R[1] \in ClientMsg
      BY <1>3, <1>5, <3>2
    <3> QED BY <2>1, <3>2, <3>3, <3>4
  <2>2. CASE ~(i = 1 /\ b = 1)
    <3>1. PICK j : j = i - b
      OBVIOUS
    <3>2. j \in 1..Len(q) /\ i = b + j /\ i - d = Len(W) + j
      BY <1>2, <1>3, <1>4, <2>2, <3>1
    <3>3. R[Len(W) + j] = q[j] /\ p[b + j].msg = q[j] /\ q[j] \in ClientMsg
      <4>1. R[Len(W) + j] = q[j]
        BY ONLY <1>5, <3>2
      <4>2. p[b + j].msg = q[j]
        BY ONLY <1>7, <3>2
      <4>3. q[j] \in ClientMsg
        BY ONLY <1>2, <3>2
      <4> QED BY <4>1, <4>2, <4>3
    <3> QED BY <3>2, <3>3
  <2> QED BY <2>1, <2>2
<1> QED BY <1>6, <1>8, <1>9 DEF Said

\* The writer after an output holds the first message that is not sent
\* completely.
LEMMA ClientNextWriter ==
    ASSUME NEW k \in C!ClientType, Carries(k.writer), NEW p, p = C!Pending(k),
           NEW n \in 0..Len(p), NEW pos \in {1, 2}, C!CanSend(p, n, pos), NEW w, w = C!doSend(p, n, pos)
    PROVE  /\ w \in C!ClientWriter /\ Carries(w) /\ (n = Len(p) => w.kind = "NONE")
           /\ Len(Undelivered(w)) = IF n < Len(p) /\ pos # Body THEN 1 ELSE 0
           /\ Len(Undelivered(w)) = 1 => Undelivered(w)[1] = p[n + 1].msg
<1>0. p \in Seq(C!ClientWriter) /\ Len(p) \in Nat
  BY ClientPending
<1>1. CASE n < Len(p)
  <2>1. PICK x : x = p[n + 1]
    OBVIOUS
  <2>2. x \in C!ClientWriter
    BY <1>0, <1>1, <2>1
  <2>3. x.msg.type # "UNKNOWN"
    BY <1>1, <2>1 DEF C!CanSend
  <2>4. x.msg \in ClientMsg /\ x.kind \in {"NONE", "OWN"}
    <3>1. x.msg \in ClientMsg \cup {Cleared} /\ x.kind \in {"NONE", "OWN"}
      BY <2>2, ClientWriterFields
    <3> QED BY <2>3, <3>1, Vocabulary
  <2>5. w = [x EXCEPT !.pos = pos]
    BY <1>1, <2>1 DEF C!doSend
  <2>6. w \in C!ClientWriter /\ w.msg = x.msg /\ w.kind = x.kind /\ w.pos = pos
    BY <2>2, <2>5, ClientNames DEF C!ClientWriter, Part, Body
  <2>7. x.kind # "NONE"
    <3>1. PICK q, b, j : q = k.sendQueue /\ b = Busy(k.writer) /\ j = n + 1 - b
      OBVIOUS
    <3>2. q \in Seq(ClientMsg) /\ b \in {0, 1}
      BY <3>1, ClientFields DEF Busy
    <3>3. Len(p) = b + Len(q) /\ (b = 1 => p[1] = k.writer) /\ \A i \in 1..Len(q) : p[b + i] = C!send(q[i])
      BY <3>1, ClientPending
    <3>4. CASE n = 0 /\ b = 1
      <4>1. x = k.writer
        BY <2>1, <3>3, <3>4
      <4> QED BY <3>1, <3>4, <4>1 DEF Busy
    <3>5. CASE ~(n = 0 /\ b = 1)
      <4>1. j \in 1..Len(q) /\ n + 1 = b + j
        BY <1>0, <1>1, <3>1, <3>2, <3>3, <3>5
      <4>2. PICK m : m = q[j]
        OBVIOUS
      <4>3. m \in ClientMsg /\ x = C!send(m)
        BY <2>1, <3>2, <3>3, <4>1, <4>2
      <4>4. C!send(m).kind = "OWN"
        BY <4>3, ClientLoads
      <4> QED BY <4>3, <4>4
    <3> QED BY <3>4, <3>5
  <2>8. Carries(w)
    BY <2>4, <2>6 DEF Carries
  <2>9. /\ Len(Undelivered(w)) = Busy(w) - Done(w)
        /\ Len(Undelivered(w)) = 1 => Undelivered(w)[1] = w.msg
    BY <2>6, <2>8, ClientUndelivered
  <2>10. Busy(w) = 1 /\ Done(w) = IF pos = Body THEN 1 ELSE 0
    BY <2>6, <2>7 DEF Busy, Done
  <2> QED BY <1>1, <2>1, <2>6, <2>8, <2>9, <2>10
<1>2. CASE n = Len(p)
  <2>1. w = C!Idle
    BY <1>2 DEF C!doSend
  <2>2. w \in C!ClientWriter /\ w.kind = "NONE"
    BY <2>1, ClientNames DEF C!Idle, C!ClientWriter
  <2>3. Undelivered(w) = <<>>
    BY <2>2 DEF Undelivered
  <2> QED BY <1>2, <2>2, <2>3 DEF Carries
<1> QED BY <1>0, <1>1, <1>2

\* The client after an output: its queue loses the messages handed to the
\* writer.
LEMMA ClientOutputIs ==
    ASSUME NEW k \in C!ClientType, Carries(k.writer), NEW p, p = C!Pending(k),
           NEW n \in 0..Len(p), NEW pos \in {1, 2}, C!CanSend(p, n, pos),
           NEW r, r = C!HandleOutput(k, n, pos), NEW l, l = LoadedOf(n, Busy(k.writer), Len(k.sendQueue)),
           NEW w, w = C!doSend(p, n, pos)
    PROVE  /\ Talks(r, k, SubSeq(k.sendQueue, l + 1, Len(k.sendQueue)), w, k.expectedMsg)
           /\ l \in 0..Len(k.sendQueue)
<1>1. PICK q, b : q = k.sendQueue /\ b = Busy(k.writer)
  OBVIOUS
<1>2. q \in Seq(ClientMsg) /\ Len(q) \in Nat /\ b \in {0, 1}
  BY <1>1, ClientFields DEF Busy
<1>3. Len(p) = b + Len(q)
  BY <1>1, ClientPending
<1>4. l \in 0..Len(q) /\ l = LoadedOf(n, b, Len(q))
  BY <1>1, <1>2, <1>3 DEF LoadedOf
<1>5. PICK y : y = SubSeq(q, l + 1, Len(q))
  OBVIOUS
<1>6. y \in Seq(ClientMsg)
  BY <1>2, <1>4, <1>5, SplitFacts
<1>7. w \in C!ClientWriter
  BY ClientNextWriter
<1>8. PICK j : j = [k EXCEPT !.writer = w, !.sendQueue = y]
  OBVIOUS
<1>9. Talks(j, k, y, w, k.expectedMsg)
  <2>1. TRUE \in BOOLEAN /\ k.expectedMsg \in C!EExpectedMsg
    BY ClientFields
  <2> QED BY <1>6, <1>7, <1>8, <2>1, ClientTalk
<1>10. r = C!Rearm(j)
  <2>1. PICK busy, last, loaded : /\ busy = Len(p) - Len(k.sendQueue)
                                  /\ last = IF n < Len(p) THEN n + 1 ELSE n
                                  /\ loaded = IF last > busy THEN last - busy ELSE 0
    OBVIOUS
  <2>2. r = C!Rearm([k EXCEPT !.writer = C!doSend(p, n, pos), !.sendQueue = SubSeq(k.sendQueue, loaded + 1, Len(k.sendQueue))])
    BY <2>1, Zenon DEF C!HandleOutput
  <2>3. loaded = l
    BY <1>1, <1>2, <1>3, <1>4, <2>1 DEF LoadedOf
  <2> QED BY <1>1, <1>5, <1>8, <2>2, <2>3, Zenon
<1>11. SameClient(r, j)
  <2>1. j \in C!ClientType
    BY <1>9 DEF Talks
  <2> QED BY <1>10, <2>1, ClientPoll
<1>12. Talks(r, k, y, w, k.expectedMsg)
  BY <1>9, <1>11 DEF Talks, SameClient, SameTalk, SameFlags, SameData
<1> QED BY <1>1, <1>4, <1>5, <1>12

\* E is said, X remains to be said of R.
SaidOf(E, X, R) == R \in Seq(ClientMsg) /\ E \in Seq(ClientMsg) /\ X \in Seq(ClientMsg) /\ E \o X = R

\* An output of the client sends the first messages it has to say and leaves
\* the others.
LEMMA ClientOutputs ==
    ASSUME NEW k \in C!ClientType, Carries(k.writer), NEW p, p = C!Pending(k),
           NEW n \in 0..Len(p), NEW pos \in {1, 2}, C!CanSend(p, n, pos),
           NEW r, r = C!HandleOutput(k, n, pos), NEW E, E = C!Emitted(p, n, pos, p[1].msg),
           NEW R, R = ToSay(k), NEW X, X = ToSay(r)
    PROVE  SaidOf(E, X, R)
<1>1. PICK q, w, b, d, x, W, V, l, c, text :
        /\ q = k.sendQueue /\ w = k.writer /\ b = Busy(w) /\ d = Done(w) /\ x = C!doSend(p, n, pos)
        /\ W = Undelivered(w) /\ V = Undelivered(x)
        /\ l = LoadedOf(n, b, Len(q)) /\ c = Delivered(p, n, pos) /\ text = p[1].msg
  OBVIOUS
<1>2. q \in Seq(ClientMsg) /\ w \in C!ClientWriter /\ Len(q) \in Nat
  BY <1>1, ClientFields
<1>3. W \in Seq(ClientMsg) /\ Len(W) = b - d /\ b \in {0, 1} /\ d \in {0, 1} /\ d <= b
  BY <1>1, <1>2, ClientUndelivered
<1>4. p \in Seq(C!ClientWriter) /\ Len(p) = b + Len(q)
  BY <1>1, ClientPending
<1>5. R \in Seq(ClientMsg)
  BY ToSayType
<1>6. Len(p) = Len(R) + d /\ (p # <<>> => (d = 0 <=> p[1].pos < Body)) /\ Said(p, R, d)
  BY <1>1, ClientMatches
<1>7. r.writer = x /\ r.sendQueue = SubSeq(q, l + 1, Len(q)) /\ l \in 0..Len(q)
  BY <1>1, ClientOutputIs DEF Talks
<1>8. /\ x \in C!ClientWriter /\ Carries(x)
      /\ Len(V) = (IF n < Len(p) /\ pos # Body THEN 1 ELSE 0) /\ (Len(V) = 1 => V[1] = p[n + 1].msg)
  BY <1>1, ClientNextWriter
<1>9. V \in Seq(ClientMsg)
  BY <1>1, <1>8, ClientUndelivered
<1>10. c = (IF n < Len(p) /\ pos = Body THEN n + 1 ELSE n) /\ c \in 0..Len(p) /\ c <= n + 1
  <2>1. c = (IF n < Len(p) /\ pos = Body THEN n + 1 ELSE n)
    BY <1>1 DEF Delivered
  <2>2. Len(p) \in Nat /\ n \in Nat /\ n <= Len(p)
    BY <1>4
  <2> QED BY <2>1, <2>2
<1>11. d <= c
  <2>1. CASE d = 1 /\ n = 0
    <3>1. Len(p) >= 1 /\ p # <<>> /\ p[1] \in C!ClientWriter
      BY <1>2, <1>3, <1>4, <2>1
    <3>2. p[1].pos \in 0..2 /\ ~(p[1].pos < Body)
      BY <1>6, <2>1, <3>1, ClientWriterFields
    <3>3. pos > p[1].pos
      BY <2>1, <3>1 DEF C!CanSend
    <3> QED BY <3>2, <3>3 DEF Body
  <2> QED BY <1>3, <1>10, <2>1
<1>12. PICK Y : Y = SubSeq(R, c - d + 1, Len(R))
  OBVIOUS
<1>13. R = W \o q /\ X = V \o SubSeq(q, l + 1, Len(q))
  BY <1>1, <1>7 DEF ToSay
<1>14. X \in Seq(ClientMsg) /\ Y \in Seq(ClientMsg) /\ RestIs(V, R, n + 1 - d, X, Y)
  <2>1. OutputShape(n, b, d, c, pos, Len(q), Len(W), Len(V))
    BY <1>3, <1>4, <1>8, <1>10, <1>11 DEF OutputShape
  <2>2. b \in Nat /\ d \in Nat /\ c \in Nat /\ n \in Nat
    BY <1>3, <1>4, <1>10
  <2>3. l = LoadedOf(n, b, Len(q))
    BY <1>1
  <2>4. q \in Seq(ClientMsg) /\ W \in Seq(ClientMsg) /\ V \in Seq(ClientMsg)
    BY <1>2, <1>3, <1>9
  <2> QED BY ONLY <1>12, <1>13, <2>1, <2>2, <2>3, <2>4, OutputRest, ZenonT(60)
<1>15. Len(V) = 1 => V[1] = R[n + 1 - d]
  <2> HAVE Len(V) = 1
  <2>1. n < Len(p) /\ pos # Body
    <3>1. Len(V) = IF n < Len(p) /\ pos # Body THEN 1 ELSE 0
      BY ONLY <1>8
    <3> QED BY ONLY <3>1, Len(V) = 1
  <2>2. c = n
    BY <1>10, <2>1
  <2>3. Len(p) \in Nat /\ n \in Nat /\ d \in Nat
    BY <1>3, <1>4
  <2>4. PICK i : i = n + 1
    OBVIOUS
  <2>5. i \in 1..Len(p) /\ i > d
    BY <1>11, <2>1, <2>2, <2>3, <2>4
  <2>6. p[i].msg = R[i - d]
    BY <1>6, <2>5 DEF Said
  <2>7. p[n + 1].msg = R[n + 1 - d]
    BY ONLY <2>3, <2>4, <2>6
  <2> QED BY <1>8, <2>7
<1>16. X = Y
  BY <1>14, <1>15 DEF RestIs
<1>17. PICK A : A = SubSeq(R, 1, c - d)
  OBVIOUS
<1>18. A \in Seq(ClientMsg) /\ R = A \o Y
  <2>1. c - d \in 0..Len(R)
    BY <1>3, <1>5, <1>6, <1>10, <1>11
  <2> QED BY <1>5, <1>12, <1>17, <2>1, SplitFacts
<1>19. E = A
  <2>1. E = Emitted(p, n, pos, text)
    BY <1>1, ClientEmitted
  <2>2. CASE p = <<>>
    <3>1. c = 0 /\ d = 0 /\ Len(R) = 0
      BY <1>3, <1>4, <1>5, <1>6, <1>10, <1>11, <2>2
    <3>2. E = <<>>
      BY <1>1, <2>1, <3>1, NothingEmitted
    <3>3. A = <<>>
      BY <1>5, <1>17, <3>1
    <3> QED BY <3>2, <3>3
  <2>3. CASE p # <<>>
    <3>1. PICK T : T = ClientMsg \cup {Cleared, Garbled}
      OBVIOUS
    <3>2. Cleared \in T /\ Garbled \in T
      BY <3>1
    <3>3. \A m \in ClientMsg : m.type # "UNKNOWN"
      BY ClientMessageTypes
    <3>4. Carry(C!ClientWriter, T)
      BY <3>1, ClientWriterFields DEF Carry
    <3>5. text \in T
      <4>1. p[1] \in C!ClientWriter
        BY <1>4, <2>3
      <4> QED BY <1>1, <3>1, <4>1, ClientWriterFields
    <3>6. FirstIs(p, text, d) /\ c = Delivered(p, n, pos)
      BY <1>1, <1>6, <2>3 DEF FirstIs
    <3>7. Conveys(p, R, d, ClientMsg)
      BY <1>6, <3>3 DEF Said, Conveys
    <3>8. Len(p) = Len(R) + d /\ d \in {0, 1} /\ d <= c /\ n \in 0..Len(p)
      BY <1>3, <1>6, <1>11
    <3>9. Emitted(p, n, pos, text) = SubSeq(R, 1, c - d)
      BY ONLY <1>4, <1>5, <3>2, <3>4, <3>5, <3>6, <3>7, <3>8, EmittedAll
    <3> QED BY <1>17, <2>1, <3>9
  <2> QED BY <2>2, <2>3
<1> QED BY ONLY <1>5, <1>14, <1>16, <1>18, <1>19 DEF SaidOf

=============================================================================

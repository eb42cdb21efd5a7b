--------------------------- MODULE DataSyncProofs ---------------------------
(***************************************************************************)
(* The proofs about DataSync, for any number of clients, of updates and of *)
(* failures and any modulus of the timestamps.  What holds of a connection *)
(* comes in two layers: Base holds always, Good as long as no message was  *)
(* replaced in a shared buffer before it was sent.  There is a lemma of    *)
(* each kind for every operation, then one per action of Next, and the     *)
(* theorems at the end.                                                    *)
(***************************************************************************)
EXTENDS SessionProofs, TLAPS

\* Concatenation is associative.
LEMMA ConcatAssoc ==
    ASSUME NEW M, NEW a \in Seq(M), NEW b \in Seq(M), NEW c \in Seq(M)
    PROVE  (a \o b) \o c = a \o (b \o c)
<1>1. PICK ab, bc, x, y : ab = a \o b /\ bc = b \o c /\ x = ab \o c /\ y = a \o bc
  OBVIOUS
<1>2. /\ ab \in Seq(M) /\ Len(a) \in Nat /\ Len(b) \in Nat /\ Len(ab) = Len(a) + Len(b)
      /\ \A i \in 1..Len(a) : ab[i] = a[i]
      /\ \A i \in 1..Len(b) : ab[Len(a) + i] = b[i]
  BY <1>1, ConcatFacts
<1>3. /\ bc \in Seq(M) /\ Len(c) \in Nat /\ Len(bc) = Len(b) + Len(c)
      /\ \A i \in 1..Len(b) : bc[i] = b[i]
      /\ \A i \in 1..Len(c) : bc[Len(b) + i] = c[i]
  BY <1>1, ConcatFacts
<1>4. /\ x \in Seq(M) /\ Len(x) = Len(ab) + Len(c)
      /\ \A i \in 1..Len(ab) : x[i] = ab[i]
      /\ \A i \in 1..Len(c) : x[Len(ab) + i] = c[i]
  BY <1>1, <1>2, ConcatFacts
<1>5. /\ y \in Seq(M) /\ Len(y) = Len(a) + Len(bc)
      /\ \A i \in 1..Len(a) : y[i] = a[i]
      /\ \A i \in 1..Len(bc) : y[Len(a) + i] = bc[i]
  <2>1. y = a \o bc /\ a \in Seq(M) /\ bc \in Seq(M)
    BY <1>1, <1>3
  <2> QED BY ONLY <2>1, ConcatFacts
<1>6. Len(x) = Len(y)
  BY ONLY <1>2, <1>3, <1>4, <1>5
<1>7. ASSUME NEW i \in 1..Len(x) PROVE x[i] = y[i]
  <2>0. i \in 1..Len(a) + Len(b) + Len(c)
    BY ONLY <1>2, <1>3, <1>4, i \in 1..Len(x)
  <2>1. CASE i \in 1..Len(a)
    <3>1. i \in 1..Len(ab)
      BY ONLY <1>2, <2>1
    <3> QED BY <1>2, <1>4, <1>5, <2>1, <3>1
  <2>2. CASE i > Len(a) /\ i <= Len(a) + Len(b)
    <3>1. PICK j : j = i - Len(a)
      OBVIOUS
    <3>2. j \in 1..Len(b) /\ j \in 1..Len(bc) /\ i \in 1..Len(ab) /\ i = Len(a) + j
      BY ONLY <1>2, <1>3, <2>0, <2>2, <3>1
    <3>3. x[i] = ab[i] /\ ab[Len(a) + j] = b[j] /\ y[Len(a) + j] = bc[j] /\ bc[j] = b[j]
      BY <1>2, <1>3, <1>4, <1>5, <3>2
    <3> QED BY ONLY <3>2, <3>3
  <2>3. CASE i > Len(a) + Len(b)
    <3>1. PICK j, e : j = i - (Len(a) + Len(b)) /\ e = Len(b) + j
      OBVIOUS
    <3>2. j \in 1..Len(c) /\ e \in 1..Len(bc) /\ i = Len(ab) + j /\ i = Len(a) + e
      BY ONLY <1>2, <1>3, <2>0, <2>3, <3>1
    <3>3. x[Len(ab) + j] = c[j] /\ y[Len(a) + e] = bc[e] /\ bc[Len(b) + j] = c[j]
      BY <1>3, <1>4, <1>5, <3>2
    <3> QED BY ONLY <3>1, <3>2, <3>3
  <2> QED BY ONLY <1>2, <1>3, <2>0, <2>1, <2>2, <2>3
<1>8. x = y
  BY <1>4, <1>5, <1>6, <1>7, SameSequence
<1> QED BY <1>1, <1>8

-----------------------------------------------------------------------------
(***************************************************************************)
(* What the client still has to say, as its operations change it.          *)
(***************************************************************************)
\* A client and what it sent are of their types.
Speaks(k, u) == k \in C!ClientType /\ Carries(k.writer) /\ u \in Seq(ClientMsg)

\* What a client has to say is on the wire and, unless it has disconnected, in
\* its writer and queue.
LEMMA AskedIs ==
    ASSUME NEW k, NEW u, Speaks(k, u)
    PROVE  /\ Asked(k, u) \in Seq(ClientMsg)
           /\ k.state = "DISCONNECTED" => Asked(k, u) = u
           /\ k.state # "DISCONNECTED" => Asked(k, u) = u \o ToSay(k)
<1>1. ToSay(k) \in Seq(ClientMsg) /\ u \in Seq(ClientMsg)
  BY ToSayType DEF Speaks
<1>2. u \o ToSay(k) \in Seq(ClientMsg)
  BY <1>1, ConcatFacts
<1>3. Asked(k, u) = IF k.state = "DISCONNECTED" THEN u ELSE u \o ToSay(k)
  BY DEF Asked, ToSay
<1> QED BY <1>1, <1>2, <1>3

\* What a client has to say only depends on its writer and its queue.
LEMMA AskedSame ==
    ASSUME NEW k, NEW r, NEW u, r.sendQueue = k.sendQueue, r.writer = k.writer,
           k.state # "DISCONNECTED", r.state # "DISCONNECTED"
    PROVE  Asked(r, u) = Asked(k, u)
BY DEF Asked

\* A message sent by the client is the last thing it has to say.
LEMMA AskedAppend ==
    ASSUME NEW k, NEW u, Speaks(k, u), NEW m \in ClientMsg, NEW r,
           r.sendQueue = Append(k.sendQueue, m), r.writer = k.writer,
           k.state # "DISCONNECTED", r.state # "DISCONNECTED"
    PROVE  Asked(r, u) = Append(Asked(k, u), m)
<1>1. PICK w, q : w = Undelivered(k.writer) /\ q = k.sendQueue
  OBVIOUS
<1>2. w \in Seq(ClientMsg) /\ q \in Seq(ClientMsg) /\ u \in Seq(ClientMsg)
  BY <1>1, ToSayType DEF Speaks
<1>3. w \o Append(q, m) = Append(w \o q, m) /\ w \o q \in Seq(ClientMsg)
  <2>1. w \o Append(q, m) = Append(w \o q, m)
    BY ONLY <1>2, ConcatAppend, m \in ClientMsg
  <2>2. w \o q \in Seq(ClientMsg)
    BY ONLY <1>2, ConcatFacts
  <2> QED BY ONLY <2>1, <2>2
<1>4. u \o Append(w \o q, m) = Append(u \o (w \o q), m)
  <2>1. PICK p : p = w \o q
    OBVIOUS
  <2>2. p \in Seq(ClientMsg) /\ u \in Seq(ClientMsg)
    BY ONLY <1>2, <1>3, <2>1
  <2>3. u \o Append(p, m) = Append(u \o p, m)
    BY ONLY <2>2, ConcatAppend, m \in ClientMsg
  <2> QED BY ONLY <2>1, <2>3
<1>5. Asked(r, u) = u \o (w \o Append(q, m))
  BY <1>1 DEF Asked
<1>6. Asked(k, u) = u \o (w \o q)
  BY <1>1 DEF Asked
<1> QED BY ONLY <1>3, <1>4, <1>5, <1>6

\* What is on the wire is the first part of what the client has to say.
LEMMA AskedCut ==
    ASSUME NEW k, NEW u, Speaks(k, u)
    PROVE  Thins(u, Asked(k, u), FALSE) /\ Count(u) <= Count(Asked(k, u))
<1>1. PICK t, a : t = ToSay(k) /\ a = Asked(k, u)
  OBVIOUS
<1>2. t \in Seq(ClientMsg) /\ u \in Seq(ClientMsg) /\ a \in Seq(ClientMsg)
  BY <1>1, ToSayType, AskedIs DEF Speaks
<1>3. Thins(u, u, TRUE)
  BY <1>2, ThinsSelf
<1>4. <<>> \in Seq(ClientMsg) /\ u \o <<>> = u
  BY <1>2
<1>5. Thins(u, u \o t, FALSE)
  BY <1>2, <1>3, ThinsPrefix
<1>6. Thins(u, u \o <<>>, FALSE)
  BY <1>2, <1>3, <1>4, ThinsPrefix
<1>7. Thins(u, a, FALSE)
  <2>1. a = u \/ a = u \o t
    BY <1>1, AskedIs
  <2> QED BY ONLY <1>4, <1>5, <1>6, <2>1
<1>8. Count(u) <= Count(a)
  BY <1>2, <1>7, ThinsCount
<1> QED BY <1>1, <1>7, <1>8

\* Taking the first element of the first sequence takes it from the
\* concatenation.
LEMMA TailConcat ==
    ASSUME NEW M, NEW a \in Seq(M), a # <<>>, NEW b \in Seq(M)
    PROVE  /\ Tail(a \o b) = Tail(a) \o b /\ a \o b # <<>> /\ (a \o b)[1] = Head(a) /\ a[1] = Head(a)
           /\ Tail(a) \in Seq(M) /\ Head(a) \in M
<1>1. PICK t, c, x, y : t = Tail(a) /\ c = a \o b /\ x = Tail(c) /\ y = t \o b
  OBVIOUS
<1>2. /\ t \in Seq(M) /\ Len(a) \in Nat /\ Len(t) \in Nat /\ Len(a) = Len(t) + 1
      /\ Head(a) \in M /\ Head(a) = a[1]
      /\ \A i \in 1..Len(t) : i + 1 \in 1..Len(a) /\ t[i] = a[i + 1]
  BY <1>1, TailFacts
<1>3. /\ c \in Seq(M) /\ Len(b) \in Nat /\ Len(c) = Len(a) + Len(b)
      /\ \A i \in 1..Len(a) : c[i] = a[i]
      /\ \A i \in 1..Len(b) : c[Len(a) + i] = b[i]
  BY <1>1, ConcatFacts
<1>4. c # <<>>
  BY <1>2, <1>3
<1>5. /\ x \in Seq(M) /\ Len(x) \in Nat /\ Len(c) = Len(x) + 1
      /\ \A i \in 1..Len(x) : x[i] = c[i + 1]
  BY <1>1, <1>3, <1>4, TailFacts
<1>6. /\ y \in Seq(M) /\ Len(y) = Len(t) + Len(b)
      /\ \A i \in 1..Len(t) : y[i] = t[i]
      /\ \A i \in 1..Len(b) : y[Len(t) + i] = b[i]
  BY <1>1, <1>2, ConcatFacts
<1>7. Len(x) = Len(y)
  BY ONLY <1>2, <1>3, <1>5, <1>6
<1>8. ASSUME NEW i \in 1..Len(x) PROVE x[i] = y[i]
  <2>1. x[i] = c[i + 1]
    BY <1>5
  <2>2. CASE i <= Len(t)
    <3>1. i \in 1..Len(t) /\ i + 1 \in 1..Len(a)
      BY ONLY <1>2, <1>5, <2>2, i \in 1..Len(x)
    <3>2. c[i + 1] = a[i + 1] /\ t[i] = a[i + 1] /\ y[i] = t[i]
      BY <1>2, <1>3, <1>6, <3>1
    <3> QED BY <2>1, <3>2
  <2>3. CASE i > Len(t)
    <3>1. PICK j : j = i - Len(t)
      OBVIOUS
    <3>2. j \in 1..Len(b) /\ i = Len(t) + j /\ i + 1 = Len(a) + j
      BY ONLY <1>2, <1>3, <1>5, <2>3, <3>1, i \in 1..Len(x)
    <3>3. c[Len(a) + j] = b[j] /\ y[Len(t) + j] = b[j]
      BY <1>3, <1>6, <3>2
    <3> QED BY ONLY <2>1, <3>2, <3>3
  <2> QED BY ONLY <1>2, <1>5, <2>2, <2>3, i \in 1..Len(x)
<1>9. x = y
  BY <1>5, <1>6, <1>7, <1>8, SameSequence
<1>10. c[1] = a[1]
  BY <1>2, <1>3
<1> QED BY <1>1, <1>2, <1>4, <1>9, <1>10

\* The server takes the first thing the client has to say.
LEMMA AskedTail ==
    ASSUME NEW k, NEW u, Speaks(k, u), u # <<>>
    PROVE  /\ Asked(k, Tail(u)) = Tail(Asked(k, u)) /\ Asked(k, u) # <<>> /\ Asked(k, u)[1] = Head(u)
           /\ Speaks(k, Tail(u)) /\ Head(u) \in ClientMsg
<1>1. PICK t : t = ToSay(k)
  OBVIOUS
<1>2. t \in Seq(ClientMsg) /\ u \in Seq(ClientMsg)
  BY <1>1, ToSayType DEF Speaks
<1>3. /\ Tail(u \o t) = Tail(u) \o t /\ u \o t # <<>> /\ (u \o t)[1] = Head(u) /\ u[1] = Head(u)
      /\ Tail(u) \in Seq(ClientMsg) /\ Head(u) \in ClientMsg
  BY <1>2, TailConcat
<1>4. Speaks(k, Tail(u))
  BY <1>3 DEF Speaks
<1>5. CASE k.state = "DISCONNECTED"
  BY <1>3, <1>4, <1>5 DEF Asked
<1>6. CASE k.state # "DISCONNECTED"
  <2>1. Asked(k, u) = u \o t /\ Asked(k, Tail(u)) = Tail(u) \o t
    BY <1>1, <1>4, <1>6, AskedIs
  <2> QED BY ONLY <1>3, <1>4, <2>1
<1> QED BY <1>5, <1>6

\* An output of the client does not change what it has to say.
LEMMA AskedOutput ==
    ASSUME NEW k, NEW u, Speaks(k, u), k.state # "DISCONNECTED", NEW r, Carries(r.writer), r \in C!ClientType,
           r.state = k.state, NEW E \in Seq(ClientMsg), E \o ToSay(r) = ToSay(k)
    PROVE  Speaks(r, u \o E) /\ Asked(r, u \o E) = Asked(k, u)
<1>1. PICK x, t : x = ToSay(r) /\ t = ToSay(k)
  OBVIOUS
<1>2. x \in Seq(ClientMsg) /\ u \in Seq(ClientMsg) /\ E \o x = t
  BY <1>1, ToSayType DEF Speaks
<1>3. u \o E \in Seq(ClientMsg)
  BY <1>2, ConcatFacts
<1>4. Speaks(r, u \o E)
  BY <1>3 DEF Speaks
<1>5. Asked(r, u \o E) = (u \o E) \o x /\ Asked(k, u) = u \o t
  BY <1>1, <1>4, AskedIs
<1>6. (u \o E) \o x = u \o (E \o x)
  <2>1. u \in Seq(ClientMsg) /\ E \in Seq(ClientMsg) /\ x \in Seq(ClientMsg)
    BY <1>2
  <2>2. ASSUME NEW a \in Seq(ClientMsg), NEW b \in Seq(ClientMsg), NEW c \in Seq(ClientMsg)
        PROVE  (a \o b) \o c = a \o (b \o c)
    BY ONLY a \in Seq(ClientMsg), b \in Seq(ClientMsg), c \in Seq(ClientMsg), ConcatAssoc
  <2> QED BY ONLY <2>1, <2>2, Zenon
<1> QED BY ONLY <1>2, <1>4, <1>5, <1>6

-----------------------------------------------------------------------------
(***************************************************************************)
(* What the session still has to say, as its operations change it.         *)
(***************************************************************************)
\* A session and what it sent are of their types.
Tells(s, d) == SessionOK(s) /\ d \in Seq(ServerMsg)

\* What a session has to say is on the wire and, unless it has ended, in its
\* writer and queue.
LEMMA PlannedIs ==
    ASSUME NEW s, NEW d, Tells(s, d)
    PROVE  /\ Planned(s, d) \in Seq(ServerMsg) /\ Unsent(s) \in Seq(ServerMsg)
           /\ s.state = "DISCONNECTED" => Planned(s, d) = d
           /\ s.state # "DISCONNECTED" => Planned(s, d) = d \o Unsent(s)
<1>1. Unsent(s) \in Seq(ServerMsg) /\ d \in Seq(ServerMsg)
  BY UnsentType DEF Tells, SessionOK
<1>2. d \o Unsent(s) \in Seq(ServerMsg)
  BY <1>1, ConcatFacts
<1>3. Planned(s, d) = IF s.state = "DISCONNECTED" THEN d ELSE d \o Unsent(s)
  BY DEF Planned, Unsent
<1> QED BY <1>1, <1>2, <1>3

\* A message sent by the session is the last thing it has to say.
LEMMA PlannedAppend ==
    ASSUME NEW s, NEW d, Tells(s, d), NEW m \in ServerMsg, NEW r, Tells(r, d), Unsent(r) = Append(Unsent(s), m),
           s.state # "DISCONNECTED", r.state # "DISCONNECTED"
    PROVE  Planned(r, d) = Append(Planned(s, d), m)
<1>1. PICK x, y, P, R : x = Unsent(s) /\ y = Unsent(r) /\ P = Planned(s, d) /\ R = Planned(r, d)
  OBVIOUS
<1>2. x \in Seq(ServerMsg) /\ P = d \o x /\ R = d \o y /\ d \in Seq(ServerMsg) /\ y = Append(x, m)
  BY <1>1, PlannedIs DEF Tells
<1>3. d \o Append(x, m) = Append(d \o x, m)
  <2>1. d \in Seq(ServerMsg) /\ x \in Seq(ServerMsg) /\ m \in ServerMsg
    BY <1>2
  <2> QED BY ONLY <2>1, ConcatAppend
<1> QED BY ONLY <1>1, <1>2, <1>3

\* What is on the wire is the first part of what the session has to say.
LEMMA PlannedCut ==
    ASSUME NEW s, NEW d, Tells(s, d)
    PROVE  Thins(d, Planned(s, d), FALSE) /\ Count(d) <= Count(Planned(s, d))
<1>1. PICK t, a : t = Unsent(s) /\ a = Planned(s, d)
  OBVIOUS
<1>2. t \in Seq(ServerMsg) /\ d \in Seq(ServerMsg) /\ a \in Seq(ServerMsg) /\ (a = d \/ a = d \o t)
  BY <1>1, PlannedIs DEF Tells
<1>3. Thins(d, d, TRUE)
  BY <1>2, ThinsSelf
<1>4. <<>> \in Seq(ServerMsg) /\ d \o <<>> = d
  <2>1. d \in Seq(ServerMsg)
    BY <1>2
  <2> QED BY ONLY <2>1
<1>5. Thins(d, d \o t, FALSE)
  <2>1. d \in Seq(ServerMsg) /\ t \in Seq(ServerMsg)
    BY <1>2
  <2> QED BY ONLY <1>3, <2>1, ThinsPrefix
<1>6. Thins(d, d \o <<>>, FALSE)
  <2>1. d \in Seq(ServerMsg) /\ <<>> \in Seq(ServerMsg)
    BY <1>2
  <2> QED BY ONLY <1>3, <2>1, ThinsPrefix
<1>7. Thins(d, a, FALSE)
  BY ONLY <1>2, <1>4, <1>5, <1>6
<1>8. Count(d) <= Count(a)
  <2>1. d \in Seq(ServerMsg) /\ a \in Seq(ServerMsg)
    BY <1>2
  <2> QED BY ONLY <1>7, <2>1, ThinsCount
<1> QED BY <1>1, <1>7, <1>8

\* The client takes the first thing the session has to say.
LEMMA PlannedTail ==
    ASSUME NEW s, NEW d, Tells(s, d), d # <<>>
    PROVE  /\ Planned(s, Tail(d)) = Tail(Planned(s, d)) /\ Planned(s, d) # <<>> /\ Planned(s, d)[1] = Head(d)
           /\ Tells(s, Tail(d)) /\ Head(d) \in ServerMsg
<1>1. PICK t : t = Unsent(s)
  OBVIOUS
<1>2. t \in Seq(ServerMsg) /\ d \in Seq(ServerMsg)
  BY <1>1, PlannedIs DEF Tells
<1>3. /\ Tail(d \o t) = Tail(d) \o t /\ d \o t # <<>> /\ (d \o t)[1] = Head(d) /\ d[1] = Head(d)
      /\ Tail(d) \in Seq(ServerMsg) /\ Head(d) \in ServerMsg
  BY <1>2, TailConcat
<1>4. Tells(s, Tail(d))
  BY <1>3 DEF Tells
<1>5. CASE s.state = "DISCONNECTED"
  BY <1>3, <1>4, <1>5 DEF Planned
<1>6. CASE s.state # "DISCONNECTED"
  <2>1. Planned(s, d) = d \o t /\ Planned(s, Tail(d)) = Tail(d) \o t
    BY <1>1, <1>4, <1>6, PlannedIs
  <2> QED BY ONLY <1>3, <1>4, <2>1
<1> QED BY <1>5, <1>6

\* E, and X after it, replace R after d.
RestOf(d, E, X, R, whole) ==
    /\ (d \o E) \o X = d \o (E \o X) /\ d \o E \in Seq(ServerMsg)
    /\ Count((d \o E) \o X) = Count(d) + Count(E \o X) /\ Count(d \o E) = Count(d) + Count(E)
    /\ Count(d \o R) = Count(d) + Count(R)
    /\ Thins(E \o X, R, whole) => Thins((d \o E) \o X, d \o R, whole)
    /\ Thins(E, R, whole) => Thins(d \o E, d \o R, whole)

\* What an output leaves unsent follows what is on the wire.
LEMMA PlannedRest ==
    ASSUME NEW d \in Seq(ServerMsg), NEW E \in Seq(ServerMsg), NEW X \in Seq(ServerMsg), NEW R \in Seq(ServerMsg),
           NEW whole \in BOOLEAN
    PROVE  RestOf(d, E, X, R, whole)
<1>1. PICK Y, Z : Y = E \o X /\ Z = (d \o E) \o X
  OBVIOUS
<1>2. Y \in Seq(ServerMsg)
  BY <1>1, ConcatFacts
<1>3. Z = d \o Y
  <2>1. d \in Seq(ServerMsg) /\ E \in Seq(ServerMsg) /\ X \in Seq(ServerMsg)
    OBVIOUS
  <2>2. (d \o E) \o X = d \o (E \o X)
    BY ONLY <2>1, ConcatAssoc
  <2> QED BY ONLY <1>1, <2>2
<1>4. d \o E \in Seq(ServerMsg)
  BY ConcatFacts
<1>5. Count(d \o Y) = Count(d) + Count(Y) /\ Count(d \o E) = Count(d) + Count(E) /\ Count(d \o R) = Count(d) + Count(R)
  BY <1>2, CountConcat
<1>6. Thins(d, d, TRUE)
  BY ThinsSelf
<1>7. ASSUME Thins(Y, R, whole) PROVE Thins(d \o Y, d \o R, whole)
  BY <1>2, <1>6, <1>7, ThinsConcat
<1>8. ASSUME Thins(E, R, whole) PROVE Thins(d \o E, d \o R, whole)
  BY <1>6, <1>8, ThinsConcat
<1> QED BY ONLY <1>1, <1>3, <1>4, <1>5, <1>7, <1>8 DEF RestOf

-----------------------------------------------------------------------------
(***************************************************************************)
(* Requests and their answers.  While a connected client expects an answer *)
(* there is one request or answer between the two ends, or, when the       *)
(* session is over, at most the answer.                                    *)
(***************************************************************************)
Owed(ke) == IF ke = "SERVER_DATA_STATUS" THEN 1 ELSE 0

\* As many requests and answers are on their way as the client waits for.
Requests(ks, ke, ss, U, P) ==
    /\ ks = "OPENING" => Count(U) = 0 /\ Count(P) = 0
    /\ ks = "CONNECTED" => IF ss = "DISCONNECTED" THEN Count(P) <= Owed(ke)
                           ELSE Count(U) + Count(P) = Owed(ke)

\* The count of a message.
One(m) == IF m.type \in Transit THEN 1 ELSE 0

\* The count with one more message.
LEMMA CountAppend ==
    ASSUME NEW M, NEW q \in Seq(M), NEW m \in M
    PROVE  Count(Append(q, m)) = Count(q) + One(m) /\ Count(q) \in Nat /\ Append(q, m) \in Seq(M)
<1>1. <<m>> \in Seq(M) /\ Append(q, m) = q \o <<m>> /\ Append(q, m) \in Seq(M)
  OBVIOUS
<1>2. Count(q \o <<m>>) = Count(q) + Count(<<m>>)
  BY <1>1, CountConcat
<1>3. Count(<<m>>) = One(m)
  BY CountOne DEF One
<1>4. Count(q) \in Nat
  BY CountType
<1> QED BY ONLY <1>1, <1>2, <1>3, <1>4

\* The count without the first message.
LEMMA CountTail ==
    ASSUME NEW M, NEW q \in Seq(M), q # <<>>
    PROVE  /\ Count(q) = Count(Tail(q)) + One(q[1]) /\ Count(q) \in Nat /\ Count(Tail(q)) \in Nat
           /\ Tail(q) \in Seq(M) /\ q[1] \in M
<1>1. PICK h, t : h = q[1] /\ t = Tail(q)
  OBVIOUS
<1>2. h \in M /\ t \in Seq(M)
  BY <1>1
<1>3. q = <<h>> \o t /\ <<h>> \in Seq(M)
  BY <1>1, <1>2
<1>4. Count(<<h>> \o t) = Count(<<h>>) + Count(t)
  BY <1>2, <1>3, CountConcat
<1>5. Count(<<h>>) = One(h)
  BY CountOne DEF One
<1>6. Count(q) \in Nat /\ Count(t) \in Nat
  BY <1>2, CountType
<1>7. One(h) \in Nat
  BY DEF One
<1>8. Count(q) = Count(<<h>>) + Count(t)
  BY ONLY <1>3, <1>4
<1>9. Count(q) = Count(t) + One(h)
  BY ONLY <1>5, <1>6, <1>7, <1>8
<1> QED BY ONLY <1>1, <1>2, <1>6, <1>9

\* The balance does not mind data left out; answers may be lost when the
\* session ends.
LEMMA RequestsThin ==
    ASSUME NEW U \in Seq(ClientMsg), NEW P \in Seq(ServerMsg), NEW Q \in Seq(ServerMsg), NEW ks, NEW ke, NEW ss,
           Requests(ks, ke, ss, U, P), NEW after,
           (after = ss /\ Count(Q) = Count(P)) \/ (after = "DISCONNECTED" /\ Count(Q) <= Count(P))
    PROVE  Requests(ks, ke, after, U, Q)
<1>1. Count(U) \in Nat /\ Count(P) \in Nat /\ Count(Q) \in Nat /\ Owed(ke) \in Nat
  BY CountType DEF Owed
<1> QED BY <1>1 DEF Requests

\* A client that waits for nothing may ask.
LEMMA RequestsAsk ==
    ASSUME NEW U \in Seq(ClientMsg), NEW P \in Seq(ServerMsg), NEW ss,
           Requests("CONNECTED", "NONE", ss, U, P), NEW m \in ClientMsg, m.type = "REQUEST_DATA"
    PROVE  Requests("CONNECTED", "SERVER_DATA_STATUS", ss, Append(U, m), P)
<1>1. Count(U) \in Nat /\ Count(P) \in Nat /\ Count(Append(U, m)) = Count(U) + One(m)
  BY CountType, CountAppend
<1>2. One(m) = 1 /\ Owed("NONE") = 0 /\ Owed("SERVER_DATA_STATUS") = 1
  BY DEF One, Owed, Transit
<1> QED BY <1>1, <1>2 DEF Requests

\* The HELLO of the client is no request.
LEMMA RequestsSay ==
    ASSUME NEW U \in Seq(ClientMsg), NEW P \in Seq(ServerMsg), NEW ke, NEW ss, NEW expects,
           Requests("OPENING", ke, ss, U, P), NEW m \in ClientMsg, m.type = "HELLO"
    PROVE  Requests("OPENING", expects, ss, Append(U, m), P)
<1>1. Count(U) \in Nat /\ Count(Append(U, m)) = Count(U) + One(m)
  BY CountType, CountAppend
<1>2. One(m) = 0
  BY DEF One, Transit
<1> QED BY <1>1, <1>2 DEF Requests

\* The handshake of the server is no answer.
LEMMA RequestsHello ==
    ASSUME NEW U \in Seq(ClientMsg), NEW P \in Seq(ServerMsg), P # <<>>, NEW ke, NEW ss,
           Requests("OPENING", ke, ss, U, P), NEW expects
    PROVE  Requests("CONNECTED", "NONE", ss, U, Tail(P)) /\ Requests("OPENING", expects, ss, U, Tail(P))
<1>1. Count(P) = Count(Tail(P)) + One(P[1]) /\ Count(Tail(P)) \in Nat
  BY CountTail
<1>2. One(P[1]) \in Nat /\ Owed("NONE") = 0
  BY DEF One, Owed
<1> QED BY <1>1, <1>2 DEF Requests

\* A client that takes an answer had asked, and waits for no other.
LEMMA RequestsTake ==
    ASSUME NEW U \in Seq(ClientMsg), NEW P \in Seq(ServerMsg), P # <<>>, NEW ss, NEW ke,
           Requests("CONNECTED", ke, ss, U, P)
    PROVE  /\ P[1].type # "DATA_STATUS" => Requests("CONNECTED", ke, ss, U, Tail(P))
           /\ P[1].type = "DATA_STATUS" => ke = "SERVER_DATA_STATUS" /\ Requests("CONNECTED", "NONE", ss, U, Tail(P))
<1>1. Count(P) = Count(Tail(P)) + One(P[1]) /\ Count(Tail(P)) \in Nat /\ P[1] \in ServerMsg /\ Count(U) \in Nat
  BY CountTail, CountType
<1>2. P[1].type # "REQUEST_DATA"
  BY <1>1, MessageFields
<1>3. One(P[1]) = IF P[1].type = "DATA_STATUS" THEN 1 ELSE 0
  BY <1>2 DEF One, Transit
<1>4. Owed("NONE") = 0 /\ Owed(ke) = (IF ke = "SERVER_DATA_STATUS" THEN 1 ELSE 0)
  BY DEF Owed
<1> QED BY <1>1, <1>3, <1>4 DEF Requests

\* The session takes a request and gives its answer: then no other answer was
\* on its way.
LEMMA RequestsPop ==
    ASSUME NEW U \in Seq(ClientMsg), U # <<>>, NEW P \in Seq(ServerMsg), NEW ks, NEW ss, NEW ke,
           Requests(ks, ke, ss, U, P)
    PROVE  /\ Requests(ks, ke, "DISCONNECTED", Tail(U), P)
           /\ ss # "DISCONNECTED" =>
                \A m \in ServerMsg :
                    \A after \in {"OPENING", "CONNECTED"} :
                        One(m) = One(U[1]) => Requests(ks, ke, after, Tail(U), Append(P, m))
           /\ ss # "DISCONNECTED" /\ U[1].type = "REQUEST_DATA" /\ ks \in {"OPENING", "CONNECTED"} =>
                Statuses(P) = {}
<1>1. /\ Count(U) = Count(Tail(U)) + One(U[1]) /\ Count(Tail(U)) \in Nat /\ U[1] \in ClientMsg
      /\ Count(U) \in Nat /\ Count(P) \in Nat
  BY CountTail, CountType
<1>2. One(U[1]) \in {0, 1} /\ Owed(ke) \in {0, 1}
  BY DEF One, Owed
<1>3. Requests(ks, ke, "DISCONNECTED", Tail(U), P)
  BY <1>1, <1>2 DEF Requests
<1>4. ASSUME ss # "DISCONNECTED", NEW m \in ServerMsg, NEW after \in {"OPENING", "CONNECTED"}, One(m) = One(U[1])
      PROVE  Requests(ks, ke, after, Tail(U), Append(P, m))
  <2>1. Count(Append(P, m)) = Count(P) + One(m)
    BY CountAppend
  <2>2. PICK a, b, x, y, e : a = Count(U) /\ b = Count(P) /\ x = Count(Tail(U)) /\ y = Count(Append(P, m)) /\ e = One(m)
    OBVIOUS
  <2>3. /\ a \in Nat /\ b \in Nat /\ x \in Nat /\ e \in {0, 1} /\ a = x + e /\ y = b + e
        /\ ks = "OPENING" => a = 0 /\ b = 0
        /\ ks = "CONNECTED" => a + b = Owed(ke)
    BY <1>1, <1>2, <1>4, <2>1, <2>2 DEF Requests
  <2>4. /\ ks = "OPENING" => x = 0 /\ y = 0
        /\ ks = "CONNECTED" => x + y = Owed(ke)
    BY ONLY <1>2, <2>3
  <2> QED BY <1>4, <2>2, <2>4 DEF Requests
<1>5. ASSUME ss # "DISCONNECTED", U[1].type = "REQUEST_DATA", ks \in {"OPENING", "CONNECTED"}
      PROVE  Statuses(P) = {}
  <2>1. One(U[1]) = 1
    BY <1>5 DEF One, Transit
  <2>2. Count(P) = 0
    BY <1>1, <1>2, <1>5, <2>1 DEF Requests
  <2>3. \A i \in 1..Len(P) : P[i].type \notin Transit
    BY <2>2, CountType
  <2> QED BY <2>3 DEF Statuses, Transit
<1> QED BY <1>3, <1>4, <1>5

\* Ticks and data are no answers.
LEMMA RequestsMore ==
    ASSUME NEW U \in Seq(ClientMsg), NEW P \in Seq(ServerMsg), NEW ks, NEW ke, NEW ss,
           Requests(ks, ke, ss, U, P), NEW m \in ServerMsg, m.type \in {"UPDATE_TICK", "DATA"}
    PROVE  Requests(ks, ke, ss, U, Append(P, m)) /\ Append(P, m) \in Seq(ServerMsg)
<1>1. Count(Append(P, m)) = Count(P) + One(m) /\ Count(P) \in Nat /\ Append(P, m) \in Seq(ServerMsg)
  BY CountAppend
<1>2. One(m) = 0
  BY DEF One, Transit
<1>3. Count(Append(P, m)) = Count(P)
  BY <1>1, <1>2
<1> QED BY <1>1, <1>3 DEF Requests

-----------------------------------------------------------------------------
(***************************************************************************)
(* What always holds of a connection: a client k, its session s, and the   *)
(* messages d to the client and u to the server on the wire.  Before the   *)
(* server has accepted the connection nothing was said, and before the     *)
(* client is connected it has received no data.                            *)
(***************************************************************************)
Fresh(k) ==
    /\ k.tick = 0 /\ k.currentTimestamp = 0 /\ k.remainingData = FALSE /\ k.isSynchronized = FALSE
    /\ k.dataFlags = FALSE /\ k.dataUpdateFlags = FALSE

\* Nothing was said yet: the connection is not accepted.
Silent(k, s, d, u) ==
    /\ s.state = "DISCONNECTED" /\ d = <<>> /\ u = <<>> /\ k.sendQueue = <<>> /\ k.writer.kind = "NONE"
    /\ k.state \in {"DISCONNECTED", "OPENING"}
    /\ k.state = "OPENING" => k.expectedMsg = "SERVER_BANNER"

\* How far the connection is, by the states of its two ends.
Linked(k, s, d, u, lk) ==
    /\ lk \in {"none", "dialing", "open"}
    /\ lk # "open" => Silent(k, s, d, u)
    /\ lk = "none" => k.state = "DISCONNECTED"
    /\ lk = "none" \/ k.state = "OPENING" => Fresh(k)
    /\ k.state = "OPENING" => k.expectedMsg \in {"SERVER_BANNER", "SERVER_HELLO"}
    /\ k.state = "CONNECTED" => k.expectedMsg \in {"NONE", "SERVER_DATA_STATUS"}

\* What holds of every connection, whatever was replaced before it was sent.
Base(k, s, d, u, lk) ==
    /\ Speaks(k, u) /\ Tells(s, d) /\ Linked(k, s, d, u, lk)
    /\ Requests(k.state, k.expectedMsg, s.state, Asked(k, u), Planned(s, d))

\* A client is fresh by its flags and its data.
LEMMA FreshSame ==
    ASSUME NEW k, Fresh(k), NEW r, SameFlags(r, k), SameData(r, k)
    PROVE  Fresh(r)
BY DEF Fresh, SameFlags, SameData

\* A client that asks for data keeps the balance of requests.
LEMMA AskBase ==
    ASSUME NEW k, NEW s, NEW d, NEW u, NEW lk, Base(k, s, d, u, lk), NEW r, Asks(r, k)
    PROVE  Base(r, s, d, u, lk)
<1>1. Speaks(k, u) /\ Tells(s, d) /\ Linked(k, s, d, u, lk)
      /\ Requests(k.state, k.expectedMsg, s.state, Asked(k, u), Planned(s, d))
  BY DEF Base
<1>2. /\ r \in C!ClientType /\ SameFlags(r, k) /\ SameData(r, k) /\ r.state = k.state /\ r.writer = k.writer
      /\ \/ r.expectedMsg = k.expectedMsg /\ r.sendQueue = k.sendQueue
         \/ /\ k.state = "CONNECTED" /\ k.expectedMsg = "NONE" /\ r.expectedMsg = "SERVER_DATA_STATUS"
            /\ \E m \in ClientMsg : m.type = "REQUEST_DATA" /\ r.sendQueue = Append(k.sendQueue, m)
  BY DEF Asks
<1>3. Speaks(r, u)
  BY <1>1, <1>2 DEF Speaks
<1>4. CASE r.expectedMsg = k.expectedMsg /\ r.sendQueue = k.sendQueue
  <2>1. Linked(r, s, d, u, lk)
    BY <1>1, <1>2, <1>4, FreshSame DEF Linked, Silent
  <2>2. Asked(r, u) = Asked(k, u)
    BY <1>2, <1>4 DEF Asked
  <2> QED BY <1>1, <1>2, <1>3, <1>4, <2>1, <2>2 DEF Base
<1>5. CASE /\ k.state = "CONNECTED" /\ k.expectedMsg = "NONE" /\ r.expectedMsg = "SERVER_DATA_STATUS"
           /\ \E m \in ClientMsg : m.type = "REQUEST_DATA" /\ r.sendQueue = Append(k.sendQueue, m)
  <2>1. PICK m \in ClientMsg : m.type = "REQUEST_DATA" /\ r.sendQueue = Append(k.sendQueue, m)
    BY <1>5
  <2>2. Linked(r, s, d, u, lk)
    BY <1>1, <1>2, <1>5 DEF Linked, Silent
  <2>3. Asked(r, u) = Append(Asked(k, u), m)
    BY <1>1, <1>2, <1>5, <2>1, AskedAppend
  <2>4. PICK U, P : U = Asked(k, u) /\ P = Planned(s, d)
    OBVIOUS
  <2>5. U \in Seq(ClientMsg) /\ P \in Seq(ServerMsg) /\ Requests("CONNECTED", "NONE", s.state, U, P)
    BY <1>1, <1>5, <2>4, AskedIs, PlannedIs
  <2>6. Requests("CONNECTED", "SERVER_DATA_STATUS", s.state, Append(U, m), P)
    BY <2>1, <2>5, RequestsAsk
  <2> QED BY <1>1, <1>2, <1>3, <1>5, <2>2, <2>3, <2>4, <2>6 DEF Base
<1> QED BY <1>2, <1>4, <1>5

\* A client that is leaving owes nothing.
LEMMA QuietBase ==
    ASSUME NEW k, NEW s, NEW d, NEW u, NEW lk, NEW r, NEW e,
           Speaks(k, u), Tells(s, e), Linked(k, s, d, u, lk), e = d \/ lk = "open",
           r \in C!ClientType, r.writer = k.writer, r.state \notin {"OPENING", "CONNECTED"},
           r.sendQueue = <<>> \/ lk = "open", r.state = "DISCONNECTED" \/ lk = "open",
           lk = "none" => Fresh(r)
    PROVE  Base(r, s, e, u, lk)
<1>1. Speaks(r, u)
  BY DEF Speaks
<1>2. Linked(r, s, e, u, lk)
  BY DEF Linked, Silent
<1>3. Requests(r.state, r.expectedMsg, s.state, Asked(r, u), Planned(s, e))
  BY DEF Requests
<1> QED BY <1>1, <1>2, <1>3 DEF Base

\* A client that closes its session owes nothing.
LEMMA CloseBase ==
    ASSUME NEW k, NEW s, NEW d, NEW u, NEW lk, Base(k, s, d, u, lk), k.state # "DISCONNECTED",
           NEW e, Tells(s, e), e = d \/ lk = "open", NEW r, NEW reason, Closed(r, k, reason)
    PROVE  Base(r, s, e, u, lk)
<1>1. Speaks(k, u) /\ Linked(k, s, d, u, lk) /\ lk # "none"
  BY DEF Base, Linked
<1>2. r \in C!ClientType /\ r.writer = k.writer /\ r.state = "DISCONNECTED" /\ r.sendQueue = <<>>
  BY DEF Closed
<1> QED BY <1>1, <1>2, QuietBase

\* A client that says farewell owes nothing.
LEMMA LeaveBase ==
    ASSUME NEW k, NEW s, NEW d, NEW u, NEW lk, Base(k, s, d, u, lk), k.state = "CONNECTED", NEW r, Leaves(r, k)
    PROVE  Base(r, s, d, u, lk)
<1>1. Speaks(k, u) /\ Tells(s, d) /\ Linked(k, s, d, u, lk) /\ lk = "open"
  BY DEF Base, Linked, Silent
<1>2. r \in C!ClientType /\ r.writer = k.writer /\ r.state = "CLOSING"
  BY DEF Leaves
<1> QED BY <1>1, <1>2, QuietBase

\* Nothing is to be said on a connection that is not accepted.
LEMMA SilentAsked ==
    ASSUME NEW k, NEW s, NEW d, NEW u, Silent(k, s, d, u)
    PROVE  Asked(k, u) = <<>> /\ Planned(s, d) = <<>>
<1>1. Undelivered(k.writer) = <<>>
  BY DEF Silent, Undelivered
<1>2. Asked(k, u) = <<>>
  <2>1. Asked(k, u) = IF k.state = "DISCONNECTED" THEN <<>> ELSE <<>> \o (<<>> \o <<>>)
    BY <1>1 DEF Asked, Silent
  <2> QED BY ONLY <2>1
<1> QED BY <1>2 DEF Planned, Silent

\* connect() starts a handshake.
LEMMA ConnectBase ==
    ASSUME NEW k, NEW s, NEW d, NEW u, Base(k, s, d, u, "none"), NEW r, r = C!connect(k)
    PROVE  Base(r, s, d, u, "dialing") /\ Silent(r, s, d, u)
<1>1. Speaks(k, u) /\ Tells(s, d) /\ Linked(k, s, d, u, "none") /\ k \in C!ClientType /\ k.state = "DISCONNECTED"
  BY DEF Base, Speaks, Linked
<1>2. /\ r \in C!ClientType /\ SameFlags(r, k) /\ SameData(r, k)
      /\ r.state = "OPENING" /\ r.expectedMsg = "SERVER_BANNER" /\ r.sendQueue = k.sendQueue
      /\ r.writer = k.writer /\ r.reason = k.reason
  BY <1>1, ClientConnects
<1>3. Speaks(r, u)
  BY <1>1, <1>2 DEF Speaks
<1>4. Silent(r, s, d, u) /\ Fresh(k)
  BY <1>1, <1>2 DEF Linked, Silent
<1>5. Fresh(r)
  BY <1>2, <1>4, FreshSame
<1>6. Linked(r, s, d, u, "dialing")
  BY <1>2, <1>4, <1>5 DEF Linked
<1>7. Asked(r, u) = <<>> /\ Planned(s, d) = <<>>
  BY <1>4, SilentAsked
<1>8. Requests(r.state, r.expectedMsg, s.state, Asked(r, u), Planned(s, d))
  BY <1>2, <1>7, CountEmpty DEF Requests
<1> QED BY <1>1, <1>3, <1>4, <1>6, <1>8 DEF Base

\* An output of the client changes what is on the wire, not what it has to say.
LEMMA SayBase ==
    ASSUME NEW k, NEW s, NEW d, NEW u, NEW lk, Base(k, s, d, u, lk), k.state # "DISCONNECTED",
           NEW p, p = C!Pending(k), NEW n \in 0..Len(p), NEW pos \in {1, 2}, C!CanSend(p, n, pos),
           NEW r, r = C!HandleOutput(k, n, pos), NEW E, E = C!Emitted(p, n, pos, p[1].msg)
    PROVE  /\ Base(r, s, d, u \o E, lk) /\ Asked(r, u \o E) = Asked(k, u)
           /\ r.state = k.state /\ r.expectedMsg = k.expectedMsg /\ r.reason = k.reason
           /\ SameFlags(r, k) /\ SameData(r, k)
<1>1. /\ Speaks(k, u) /\ Tells(s, d) /\ Linked(k, s, d, u, lk)
      /\ Requests(k.state, k.expectedMsg, s.state, Asked(k, u), Planned(s, d))
      /\ k \in C!ClientType /\ Carries(k.writer)
  BY DEF Base, Speaks
<1>2. PICK l, w, q : /\ l = LoadedOf(n, Busy(k.writer), Len(k.sendQueue)) /\ w = C!doSend(p, n, pos)
                     /\ q = SubSeq(k.sendQueue, l + 1, Len(k.sendQueue))
  OBVIOUS
<1>3. Talks(r, k, q, w, k.expectedMsg)
  BY <1>1, <1>2, ClientOutputIs
<1>4. Carries(w) /\ (n = Len(p) => w.kind = "NONE")
  BY <1>1, <1>2, ClientNextWriter
<1>5. E \in Seq(ClientMsg) /\ E \o ToSay(r) = ToSay(k)
  <2>1. PICK R, X : R = ToSay(k) /\ X = ToSay(r)
    OBVIOUS
  <2>2. k \in C!ClientType /\ Carries(k.writer)
    BY <1>1
  <2>3. E \in Seq(ClientMsg) /\ E \o X = R
    <3>1. SaidOf(E, X, R)
      BY <2>1, <2>2, ClientOutputs
    <3> QED BY ONLY <3>1 DEF SaidOf
  <2> QED BY ONLY <2>1, <2>3
<1>6. /\ r \in C!ClientType /\ SameFlags(r, k) /\ SameData(r, k) /\ r.state = k.state /\ r.reason = k.reason
      /\ r.sendQueue = q /\ r.writer = w /\ r.expectedMsg = k.expectedMsg
  BY <1>3 DEF Talks
<1>7. Speaks(r, u \o E) /\ Asked(r, u \o E) = Asked(k, u)
  <2>1. Speaks(k, u) /\ k.state # "DISCONNECTED" /\ Carries(r.writer) /\ r \in C!ClientType /\ r.state = k.state
    BY <1>1, <1>4, <1>6
  <2> QED BY ONLY <1>5, <2>1, AskedOutput
<1>8. Linked(r, s, d, u \o E, lk)
  <2>1. CASE lk = "open"
    BY <1>1, <1>6, <2>1, FreshSame DEF Linked
  <2>2. CASE lk # "open"
    <3>1. Silent(k, s, d, u) /\ k.sendQueue = <<>> /\ k.writer.kind = "NONE" /\ u = <<>>
      BY <1>1, <2>2 DEF Linked, Silent
    <3>2. Len(p) = 0
      <4>1. Len(p) = Busy(k.writer) + Len(k.sendQueue)
        BY <1>1, ClientPending
      <4> QED BY <3>1, <4>1 DEF Busy
    <3>3. n = Len(p)
      BY <3>2
    <3>4. w.kind = "NONE" /\ q = <<>>
      <4>1. l = 0
        BY <1>2, <3>1, <3>2, <3>3 DEF LoadedOf, Busy
      <4> QED BY <1>2, <1>4, <3>1, <3>3, <4>1
    <3>5. E = <<>>
      <4>1. Delivered(p, n, pos) = 0
        BY <3>2, <3>3 DEF Delivered
      <4> QED BY <4>1, ClientEmitted, NothingEmitted
    <3>6. u \o E = <<>>
      BY ONLY <3>1, <3>5
    <3>7. Silent(r, s, d, u \o E)
      BY <1>6, <3>1, <3>4, <3>6 DEF Silent
    <3> QED BY <1>1, <1>6, <2>2, <3>7, FreshSame DEF Linked
  <2> QED BY <2>1, <2>2
<1>9. Base(r, s, d, u \o E, lk)
  BY <1>1, <1>6, <1>7, <1>8 DEF Base
<1> QED BY <1>6, <1>7, <1>9

-----------------------------------------------------------------------------
(***************************************************************************)
(* A message from the server.                                              *)
(***************************************************************************)
\* x is k after the message, but for what it asks for then.
LEMMA TakeBase ==
    ASSUME NEW k, NEW s, NEW e, NEW u, Speaks(k, u), Tells(s, e), NEW x, x \in C!ClientType, x.writer = k.writer,
           x.state = "OPENING" => Fresh(x) /\ x.expectedMsg \in {"SERVER_BANNER", "SERVER_HELLO"},
           x.state = "CONNECTED" => x.expectedMsg \in {"NONE", "SERVER_DATA_STATUS"},
           Requests(x.state, x.expectedMsg, s.state, Asked(x, u), Planned(s, e))
    PROVE  Base(x, s, e, u, "open")
BY DEF Base, Linked, Speaks

\* k is at m, the first of the messages d; the next ones are e.
At(k, s, d, u, lk, m, e) ==
    Base(k, s, d, u, lk) /\ k.state # "DISCONNECTED" /\ d # <<>> /\ m = Head(d) /\ e = Tail(d)

\* What is known when the client takes the message m, e being left on the wire.
LEMMA AtFacts ==
    ASSUME NEW k, NEW s, NEW d, NEW u, NEW lk, NEW m, NEW e, At(k, s, d, u, lk, m, e),
           NEW P, P = Planned(s, d), NEW U, U = Asked(k, u)
    PROVE  /\ lk = "open" /\ Tells(s, e) /\ Speaks(k, u) /\ k \in C!ClientType /\ m \in ServerMsg
           /\ P \in Seq(ServerMsg) /\ U \in Seq(ClientMsg) /\ P # <<>> /\ P[1] = m /\ Planned(s, e) = Tail(P)
           /\ Requests(k.state, k.expectedMsg, s.state, U, P)
           /\ k.state = "OPENING" => Fresh(k) /\ k.expectedMsg \in {"SERVER_BANNER", "SERVER_HELLO"}
           /\ k.state = "CONNECTED" => k.expectedMsg \in {"NONE", "SERVER_DATA_STATUS"}
           /\ k.state \in {"OPENING", "CONNECTED", "CLOSING"}
<1>1. /\ Speaks(k, u) /\ Tells(s, d) /\ Linked(k, s, d, u, lk) /\ d # <<>> /\ k \in C!ClientType
      /\ Requests(k.state, k.expectedMsg, s.state, U, P) /\ e = Tail(d) /\ m = Head(d) /\ k.state # "DISCONNECTED"
  BY DEF At, Base, Speaks
<1>2. Planned(s, e) = Tail(P) /\ P # <<>> /\ P[1] = m /\ Tells(s, e) /\ m \in ServerMsg
  BY <1>1, PlannedTail
<1>3. P \in Seq(ServerMsg) /\ U \in Seq(ClientMsg)
  BY <1>1, AskedIs, PlannedIs
<1>4. lk = "open"
  BY <1>1 DEF Linked, Silent
<1>5. k.state \in {"OPENING", "CONNECTED", "CLOSING"}
  BY <1>1, ClientFields DEF ESessionState
<1> QED BY <1>1, <1>2, <1>3, <1>4, <1>5 DEF Linked

\* Data, and all messages when it is about to leave, do not change the balance
\* of the client.
LEMMA IgnoreBase ==
    ASSUME NEW k, NEW s, NEW d, NEW u, NEW lk, NEW m, NEW e, At(k, s, d, u, lk, m, e),
           k.state = "CLOSING" \/ (k.state = "CONNECTED" /\ m.type = "DATA")
    PROVE  Base(k, s, e, u, lk)
<1>1. PICK P, U : P = Planned(s, d) /\ U = Asked(k, u)
  OBVIOUS
<1>2. /\ lk = "open" /\ Tells(s, e) /\ Speaks(k, u) /\ k \in C!ClientType /\ m \in ServerMsg
      /\ P \in Seq(ServerMsg) /\ U \in Seq(ClientMsg) /\ P # <<>> /\ P[1] = m /\ Planned(s, e) = Tail(P)
      /\ Requests(k.state, k.expectedMsg, s.state, U, P)
      /\ k.state = "CONNECTED" => k.expectedMsg \in {"NONE", "SERVER_DATA_STATUS"}
  BY <1>1, AtFacts
<1>3. Requests(k.state, k.expectedMsg, s.state, U, Tail(P))
  <2>1. CASE k.state = "CLOSING"
    BY <2>1 DEF Requests
  <2>2. CASE k.state = "CONNECTED" /\ m.type = "DATA"
    BY <1>2, <2>2, RequestsTake
  <2> QED BY <2>1, <2>2
<1> QED BY <1>1, <1>2, <1>3, TakeBase

\* The client answers the BANNER with its HELLO.
LEMMA BannerBase ==
    ASSUME NEW k, NEW s, NEW d, NEW u, NEW lk, NEW m, NEW e, At(k, s, d, u, lk, m, e), k.state = "OPENING",
           NEW r, Talks(r, k, Append(k.sendQueue, ClientMsgHello), k.writer, "SERVER_HELLO")
    PROVE  Base(r, s, e, u, lk) /\ Asked(r, u) = Append(Asked(k, u), ClientMsgHello)
<1>1. PICK P, U : P = Planned(s, d) /\ U = Asked(k, u)
  OBVIOUS
<1>2. /\ lk = "open" /\ Tells(s, e) /\ Speaks(k, u)
      /\ P \in Seq(ServerMsg) /\ U \in Seq(ClientMsg) /\ P # <<>> /\ Planned(s, e) = Tail(P)
      /\ Requests("OPENING", k.expectedMsg, s.state, U, P) /\ Fresh(k)
  BY <1>1, AtFacts
<1>3. ClientMsgHello \in ClientMsg /\ ClientMsgHello.type = "HELLO"
  BY Vocabulary
<1>4. /\ r \in C!ClientType /\ r.writer = k.writer /\ r.state = "OPENING" /\ r.expectedMsg = "SERVER_HELLO"
      /\ r.sendQueue = Append(k.sendQueue, ClientMsgHello) /\ SameFlags(r, k) /\ SameData(r, k)
  BY DEF Talks
<1>5. Asked(r, u) = Append(U, ClientMsgHello)
  BY <1>1, <1>2, <1>3, <1>4, AskedAppend
<1>6. Requests("OPENING", k.expectedMsg, s.state, U, Tail(P)) /\ Tail(P) \in Seq(ServerMsg)
  BY <1>2, RequestsHello
<1>7. Requests("OPENING", "SERVER_HELLO", s.state, Append(U, ClientMsgHello), Tail(P))
  BY <1>2, <1>3, <1>6, RequestsSay
<1>8. Fresh(r)
  BY <1>2, <1>4, FreshSame
<1> QED BY <1>1, <1>2, <1>4, <1>5, <1>7, <1>8, TakeBase

\* The HELLO of the server opens the client's session.
LEMMA HelloBase ==
    ASSUME NEW k, NEW s, NEW d, NEW u, NEW lk, NEW m, NEW e, At(k, s, d, u, lk, m, e), k.state = "OPENING",
           NEW x, x \in C!ClientType, x.state = "CONNECTED", x.expectedMsg = "NONE",
           x.sendQueue = k.sendQueue, x.writer = k.writer
    PROVE  Base(x, s, e, u, lk) /\ Asked(x, u) = Asked(k, u)
<1>1. PICK P, U : P = Planned(s, d) /\ U = Asked(k, u)
  OBVIOUS
<1>2. /\ lk = "open" /\ Tells(s, e) /\ Speaks(k, u)
      /\ P \in Seq(ServerMsg) /\ U \in Seq(ClientMsg) /\ P # <<>> /\ Planned(s, e) = Tail(P)
      /\ Requests("OPENING", k.expectedMsg, s.state, U, P)
  BY <1>1, AtFacts
<1>3. Requests("CONNECTED", "NONE", s.state, U, Tail(P))
  BY <1>2, RequestsHello
<1>4. Asked(x, u) = U
  BY <1>1, AskedSame
<1> QED BY <1>1, <1>2, <1>3, <1>4, TakeBase

\* A tick or data.
LEMMA MoreBase ==
    ASSUME NEW k, NEW s, NEW d, NEW u, NEW lk, NEW m, NEW e, At(k, s, d, u, lk, m, e), k.state = "CONNECTED",
           m.type # "DATA_STATUS", NEW x, x \in C!ClientType, SameTalk(x, k)
    PROVE  Base(x, s, e, u, lk) /\ Asked(x, u) = Asked(k, u)
<1>1. PICK P, U : P = Planned(s, d) /\ U = Asked(k, u)
  OBVIOUS
<1>2. /\ lk = "open" /\ Tells(s, e) /\ Speaks(k, u)
      /\ P \in Seq(ServerMsg) /\ U \in Seq(ClientMsg) /\ P # <<>> /\ P[1] = m /\ Planned(s, e) = Tail(P)
      /\ Requests("CONNECTED", k.expectedMsg, s.state, U, P)
      /\ k.expectedMsg \in {"NONE", "SERVER_DATA_STATUS"}
  BY <1>1, AtFacts
<1>3. Requests("CONNECTED", k.expectedMsg, s.state, U, Tail(P))
  BY <1>2, RequestsTake
<1>4. /\ x.state = "CONNECTED" /\ x.expectedMsg = k.expectedMsg /\ x.sendQueue = k.sendQueue /\ x.writer = k.writer
  BY DEF SameTalk
<1>5. Asked(x, u) = U
  BY <1>1, <1>4, AskedSame
<1> QED BY <1>1, <1>2, <1>3, <1>4, <1>5, TakeBase

\* The answer settles the client's request.
LEMMA StatusBase ==
    ASSUME NEW k, NEW s, NEW d, NEW u, NEW lk, NEW m, NEW e, At(k, s, d, u, lk, m, e), k.state = "CONNECTED",
           m.type = "DATA_STATUS", NEW x, x \in C!ClientType, x.state = "CONNECTED", x.expectedMsg = "NONE",
           x.sendQueue = k.sendQueue, x.writer = k.writer
    PROVE  Base(x, s, e, u, lk) /\ Asked(x, u) = Asked(k, u)
<1>1. PICK P, U : P = Planned(s, d) /\ U = Asked(k, u)
  OBVIOUS
<1>2. /\ lk = "open" /\ Tells(s, e) /\ Speaks(k, u)
      /\ P \in Seq(ServerMsg) /\ U \in Seq(ClientMsg) /\ P # <<>> /\ P[1] = m /\ Planned(s, e) = Tail(P)
      /\ Requests("CONNECTED", k.expectedMsg, s.state, U, P)
  BY <1>1, AtFacts
<1>3. Requests("CONNECTED", "NONE", s.state, U, Tail(P))
  BY <1>2, RequestsTake
<1>4. Asked(x, u) = U
  BY <1>1, AskedSame
<1> QED BY <1>1, <1>2, <1>3, <1>4, TakeBase

\* Whatever message the client takes, the balance is kept.
LEMMA MessageBase ==
    ASSUME NEW k, NEW s, NEW d, NEW u, NEW lk, NEW m, NEW e, At(k, s, d, u, lk, m, e),
           NEW r, MessageTaken(r, k, m)
    PROVE  Base(r, s, e, u, lk)
<1>1. PICK P, U : P = Planned(s, d) /\ U = Asked(k, u)
  OBVIOUS
<1>2. /\ lk = "open" /\ Tells(s, e) /\ Base(k, s, d, u, lk) /\ k.state \in {"OPENING", "CONNECTED", "CLOSING"}
      /\ k.state = "OPENING" => k.expectedMsg \in {"SERVER_BANNER", "SERVER_HELLO"}
  <2>1. Base(k, s, d, u, lk)
    BY DEF At
  <2> QED BY <1>1, <2>1, AtFacts
<1>3. ASSUME NEW reason, Closed(r, k, reason) PROVE Base(r, s, e, u, lk)
  BY <1>2, <1>3, CloseBase
<1>4. CASE C!Ignores(k, m) /\ r = k
  <2>1. k.state = "CLOSING"
    BY <1>4 DEF C!Ignores
  <2> QED BY <1>4, <2>1, IgnoreBase
<1>5. CASE Closed(r, k, "PROTOCOL_ERROR")
  BY <1>3, <1>5
<1>6. CASE /\ m.type = "BANNER" /\ k.state = "OPENING" /\ k.expectedMsg = "SERVER_BANNER"
           /\ \/ Closed(r, k, "VERSION_MISMATCH")
              \/ Talks(r, k, Append(k.sendQueue, ClientMsgHello), k.writer, "SERVER_HELLO")
  BY <1>3, <1>6, BannerBase
<1>7. CASE m.type = "HELLO" /\ k.state = "OPENING" /\ k.expectedMsg = "SERVER_HELLO" /\ HelloTaken(r, k)
  <2>1. PICK x : /\ Asks(r, x) /\ x \in C!ClientType
                 /\ x.state = "CONNECTED" /\ x.expectedMsg = "NONE" /\ x.sendQueue = k.sendQueue /\ x.writer = k.writer
    BY <1>7 DEF HelloTaken
  <2>2. Base(x, s, e, u, lk)
    BY <1>7, <2>1, HelloBase
  <2> QED BY <2>1, <2>2, AskBase
<1>8. CASE m.type = "UPDATE_TICK" /\ k.state = "CONNECTED" /\ TickTaken(r, k, m.timestamp, m.version)
  <2>1. PICK x : Asks(r, x) /\ x \in C!ClientType /\ SameTalk(x, k)
    BY <1>8 DEF TickTaken
  <2>2. Base(x, s, e, u, lk)
    BY <1>8, <2>1, MoreBase
  <2> QED BY <2>1, <2>2, AskBase
<1>9. CASE /\ m.type = "DATA_STATUS" /\ k.state # "CLOSING" /\ k.expectedMsg = "SERVER_DATA_STATUS"
           /\ StatusTaken(r, k, m.dataFlags, m.dataUpdateFlags)
  <2>1. k.state = "CONNECTED"
    BY <1>2, <1>9
  <2>2. PICK x : /\ Asks(r, x) /\ x \in C!ClientType
                 /\ x.state = k.state /\ x.expectedMsg = "NONE" /\ x.sendQueue = k.sendQueue /\ x.writer = k.writer
    BY <1>9 DEF StatusTaken
  <2>3. Base(x, s, e, u, lk)
    BY <1>9, <2>1, <2>2, StatusBase
  <2> QED BY <2>2, <2>3, AskBase
<1>10. CASE m.type = "DATA" /\ k.state = "CONNECTED" /\ r = k
  BY <1>10, IgnoreBase
<1>11. CASE m.type = "DATA" /\ k.state = "CONNECTED" /\ DataTaken(r, k, m)
  <2>1. PICK x : Asks(r, x) /\ x \in C!ClientType /\ SameTalk(x, k)
    BY <1>11 DEF DataTaken
  <2>2. Base(x, s, e, u, lk)
    BY <1>11, <2>1, MoreBase
  <2> QED BY <2>1, <2>2, AskBase
<1> QED BY <1>4, <1>5, <1>6, <1>7, <1>8, <1>9, <1>10, <1>11 DEF MessageTaken

-----------------------------------------------------------------------------
(***************************************************************************)
(* The operations of the server on one connection.                         *)
(***************************************************************************)
LEMMA OpenBase ==
    ASSUME NEW k, NEW r, NEW d, NEW u, NEW s, NEW f, Base(k, s, f, u, "open"), Tells(r, d),
           Requests(k.state, k.expectedMsg, r.state, Asked(k, u), Planned(r, d))
    PROVE  Base(k, r, d, u, "open")
BY DEF Base, Linked

\* A new session has nothing but the BANNER to send.
LEMMA NewSession ==
    ASSUME NEW sh, NEW v, SharedOK(sh, v), NEW r, r = S!NewServerSession(sh)
    PROVE  /\ SessionOK(r) /\ Unsent(r) = <<ServerMsgBanner>> /\ r.state = "OPENING" /\ r.dataFlags = FALSE
           /\ r.reason = "UNKNOWN"
<1>1. PICK e, q : e = [buf |-> "BANNER", msg |-> ServerMsgBanner] /\ q = <<e>>
  OBVIOUS
<1>2. /\ r \in S!ServerSessionType /\ r.state = "OPENING" /\ r.sendQueue = q /\ r.writer = S!Idle
      /\ r.isSendingData = FALSE /\ r.dataFlags = FALSE /\ r.reason = "UNKNOWN"
  BY <1>1, SessionNew DEF SessionIs
<1>3. e \in S!QueuedMsg /\ e.buf = "BANNER" /\ e.msg = ServerMsgBanner
  BY <1>1, ServerNames, Vocabulary DEF S!QueuedMsg, S!SharedBuf
<1>4. Len(q) = 1 /\ q[1] = e
  BY <1>1
<1>5. S!Idle.kind = "NONE" /\ S!Idle.dangling = FALSE
  BY DEF S!Idle
<1>6. \A i \in 1..Len(q) : OfBuf(q[i].buf, q[i].msg)
  <2> TAKE i \in 1..Len(q)
  <2>1. i = 1
    BY <1>4
  <2> QED BY <1>3, <1>4, <2>1 DEF OfBuf
<1>7. SessionOK(r)
  BY <1>2, <1>5, <1>6 DEF SessionOK, WriterOK
<1>8. Undelivered(r.writer) = <<>>
  BY <1>2, <1>5 DEF Undelivered
<1>9. Msgs(q) = <<ServerMsgBanner>>
  BY <1>3, <1>4 DEF Msgs
<1>10. Unsent(r) = <<>> \o <<ServerMsgBanner>>
  BY <1>2, <1>8, <1>9 DEF Unsent
<1> QED BY <1>2, <1>7, <1>10

\* Accepting a connection starts the session's side of the handshake.
LEMMA AcceptBase ==
    ASSUME NEW k, NEW s, NEW d, NEW u, Base(k, s, d, u, "dialing"), NEW sh, NEW v, SharedOK(sh, v),
           NEW r, r = S!NewServerSession(sh)
    PROVE  /\ Base(k, r, d, u, "open") /\ Silent(k, s, d, u) /\ Asked(k, u) = <<>>
           /\ Planned(r, d) = <<ServerMsgBanner>> /\ r.state = "OPENING" /\ r.reason = "UNKNOWN"
<1>1. Speaks(k, u) /\ Tells(s, d) /\ Linked(k, s, d, u, "dialing") /\ Silent(k, s, d, u)
  BY DEF Base, Linked
<1>2. SessionOK(r) /\ Unsent(r) = <<ServerMsgBanner>> /\ r.state = "OPENING" /\ r.reason = "UNKNOWN"
  BY NewSession
<1>3. Asked(k, u) = <<>>
  BY <1>1, SilentAsked
<1>4. Tells(r, d) /\ d = <<>>
  BY <1>1, <1>2 DEF Tells, Silent
<1>5. Planned(r, d) = <<ServerMsgBanner>>
  <2>1. Planned(r, d) = <<>> \o <<ServerMsgBanner>>
    BY <1>2, <1>4, PlannedIs
  <2> QED BY ONLY <2>1
<1>6. Count(<<ServerMsgBanner>>) = 0
  BY Vocabulary, CountOne DEF Transit
<1>7. Requests(k.state, k.expectedMsg, r.state, Asked(k, u), Planned(r, d))
  BY <1>1, <1>3, <1>5, <1>6, CountEmpty DEF Requests, Silent
<1>8. Linked(k, r, d, u, "open")
  BY <1>1 DEF Linked
<1>9. Base(k, r, d, u, "open")
  BY <1>1, <1>4, <1>7, <1>8 DEF Base
<1> QED BY <1>1, <1>2, <1>3, <1>5, <1>9

\* The end of a session: r says nothing more.
Ended(r, s, reason) ==
    SessionOK(r) /\ r.state = "DISCONNECTED" /\ r.reason = reason

\* quickDisconnect leaves a session that has ended.
LEMMA EndSession ==
    ASSUME NEW s, SessionOK(s), NEW reason, NEW r,
           SessionIs(r, "DISCONNECTED", <<>>, s.writer, FALSE, s.dataFlags, s.dataUpdateFlags, reason)
    PROVE  Ended(r, s, reason)
<1>1. /\ r \in S!ServerSessionType /\ r.state = "DISCONNECTED" /\ r.sendQueue = <<>> /\ r.writer = s.writer
      /\ r.isSendingData = FALSE /\ r.reason = reason
  BY DEF SessionIs
<1>2. Len(<<>>) = 0
  OBVIOUS
<1>3. /\ s.writer.kind # "NONE" => OfBuf(s.writer.buf, s.writer.msg) /\ s.writer.pos # 0
      /\ s.writer.kind = "OWN" => s.writer.buf = "OWN"
      /\ s.writer.dangling => s.writer.kind # "NONE" /\ s.writer.buf = "TICK"
  BY DEF SessionOK, WriterOK
<1>4. WriterOK("DISCONNECTED", <<>>, s.writer, FALSE, r.dataFlags)
  BY <1>2, <1>3 DEF WriterOK
<1> QED BY <1>1, <1>4 DEF Ended, SessionOK

\* The session ends after f was sent; the client has said u.
Fewer(f, P) == Count(f) <= Count(P)

\* A session that ends has nothing to say but what is on the wire.
LEMMA EndBase ==
    ASSUME NEW k, NEW s, NEW d, NEW u, Base(k, s, d, u, "open"), NEW r, NEW reason, Ended(r, s, reason),
           NEW f \in Seq(ServerMsg), Fewer(f, Planned(s, d))
    PROVE  Base(k, r, f, u, "open") /\ Planned(r, f) = f
<1>1. PICK U, P : U = Asked(k, u) /\ P = Planned(s, d)
  OBVIOUS
<1>2. /\ Speaks(k, u) /\ Tells(s, d) /\ Requests(k.state, k.expectedMsg, s.state, U, P)
      /\ U \in Seq(ClientMsg) /\ P \in Seq(ServerMsg)
  BY <1>1, AskedIs, PlannedIs DEF Base
<1>3. Tells(r, f) /\ r.state = "DISCONNECTED"
  BY DEF Ended, Tells
<1>4. Planned(r, f) = f
  BY <1>3, PlannedIs
<1>5. Requests(k.state, k.expectedMsg, "DISCONNECTED", U, f)
  BY <1>1, <1>2, RequestsThin DEF Fewer
<1> QED BY <1>1, <1>3, <1>4, <1>5, OpenBase

\* The session s is at m, the first of the messages u; the next ones are w.
Heard(k, s, d, u, m, w) ==
    Base(k, s, d, u, "open") /\ s.state # "DISCONNECTED" /\ u # <<>> /\ m = Head(u) /\ w = Tail(u)

\* What is known when the session takes the message m, w being left on the
\* wire.
LEMMA HeardFacts ==
    ASSUME NEW k, NEW s, NEW d, NEW u, NEW m, NEW w, Heard(k, s, d, u, m, w),
           NEW P, P = Planned(s, d), NEW U, U = Asked(k, u)
    PROVE  /\ Base(k, s, d, u, "open") /\ Tells(s, d) /\ SessionOK(s) /\ Speaks(k, w) /\ m \in ClientMsg
           /\ P \in Seq(ServerMsg) /\ U \in Seq(ClientMsg) /\ U # <<>> /\ U[1] = m /\ Asked(k, w) = Tail(U)
           /\ Requests(k.state, k.expectedMsg, s.state, U, P) /\ s.state # "DISCONNECTED"
           /\ s \in S!ServerSessionType
<1>1. /\ Speaks(k, u) /\ Tells(s, d) /\ Base(k, s, d, u, "open") /\ u # <<>>
      /\ Requests(k.state, k.expectedMsg, s.state, U, P) /\ w = Tail(u) /\ m = Head(u) /\ s.state # "DISCONNECTED"
  BY DEF Heard, Base
<1>2. Asked(k, w) = Tail(U) /\ U # <<>> /\ U[1] = m /\ Speaks(k, w) /\ m \in ClientMsg
  BY <1>1, AskedTail
<1>3. P \in Seq(ServerMsg) /\ U \in Seq(ClientMsg) /\ SessionOK(s) /\ s \in S!ServerSessionType
  BY <1>1, AskedIs, PlannedIs DEF Tells, SessionOK
<1> QED BY <1>1, <1>2, <1>3

\* A session that keeps the balance when it takes a message keeps the
\* connection's facts.
LEMMA HeardBase ==
    ASSUME NEW k, NEW s, NEW d, NEW u, NEW m, NEW w, Heard(k, s, d, u, m, w), NEW r, Tells(r, d),
           Requests(k.state, k.expectedMsg, r.state, Tail(Asked(k, u)), Planned(r, d))
    PROVE  Base(k, r, d, w, "open")
<1>1. PICK P, U : P = Planned(s, d) /\ U = Asked(k, u)
  OBVIOUS
<1>2. Base(k, s, d, u, "open") /\ Speaks(k, w) /\ Asked(k, w) = Tail(U)
  BY <1>1, HeardFacts
<1>3. Linked(k, r, d, w, "open")
  BY <1>2 DEF Base, Linked
<1> QED BY <1>1, <1>2, <1>3 DEF Base

\* A session may end at a message.
LEMMA HeardEnds ==
    ASSUME NEW k, NEW s, NEW d, NEW u, NEW m, NEW w, Heard(k, s, d, u, m, w), NEW r, NEW reason, Ended(r, s, reason)
    PROVE  Base(k, r, d, w, "open") /\ Planned(r, d) = d
<1>1. PICK P, U : P = Planned(s, d) /\ U = Asked(k, u)
  OBVIOUS
<1>2. /\ Base(k, s, d, u, "open") /\ Tells(s, d) /\ U \in Seq(ClientMsg) /\ P \in Seq(ServerMsg) /\ U # <<>>
      /\ Requests(k.state, k.expectedMsg, s.state, U, P)
  BY <1>1, HeardFacts
<1>3. Tells(r, d) /\ r.state = "DISCONNECTED" /\ d \in Seq(ServerMsg)
  BY <1>2 DEF Ended, Tells
<1>4. Planned(r, d) = d
  BY <1>3, PlannedIs
<1>5. Count(d) <= Count(P)
  BY <1>1, <1>2, PlannedCut
<1>6. Requests(k.state, k.expectedMsg, "DISCONNECTED", Tail(U), P) /\ Tail(U) \in Seq(ClientMsg)
  BY <1>2, RequestsPop
<1>7. Requests(k.state, k.expectedMsg, "DISCONNECTED", Tail(U), d)
  BY <1>2, <1>3, <1>5, <1>6, RequestsThin
<1> QED BY <1>1, <1>3, <1>4, <1>7, HeardBase

\* r is s with the answer a queued.
Answers(r, s, state, a, d, u) ==
    /\ SessionOK(r) /\ r.state = state /\ Unsent(r) = Append(Unsent(s), a) /\ r.reason = s.reason
    /\ r.dataFlags = d /\ r.dataUpdateFlags = u

\* A session that answers a message has the answer queued.
LEMMA AnswerSession ==
    ASSUME NEW s, SessionOK(s), NEW e \in S!QueuedMsg, OfBuf(e.buf, e.msg), NEW f, NEW g, NEW state,
           s.state \in {"OPENING", "CONNECTED"}, state = "CONNECTED", NEW r,
           SessionIs(r, state, Append(s.sendQueue, e), s.writer, s.isSendingData, f, g, s.reason)
    PROVE  Answers(r, s, state, e.msg, f, g)
<1>1. /\ r \in S!ServerSessionType /\ r.state = state /\ r.sendQueue = Append(s.sendQueue, e) /\ r.writer = s.writer
      /\ r.isSendingData = s.isSendingData /\ r.dataFlags = f /\ r.dataUpdateFlags = g /\ r.reason = s.reason
  BY DEF SessionIs
<1>2. s \in S!ServerSessionType /\ WriterOK(s.state, s.sendQueue, s.writer, s.isSendingData, s.dataFlags)
  BY DEF SessionOK
<1>3. PICK q : q = Append(s.sendQueue, e)
  OBVIOUS
<1>4. \A i \in 1..Len(q) : OfBuf(q[i].buf, q[i].msg)
  <2>1. s.sendQueue \in Seq(S!QueuedMsg)
    BY <1>2, SessionFields
  <2>2. \A i \in 1..Len(s.sendQueue) : OfBuf(s.sendQueue[i].buf, s.sendQueue[i].msg)
    BY <1>2 DEF WriterOK
  <2> QED BY <1>3, <2>1, <2>2
<1>5. WriterOK(state, q, s.writer, s.isSendingData, f)
  BY <1>2, <1>4 DEF WriterOK
<1>6. Unsent(r) = Append(Unsent(s), e.msg)
  BY <1>1, <1>2, UnsentAppend
<1> QED BY <1>1, <1>3, <1>5, <1>6 DEF Answers, SessionOK

\* The four outcomes of a message, by its type.
HeardAs(r, s, m) ==
    \/ /\ m.type = "HELLO" /\ s.state = "OPENING"
       /\ Answers(r, s, "CONNECTED", ServerMsgHello, s.dataFlags, s.dataUpdateFlags)
    \/ m.type = "DISCONNECT" /\ Ended(r, s, m.reason)
    \/ /\ m.type = "REQUEST_DATA" /\ s.state = "CONNECTED"
       /\ Answers(r, s, "CONNECTED", ServerMsgDataStatus(m.dataFlags, m.dataUpdateFlags), m.dataFlags, m.dataUpdateFlags)
    \/ /\ ~(m.type = "HELLO" /\ s.state = "OPENING") /\ m.type # "DISCONNECT"
       /\ ~(m.type = "REQUEST_DATA" /\ s.state = "CONNECTED")
       /\ Ended(r, s, "PROTOCOL_ERROR")

\* What HandleInput of the session does, by the message and the state of the
\* session.
LEMMA InputIs ==
    ASSUME NEW sh, NEW v, SharedOK(sh, v), NEW s, SessionOK(s), NEW m \in ClientMsg, NEW r, r = S!HandleInput(s, m, sh)
    PROVE  HeardAs(r, s, m)
<1>1. s \in S!ServerSessionType
  BY DEF SessionOK
<1>2. CASE /\ m.type = "HELLO" /\ s.state = "OPENING"
           /\ SessionIs(r, "CONNECTED",
                        Append(s.sendQueue, [buf |-> "HELLO", msg |-> ServerMsgHello]),
                        s.writer, s.isSendingData, s.dataFlags, s.dataUpdateFlags, s.reason)
  <2>1. PICK e : e = [buf |-> "HELLO", msg |-> ServerMsgHello]
    OBVIOUS
  <2>2. e \in S!QueuedMsg /\ e.buf = "HELLO" /\ e.msg = ServerMsgHello
    BY <2>1, ServerNames, Vocabulary DEF S!QueuedMsg, S!SharedBuf
  <2>3. OfBuf(e.buf, e.msg)
    BY <2>2 DEF OfBuf
  <2>4. Answers(r, s, "CONNECTED", e.msg, s.dataFlags, s.dataUpdateFlags)
    BY <1>2, <2>1, <2>2, <2>3, AnswerSession
  <2> QED BY <1>2, <2>2, <2>4 DEF HeardAs
<1>3. CASE /\ m.type = "DISCONNECT"
           /\ SessionIs(r, "DISCONNECTED", <<>>, s.writer, FALSE, s.dataFlags, s.dataUpdateFlags, m.reason)
  BY <1>3, EndSession DEF HeardAs
<1>4. CASE /\ m.type = "REQUEST_DATA" /\ s.state = "CONNECTED"
           /\ SessionIs(r, "CONNECTED",
                        Append(s.sendQueue, [buf |-> "OWN", msg |-> ServerMsgDataStatus(m.dataFlags, m.dataUpdateFlags)]),
                        s.writer, s.isSendingData, m.dataFlags, m.dataUpdateFlags, s.reason)
  <2>1. PICK a, e : a = ServerMsgDataStatus(m.dataFlags, m.dataUpdateFlags) /\ e = [buf |-> "OWN", msg |-> a]
    OBVIOUS
  <2>2. m.dataFlags \in BOOLEAN /\ m.dataUpdateFlags \in BOOLEAN
    BY <1>4 DEF ClientMsg, ClientMsgHello
  <2>3. a \in ServerMsg /\ a.type = "DATA_STATUS"
    BY <2>1, <2>2, Vocabulary
  <2>4. e \in S!QueuedMsg /\ e.buf = "OWN" /\ e.msg = a
    BY <2>1, <2>3, ServerNames DEF S!QueuedMsg
  <2>5. OfBuf(e.buf, e.msg)
    BY <2>3, <2>4 DEF OfBuf
  <2>6. Answers(r, s, "CONNECTED", e.msg, m.dataFlags, m.dataUpdateFlags)
    BY <1>4, <2>1, <2>4, <2>5, AnswerSession
  <2> QED BY <1>4, <2>1, <2>4, <2>6 DEF HeardAs
<1>5. CASE /\ ~(m.type = "HELLO" /\ s.state = "OPENING") /\ m.type # "DISCONNECT"
           /\ ~(m.type = "REQUEST_DATA" /\ s.state = "CONNECTED")
           /\ SessionIs(r, "DISCONNECTED", <<>>, s.writer, FALSE, s.dataFlags, s.dataUpdateFlags, "PROTOCOL_ERROR")
  BY <1>5, EndSession DEF HeardAs
<1> QED BY <1>1, <1>2, <1>3, <1>4, <1>5, SessionInput

\* An answer that settles the message taken keeps the balance.
LEMMA AnswerBase ==
    ASSUME NEW k, NEW s, NEW d, NEW u, NEW m, NEW w, Heard(k, s, d, u, m, w), NEW a \in ServerMsg, One(a) = One(m),
           NEW r, NEW f, NEW g, Answers(r, s, "CONNECTED", a, f, g)
    PROVE  Base(k, r, d, w, "open") /\ Planned(r, d) = Append(Planned(s, d), a)
<1>1. PICK P, U : P = Planned(s, d) /\ U = Asked(k, u)
  OBVIOUS
<1>2. /\ Base(k, s, d, u, "open") /\ Tells(s, d) /\ U \in Seq(ClientMsg) /\ P \in Seq(ServerMsg) /\ U # <<>>
      /\ Requests(k.state, k.expectedMsg, s.state, U, P) /\ U[1] = m /\ s.state # "DISCONNECTED"
  BY <1>1, HeardFacts
<1>3. Tells(r, d) /\ r.state = "CONNECTED" /\ Unsent(r) = Append(Unsent(s), a)
  BY <1>2 DEF Answers, Tells
<1>4. Planned(r, d) = Append(P, a)
  BY <1>1, <1>2, <1>3, PlannedAppend
<1>5. Requests(k.state, k.expectedMsg, "CONNECTED", Tail(U), Append(P, a))
  <2>1. "CONNECTED" \in {"OPENING", "CONNECTED"} /\ One(a) = One(U[1])
    BY <1>2
  <2> QED BY <1>2, <2>1, RequestsPop
<1>6. Base(k, r, d, w, "open")
  BY <1>1, <1>3, <1>4, <1>5, HeardBase
<1> QED BY <1>1, <1>4, <1>6

\* Whatever message the session takes, the balance is kept.
LEMMA InputBase ==
    ASSUME NEW k, NEW s, NEW d, NEW u, NEW m, NEW w, Heard(k, s, d, u, m, w), NEW r, HeardAs(r, s, m)
    PROVE  Base(k, r, d, w, "open")
<1>1. CASE m.type = "HELLO" /\ Answers(r, s, "CONNECTED", ServerMsgHello, s.dataFlags, s.dataUpdateFlags)
  <2>1. ServerMsgHello \in ServerMsg /\ One(ServerMsgHello) = One(m)
    BY <1>1, Vocabulary DEF One, Transit
  <2> QED BY <1>1, <2>1, AnswerBase
<1>2. CASE /\ m.type = "REQUEST_DATA"
           /\ Answers(r, s, "CONNECTED", ServerMsgDataStatus(m.dataFlags, m.dataUpdateFlags), m.dataFlags, m.dataUpdateFlags)
  <2>1. PICK a : a = ServerMsgDataStatus(m.dataFlags, m.dataUpdateFlags)
    OBVIOUS
  <2>2. PICK P, U : P = Planned(s, d) /\ U = Asked(k, u)
    OBVIOUS
  <2>3. m \in ClientMsg
    BY <2>2, HeardFacts
  <2>4. m.dataFlags \in BOOLEAN /\ m.dataUpdateFlags \in BOOLEAN
    BY <1>2, <2>3 DEF ClientMsg, ClientMsgHello
  <2>5. a \in ServerMsg /\ a.type = "DATA_STATUS"
    BY <2>1, <2>4, Vocabulary
  <2>6. One(a) = One(m)
    BY <1>2, <2>5 DEF One, Transit
  <2> QED BY <1>2, <2>1, <2>5, <2>6, AnswerBase
<1>3. CASE \E reason : Ended(r, s, reason)
  BY <1>3, HeardEnds
<1> QED BY <1>1, <1>2, <1>3 DEF HeardAs

\* r is s after an output that leaves the messages P to be told of Q.
Told(r, s, P, Q, replaced) ==
    /\ r.state = s.state /\ r.dataFlags = s.dataFlags /\ r.dataUpdateFlags = s.dataUpdateFlags /\ r.reason = s.reason
    /\ P \in Seq(ServerMsg) /\ Q \in Seq(ServerMsg)
    /\ Count(P) = Count(Q) /\ (~replaced => Thins(P, Q, TRUE))

\* An output changes what is on the wire, and what the session has to say only
\* by data left out.
LEMMA ToldPlan ==
    ASSUME NEW s, NEW d, Tells(s, d), s.state # "DISCONNECTED", NEW E \in Seq(ServerMsg), NEW r, SessionOK(r),
           r.state = s.state, r.dataFlags = s.dataFlags, r.dataUpdateFlags = s.dataUpdateFlags, r.reason = s.reason,
           Count(E \o Unsent(r)) = Count(Unsent(s)), NEW replaced, ~replaced => Thins(E \o Unsent(r), Unsent(s), TRUE)
    PROVE  Tells(r, d \o E) /\ Told(r, s, Planned(r, d \o E), Planned(s, d), replaced)
<1>1. PICK X, R : X = Unsent(r) /\ R = Unsent(s)
  OBVIOUS
<1>2. X \in Seq(ServerMsg) /\ R \in Seq(ServerMsg) /\ d \in Seq(ServerMsg) /\ TRUE \in BOOLEAN
  BY <1>1, UnsentType DEF Tells, SessionOK
<1>3. /\ (d \o E) \o X = d \o (E \o X) /\ d \o E \in Seq(ServerMsg)
      /\ Count((d \o E) \o X) = Count(d) + Count(E \o X)
      /\ Count(d \o R) = Count(d) + Count(R)
      /\ Thins(E \o X, R, TRUE) => Thins((d \o E) \o X, d \o R, TRUE)
  <2>1. RestOf(d, E, X, R, TRUE)
    BY ONLY <1>2, E \in Seq(ServerMsg), PlannedRest
  <2> QED BY ONLY <2>1 DEF RestOf
<1>4. Tells(r, d \o E)
  BY <1>3 DEF Tells
<1>5. Planned(r, d \o E) = (d \o E) \o X /\ Planned(r, d \o E) \in Seq(ServerMsg)
  BY <1>1, <1>4, PlannedIs
<1>6. Planned(s, d) = d \o R /\ Planned(s, d) \in Seq(ServerMsg)
  BY <1>1, PlannedIs
<1>7. Count(Planned(r, d \o E)) = Count(Planned(s, d))
  <2>1. Count(E \o X) = Count(R)
    BY <1>1
  <2> QED BY ONLY <1>3, <1>5, <1>6, <2>1
<1>8. ~replaced => Thins(Planned(r, d \o E), Planned(s, d), TRUE)
  <2>1. ~replaced => Thins(E \o X, R, TRUE)
    BY <1>1
  <2> QED BY ONLY <1>3, <1>5, <1>6, <2>1
<1> QED BY <1>4, <1>5, <1>6, <1>7, <1>8 DEF Told

\* An output of the session keeps the balance, replaced buffers or not.
LEMMA OutputBase ==
    ASSUME NEW sh, NEW v \in Nat, SharedOK(sh, v), NEW k, NEW s, NEW d, NEW u, Base(k, s, d, u, "open"),
           s.state # "DISCONNECTED",
           NEW p, p = S!Pending(s, sh), NEW n \in 0..Len(p), NEW pos \in {1, 2}, S!CanSend(p, n, pos),
           NEW text \in S!Texts(p, sh), NEW E, E = S!Emitted(p, n, pos, text),
           NEW r, r = S!HandleOutput(s, n, pos, sh)
    PROVE  /\ Base(k, r, d \o E, u, "open")
           /\ Told(r, s, Planned(r, d \o E), Planned(s, d), S!SendsReplaced(s, n, text, sh))
<1>1. /\ s \in S!ServerSessionType /\ WriterOK(s.state, s.sendQueue, s.writer, s.isSendingData, s.dataFlags)
      /\ Tells(s, d)
  BY DEF Base, Tells, SessionOK
<1>2. PICK l, X, R : /\ l = LoadedOf(n, Busy(s.writer), Len(s.sendQueue))
                     /\ X = Unsent(r) /\ R = Unsent(s)
  OBVIOUS
<1>3. /\ r \in S!ServerSessionType /\ r.state = s.state /\ r.dataFlags = s.dataFlags
      /\ r.dataUpdateFlags = s.dataUpdateFlags /\ r.reason = s.reason
      /\ WriterOK(r.state, r.sendQueue, r.writer, r.isSendingData, r.dataFlags)
  BY <1>1, <1>2, OutputSession
<1>4. /\ E \in Seq(ServerMsg) /\ R \in Seq(ServerMsg) /\ X \in Seq(ServerMsg)
      /\ Count(E \o X) = Count(R)
      /\ ~S!SendsReplaced(s, n, text, sh) => Thins(E \o X, R, TRUE)
  <2>1. Sends(E, X, R, S!SendsReplaced(s, n, text, sh))
    BY <1>1, <1>2, OutputMessages
  <2> QED BY ONLY <2>1 DEF Sends
<1>5. SessionOK(r)
  BY <1>3 DEF SessionOK
<1>6. PICK replaced : replaced = S!SendsReplaced(s, n, text, sh)
  OBVIOUS
<1>7. Tells(r, d \o E) /\ Told(r, s, Planned(r, d \o E), Planned(s, d), replaced)
  <2>1. /\ Tells(s, d) /\ s.state # "DISCONNECTED" /\ E \in Seq(ServerMsg) /\ SessionOK(r)
        /\ r.state = s.state /\ r.dataFlags = s.dataFlags /\ r.dataUpdateFlags = s.dataUpdateFlags
        /\ r.reason = s.reason /\ Count(E \o Unsent(r)) = Count(Unsent(s))
        /\ ~replaced => Thins(E \o Unsent(r), Unsent(s), TRUE)
    BY <1>1, <1>2, <1>3, <1>4, <1>5, <1>6
  <2> QED BY ONLY <2>1, ToldPlan
<1>8. Requests(k.state, k.expectedMsg, r.state, Asked(k, u), Planned(r, d \o E))
  <2>1. PICK P, Q, U : P = Planned(r, d \o E) /\ Q = Planned(s, d) /\ U = Asked(k, u)
    OBVIOUS
  <2>2. /\ P \in Seq(ServerMsg) /\ Q \in Seq(ServerMsg) /\ Count(P) = Count(Q) /\ r.state = s.state
        /\ U \in Seq(ClientMsg) /\ Requests(k.state, k.expectedMsg, s.state, U, Q)
    BY <1>7, <2>1, AskedIs DEF Told, Base
  <2>3. Requests(k.state, k.expectedMsg, r.state, U, P)
    BY ONLY <2>2, RequestsThin
  <2> QED BY <2>1, <2>3
<1>9. Base(k, r, d \o E, u, "open")
  BY ONLY Base(k, s, d, u, "open"), <1>7, <1>8, OpenBase
<1> QED BY <1>6, <1>7, <1>9

\* A session that is closed by the server after n messages; f is what the client may still receive.
Broken(r, s, f, reason, P, replaced) ==
    /\ Ended(r, s, reason) /\ f \in Seq(ServerMsg) /\ P \in Seq(ServerMsg) /\ (~replaced => Thins(f, P, FALSE))

\* A socket error of the session during an output keeps the balance.
LEMMA ErrorBase ==
    ASSUME NEW sh, NEW v \in Nat, SharedOK(sh, v), NEW k, NEW s, NEW d, NEW u, Base(k, s, d, u, "open"),
           s.state # "DISCONNECTED",
           NEW p, p = S!Pending(s, sh), NEW n \in 0..Len(p), NEW text \in S!Texts(p, sh),
           NEW E, E = S!Emitted(p, n, 0, text), NEW reason \in EDisconnectReason,
           NEW r, r = S!quickDisconnect(s, reason)
    PROVE  /\ Base(k, r, d \o E, u, "open") /\ Planned(r, d \o E) = d \o E
           /\ Broken(r, s, d \o E, reason, Planned(s, d), S!SendsReplaced(s, n, text, sh))
<1>1. /\ s \in S!ServerSessionType /\ WriterOK(s.state, s.sendQueue, s.writer, s.isSendingData, s.dataFlags)
      /\ Tells(s, d) /\ SessionOK(s) /\ d \in Seq(ServerMsg)
  BY DEF Base, Tells, SessionOK
<1>2. PICK R : R = Unsent(s)
  OBVIOUS
<1>3. /\ E \in Seq(ServerMsg) /\ R \in Seq(ServerMsg) /\ Count(E) <= Count(R)
      /\ ~S!SendsReplaced(s, n, text, sh) => Thins(E, R, FALSE)
  BY <1>1, <1>2, ErrorMessages
<1>4. Ended(r, s, reason)
  BY <1>1, SessionClose, EndSession
<1>5. PICK f, P : f = d \o E /\ P = Planned(s, d)
  OBVIOUS
<1>6. P = d \o R /\ P \in Seq(ServerMsg)
  BY <1>1, <1>2, <1>5, PlannedIs
<1>7. /\ f \in Seq(ServerMsg) /\ Count(f) = Count(d) + Count(E) /\ Count(d \o R) = Count(d) + Count(R)
      /\ Thins(E, R, FALSE) => Thins(f, d \o R, FALSE)
  <2>1. d \in Seq(ServerMsg) /\ E \in Seq(ServerMsg) /\ R \in Seq(ServerMsg) /\ FALSE \in BOOLEAN
    BY <1>1, <1>3
  <2>2. RestOf(d, E, E, R, FALSE)
    BY ONLY <2>1, PlannedRest
  <2> QED BY ONLY <1>5, <2>2 DEF RestOf
<1>8. Fewer(f, P)
  <2>1. Count(d) \in Nat /\ Count(E) \in Nat /\ Count(R) \in Nat
    BY ONLY <1>1, <1>3, CountType
  <2> QED BY ONLY <2>1, <1>3, <1>6, <1>7 DEF Fewer
<1>9. Base(k, r, f, u, "open") /\ Planned(r, f) = f
  <2>1. f \in Seq(ServerMsg) /\ Fewer(f, Planned(s, d))
    BY <1>5, <1>7, <1>8
  <2>2. Base(k, r, f, u, "open")
    BY ONLY Base(k, s, d, u, "open"), <1>4, <2>1, EndBase
  <2>3. Tells(r, f) /\ r.state = "DISCONNECTED"
    BY ONLY <1>4, <2>1 DEF Ended, Tells
  <2> QED BY ONLY <2>2, <2>3, PlannedIs
<1>10. ~S!SendsReplaced(s, n, text, sh) => Thins(f, P, FALSE)
  BY ONLY <1>3, <1>6, <1>7
<1> QED BY <1>4, <1>5, <1>6, <1>7, <1>9, <1>10 DEF Broken

\* A session that loses its connection keeps the balance.
LEMMA LostBase ==
    ASSUME NEW k, NEW s, NEW d, NEW u, Base(k, s, d, u, "open"), NEW reason \in EDisconnectReason,
           NEW r, r = S!quickDisconnect(s, reason)
    PROVE  /\ Base(k, r, d, u, "open") /\ Planned(r, d) = d /\ Ended(r, s, reason)
           /\ Thins(d, Planned(s, d), FALSE) /\ d \in Seq(ServerMsg)
<1>1. Tells(s, d) /\ SessionOK(s) /\ s \in S!ServerSessionType /\ d \in Seq(ServerMsg)
  BY DEF Base, Tells, SessionOK
<1>2. Ended(r, s, reason)
  BY <1>1, SessionClose, EndSession
<1>3. Thins(d, Planned(s, d), FALSE) /\ Fewer(d, Planned(s, d))
  BY <1>1, PlannedCut DEF Fewer
<1>4. Base(k, r, d, u, "open")
  BY ONLY Base(k, s, d, u, "open"), <1>1, <1>2, <1>3, EndBase
<1>5. Tells(r, d) /\ r.state = "DISCONNECTED"
  BY <1>1, <1>2 DEF Ended, Tells
<1>6. Planned(r, d) = d
  BY ONLY <1>5, PlannedIs
<1> QED BY <1>1, <1>2, <1>3, <1>4, <1>6

-----------------------------------------------------------------------------
(***************************************************************************)
(* Server::onUpdate.                                                       *)
(***************************************************************************)
LEMMA SharedUpdated ==
    ASSUME version \in Nat, SharedOK(shared, version), NEW new, new = SharedAfterUpdate
    PROVE  /\ SharedOK(new, version + 1)
           /\ new["TICK"] = ServerMsgUpdateTick((version + 1) % TimestampMod, version + 1) /\ new["TICK"] \in ServerMsg
           /\ serialize /\ ~refill => new["UPDATE"] # Cleared
<1>1. PICK w, t : w = version + 1 /\ t = w % TimestampMod
  OBVIOUS
<1>2. w \in Nat /\ t \in 0..TimestampMod - 1
  <2>1. w \in Nat /\ TimestampMod \in Nat /\ TimestampMod > 0
    BY <1>1, TimestampModAssumption
  <2> QED BY <1>1, <2>1
<1>3. PICK a, b, e : /\ a = ServerMsgUpdateTick(t, w)
                     /\ b = IF serialize /\ ~refill THEN ServerMsgData(TRUE, w) ELSE Cleared
                     /\ e = IF \E c \in Live : Requires(c, FALSE) THEN ServerMsgData(FALSE, w) ELSE Cleared
  OBVIOUS
<1>4. /\ a \in ServerMsg /\ b \in {Cleared, ServerMsgData(TRUE, w)} /\ e \in {Cleared, ServerMsgData(FALSE, w)}
      /\ Cleared \in ServerMsg /\ ServerMsgData(TRUE, w) \in ServerMsg /\ ServerMsgData(FALSE, w) \in ServerMsg
  BY <1>2, <1>3, Vocabulary
<1>5. new = [shared EXCEPT !["TICK"] = a, !["UPDATE"] = b, !["FULL"] = e]
  BY <1>1, <1>3, Zenon DEF SharedAfterUpdate
<1>6. /\ shared \in [S!SharedBuf -> ServerMsg] /\ shared["BANNER"] = ServerMsgBanner /\ shared["HELLO"] = ServerMsgHello
      /\ {"BANNER", "HELLO", "TICK", "FULL", "UPDATE"} = S!SharedBuf
  BY DEF SharedOK, S!SharedBuf
<1>10. a \in ServerMsg /\ b \in ServerMsg /\ e \in ServerMsg
  BY <1>4
<1>7. /\ new \in [S!SharedBuf -> ServerMsg] /\ new["TICK"] = a /\ new["UPDATE"] = b /\ new["FULL"] = e
      /\ new["BANNER"] = ServerMsgBanner /\ new["HELLO"] = ServerMsgHello
  <2>1. DOMAIN shared = {"BANNER", "HELLO", "TICK", "FULL", "UPDATE"}
    BY ONLY <1>6
  <2>2. new \in [S!SharedBuf -> ServerMsg]
    BY ONLY <1>5, <1>6, <1>10
  <2>3. new["TICK"] = a /\ new["UPDATE"] = b /\ new["FULL"] = e
    BY ONLY <1>5, <2>1
  <2>4. new["BANNER"] = shared["BANNER"] /\ new["HELLO"] = shared["HELLO"]
    BY ONLY <1>5, <2>1
  <2> QED BY <1>6, <2>2, <2>3, <2>4
<1>8. SharedOK(new, w)
  BY <1>1, <1>3, <1>4, <1>7 DEF SharedOK
<1>9. ServerMsgData(TRUE, w) # Cleared
  <2>1. ServerMsgData(TRUE, w).type = "DATA"
    BY ONLY Vocabulary
  <2>2. Cleared.type = "UNKNOWN"
    BY ONLY Vocabulary
  <2> QED BY ONLY <2>1, <2>2
<1> QED BY <1>1, <1>3, <1>4, <1>7, <1>8, <1>9

\* SessionAfterUpdate is the update of the session described by UpdateSession.
LEMMA SessionUpdates ==
    ASSUME version \in Nat, SharedOK(shared, version), NEW new, new = SharedAfterUpdate, NEW c, NEW s, s = session[c],
           SessionOK(s), s.state # "DISCONNECTED", NEW r, r = SessionAfterUpdate(c)
    PROVE  \E X : UpdatedTo(r, s, X, new["TICK"], version + 1)
<1>1. PICK a, t, updates : /\ a = Stopped(c)
                           /\ updates = (serialize /\ ~refill /\ \E d \in Live : Requires(d, TRUE))
                           /\ t = S!onUpdate([a EXCEPT !.writer = S!Replaced(@, S!ReplacedBuf)], new)
  OBVIOUS
<1>2. a = IF s.isSendingData THEN S!stopSendingData(s, shared) ELSE s
  BY <1>1 DEF Stopped
<1>3. t = S!onUpdate([a EXCEPT !.writer = S!Replaced(a.writer, S!ReplacedBuf)], new)
  BY <1>1
<1>4. r = IF ~a.dataFlags THEN t
          ELSE IF updates /\ a.dataUpdateFlags THEN S!sendData(t, "UPDATE", new)
          ELSE IF new["FULL"] # Cleared THEN S!sendData(t, "FULL", new)
          ELSE t
  BY <1>1, Zenon DEF SessionAfterUpdate
<1>5. SharedOK(new, version + 1) /\ new["TICK"] \in ServerMsg /\ (serialize /\ ~refill => new["UPDATE"] # Cleared)
  BY SharedUpdated
<1>6. updates => new["UPDATE"] # Cleared
  BY <1>1, <1>5
<1>7. PICK buf \in {"NONE", "FULL", "UPDATE"} :
        /\ buf # "NONE" => new[buf] # Cleared /\ a.dataFlags /\ (buf = "UPDATE" => a.dataUpdateFlags)
        /\ r = IF buf = "NONE" THEN t ELSE S!sendData(t, buf, new)
  <2>1. CASE r = t
    BY <2>1
  <2>2. CASE a.dataFlags /\ updates /\ a.dataUpdateFlags /\ r = S!sendData(t, "UPDATE", new)
    BY <1>6, <2>2
  <2>3. CASE a.dataFlags /\ new["FULL"] # Cleared /\ r = S!sendData(t, "FULL", new)
    BY <2>3
  <2> QED BY <1>4, <2>1, <2>2, <2>3
<1>8. UpdatedTo(r, s, Unsent(a), new["TICK"], version + 1)
  BY <1>2, <1>3, <1>5, <1>7, UpdateSession
<1> QED BY <1>8

\* The same of all that the session has to say: P before and Q after.
PlanUpdated(Q, P, Y, s, t, v) ==
    /\ P \in Seq(ServerMsg) /\ Y \in Seq(ServerMsg) /\ Q \in Seq(ServerMsg) /\ Thins(Y, P, TRUE) /\ t \in ServerMsg
    /\ s.state # "CONNECTED" => Q = Y
    /\ s.state = "CONNECTED" =>
         \/ Q = Append(Y, t)
         \/ \E m \in ServerMsg : /\ m.type = "DATA" /\ m.version = v /\ s.dataFlags
                                 /\ m.isUpdate => s.dataUpdateFlags
                                 /\ Q = Append(Append(Y, t), m)

\* What a session has to say after an update.
LEMMA UpdatePlan ==
    ASSUME NEW s, NEW d, Tells(s, d), s.state # "DISCONNECTED", NEW r, NEW X, NEW t, NEW v, UpdatedTo(r, s, X, t, v)
    PROVE  Tells(r, d) /\ PlanUpdated(Planned(r, d), Planned(s, d), d \o X, s, t, v)
<1>1. PICK R, Y, P, Q : R = Unsent(s) /\ Y = d \o X /\ P = Planned(s, d) /\ Q = Planned(r, d)
  OBVIOUS
<1>2. /\ SessionOK(r) /\ r.state = s.state /\ X \in Seq(ServerMsg) /\ R \in Seq(ServerMsg) /\ t \in ServerMsg
      /\ Thins(X, R, TRUE) /\ d \in Seq(ServerMsg)
  BY <1>1 DEF UpdatedTo, Tells
<1>3. Tells(r, d)
  BY <1>2 DEF Tells
<1>4. P = d \o R /\ P \in Seq(ServerMsg)
  BY <1>1, PlannedIs
<1>5. Q = d \o Unsent(r) /\ Q \in Seq(ServerMsg)
  BY <1>1, <1>2, <1>3, PlannedIs
<1>6. Y \in Seq(ServerMsg) /\ Thins(Y, P, TRUE)
  <2>1. RestOf(d, X, X, R, TRUE)
    BY ONLY <1>2, PlannedRest
  <2> QED BY ONLY <1>1, <1>2, <1>4, <2>1 DEF RestOf
<1>7. s.state # "CONNECTED" => Q = Y
  <2>1. s.state # "CONNECTED" => Unsent(r) = X
    BY DEF UpdatedTo
  <2> QED BY ONLY <1>1, <1>5, <2>1
<1>8. d \o Append(X, t) = Append(Y, t) /\ Append(X, t) \in Seq(ServerMsg)
  <2>1. d \o Append(X, t) = Append(d \o X, t)
    BY ONLY <1>2, ConcatAppend
  <2>2. Append(X, t) \in Seq(ServerMsg)
    BY ONLY <1>2, AppendFacts
  <2> QED BY ONLY <1>1, <2>1, <2>2
<1>9. ASSUME s.state = "CONNECTED"
      PROVE  \/ Q = Append(Y, t)
             \/ \E m \in ServerMsg : /\ m.type = "DATA" /\ m.version = v /\ s.dataFlags
                                     /\ m.isUpdate => s.dataUpdateFlags
                                     /\ Q = Append(Append(Y, t), m)
  <2>1. CASE Unsent(r) = Append(X, t)
    <3>1. Q = Append(Y, t)
      BY ONLY <1>5, <1>8, <2>1
    <3> QED BY <3>1
  <2>2. ASSUME NEW m \in ServerMsg, m.type = "DATA", m.version = v, s.dataFlags, m.isUpdate => s.dataUpdateFlags,
               Unsent(r) = Append(Append(X, t), m)
        PROVE  Q = Append(Append(Y, t), m)
    <3>1. PICK Z : Z = Append(X, t)
      OBVIOUS
    <3>2. Z \in Seq(ServerMsg) /\ d \in Seq(ServerMsg) /\ m \in ServerMsg
      BY <1>2, <1>8, <3>1
    <3>3. d \o Append(Z, m) = Append(d \o Z, m)
      BY ONLY <3>2, ConcatAppend
    <3> QED BY ONLY <1>5, <1>8, <2>2, <3>1, <3>3
  <2> QED BY <1>9, <2>1, <2>2 DEF UpdatedTo
<1> QED BY <1>1, <1>2, <1>3, <1>4, <1>5, <1>6, <1>7, <1>9 DEF PlanUpdated

\* An update of a session keeps the balance.
LEMMA UpdateBase ==
    ASSUME NEW k, NEW s, NEW d, NEW u, Base(k, s, d, u, "open"), s.state # "DISCONNECTED",
           NEW r, NEW X, NEW t, t.type = "UPDATE_TICK", NEW v, UpdatedTo(r, s, X, t, v)
    PROVE  /\ Base(k, r, d, u, "open") /\ r.state = s.state /\ r.reason = s.reason /\ r.dataFlags = FALSE
           /\ PlanUpdated(Planned(r, d), Planned(s, d), d \o X, s, t, v)
<1>1. PICK U, P, Q, Y : U = Asked(k, u) /\ P = Planned(s, d) /\ Q = Planned(r, d) /\ Y = d \o X
  OBVIOUS
<1>2. Speaks(k, u) /\ Tells(s, d) /\ Requests(k.state, k.expectedMsg, s.state, U, P)
  BY <1>1 DEF Base
<1>3. Tells(r, d) /\ PlanUpdated(Q, P, Y, s, t, v)
  BY <1>1, <1>2, UpdatePlan
<1>4. r.state = s.state /\ r.reason = s.reason /\ r.dataFlags = FALSE
  BY DEF UpdatedTo
<1>5. P \in Seq(ServerMsg) /\ Y \in Seq(ServerMsg) /\ Thins(Y, P, TRUE) /\ t \in ServerMsg /\ TRUE \in BOOLEAN
  BY <1>3 DEF PlanUpdated
<1>6. U \in Seq(ClientMsg)
  BY <1>1, <1>2, AskedIs
<1>7. Count(Y) = Count(P)
  BY ONLY <1>5, ThinsCount
<1>8. Requests(k.state, k.expectedMsg, s.state, U, Y)
  BY ONLY <1>2, <1>5, <1>6, <1>7, RequestsThin
<1>9. Requests(k.state, k.expectedMsg, s.state, U, Append(Y, t)) /\ Append(Y, t) \in Seq(ServerMsg)
  BY ONLY <1>5, <1>6, <1>8, t.type = "UPDATE_TICK", RequestsMore
<1>10. ASSUME NEW m \in ServerMsg, m.type = "DATA"
       PROVE  Requests(k.state, k.expectedMsg, s.state, U, Append(Append(Y, t), m))
  BY ONLY <1>6, <1>9, <1>10, RequestsMore
<1>11. Requests(k.state, k.expectedMsg, s.state, U, Q)
  BY <1>3, <1>8, <1>9, <1>10 DEF PlanUpdated
<1>12. Base(k, r, d, u, "open")
  <2>1. Requests(k.state, k.expectedMsg, r.state, Asked(k, u), Planned(r, d))
    BY <1>1, <1>4, <1>11
  <2> QED BY ONLY Base(k, s, d, u, "open"), <1>3, <2>1, OpenBase
<1> QED BY <1>1, <1>3, <1>4, <1>12

-----------------------------------------------------------------------------
(***************************************************************************)
(* What holds of a connection as long as no message was replaced before it *)
(* was sent: the handshake and the data are in order, a client only leaves *)
(* by decision of the user, it asks for data and is granted it, and the    *)
(* list of a synchronized client is that of its last tick.                 *)
(***************************************************************************)
AskedFlags(U) ==
    \A i \in 1..Len(U) : /\ U[i].type = "REQUEST_DATA" => U[i].dataFlags
                         /\ U[i].type = "DISCONNECT" => U[i].reason = "USER_DECISION"

\* The session only confirms data that are granted.
ToldFlags(P) == \A i \in 1..Len(P) : P[i].type = "DATA_STATUS" => P[i].dataFlags

\* The list of a synchronized client is that of its last tick, or of the tick
\* before while data are due.
Synced(k) ==
    /\ k.state = "CONNECTED" => k.requestedData /\ k.currentTimestamp = k.tick % TimestampMod
    /\ k.remainingData => k.tick # 0
    /\ k.isSynchronized => k.tick # 0 /\ k.list = IF k.remainingData THEN k.tick - 1 ELSE k.tick

\* The two ends are in order, U and P being what they still have to say.
Talk(k, s, U, P, v) ==
    /\ Phase(k.state, k.expectedMsg, s.state, U, P)
    /\ Stream(k.state, k.dataFlags, k.dataUpdateFlags, k.tick, s.state, s.dataFlags, s.dataUpdateFlags, P, v)
    /\ AskedFlags(U) /\ ToldFlags(P) /\ Synced(k)
    /\ k.reason # "PROTOCOL_ERROR" /\ s.reason # "PROTOCOL_ERROR"

\* The connection is in order.
Good(k, s, d, u, v) == Talk(k, s, Asked(k, u), Planned(s, d), v)

\* Leaving out data leaves the flags of the other messages.
LEMMA FlagsThinned ==
    ASSUME NEW M, NEW P \in Seq(M), NEW Q \in Seq(M), NEW whole \in BOOLEAN, Thins(Q, P, whole)
    PROVE  (AskedFlags(P) => AskedFlags(Q)) /\ (ToldFlags(P) => ToldFlags(Q))
<1>1. \A i \in 1..Len(Q) : \E j \in 1..Len(P) : Q[i] = P[j]
  BY ThinsFacts
<1> QED BY <1>1 DEF AskedFlags, ToldFlags

\* A request for data, a farewell of the user and a granting answer keep the
\* flags.
LEMMA FlagsAppended ==
    ASSUME NEW M, NEW P \in Seq(M), NEW m \in M
    PROVE  /\ AskedFlags(P) /\ (m.type = "REQUEST_DATA" => m.dataFlags) /\ (m.type = "DISCONNECT" => m.reason = "USER_DECISION")
                => AskedFlags(Append(P, m))
           /\ ToldFlags(P) /\ (m.type = "DATA_STATUS" => m.dataFlags) => ToldFlags(Append(P, m))
<1>1. PICK Q : Q = Append(P, m)
  OBVIOUS
<1>2. \A i \in 1..Len(Q) : Q[i] = m \/ \E j \in 1..Len(P) : Q[i] = P[j]
  <2> TAKE i \in 1..Len(Q)
  <2>1. /\ Len(P) \in Nat /\ Len(Q) = Len(P) + 1 /\ Q[Len(P) + 1] = m
        /\ i \in 1..Len(P) \/ i = Len(P) + 1
        /\ \A j \in 1..Len(P) : Q[j] = P[j]
    BY <1>1, AppendFacts
  <2> QED BY <2>1
<1> QED BY ONLY <1>1, <1>2 DEF AskedFlags, ToldFlags

\* Taking a message leaves the flags of the others.
LEMMA FlagsTail ==
    ASSUME NEW M, NEW P \in Seq(M), P # <<>>
    PROVE  (AskedFlags(P) => AskedFlags(Tail(P))) /\ (ToldFlags(P) => ToldFlags(Tail(P)))
<1>1. PICK Q : Q = Tail(P)
  OBVIOUS
<1>2. \A i \in 1..Len(Q) : \E j \in 1..Len(P) : Q[i] = P[j]
  BY <1>1, TailFacts
<1> QED BY ONLY <1>1, <1>2 DEF AskedFlags, ToldFlags

\* The list is current by the data and the timestamp of the client.
LEMMA SyncedSame ==
    ASSUME NEW k, NEW r, Synced(k), SameData(r, k), r.currentTimestamp = k.currentTimestamp,
           r.state = "CONNECTED" => k.state = "CONNECTED"
    PROVE  Synced(r)
BY DEF Synced, SameData

\* The types behind Base.
LEMMA BaseFacts ==
    ASSUME NEW k, NEW s, NEW d, NEW u, NEW lk, Base(k, s, d, u, lk), NEW U, U = Asked(k, u), NEW P, P = Planned(s, d)
    PROVE  /\ U \in Seq(ClientMsg) /\ P \in Seq(ServerMsg) /\ Speaks(k, u) /\ Tells(s, d) /\ k \in C!ClientType
           /\ Requests(k.state, k.expectedMsg, s.state, U, P) /\ k.tick \in Nat
<1>1. Speaks(k, u) /\ Tells(s, d) /\ Requests(k.state, k.expectedMsg, s.state, U, P)
  BY DEF Base
<1>2. k \in C!ClientType
  BY <1>1 DEF Speaks
<1> QED BY <1>1, <1>2, AskedIs, PlannedIs, ClientFields

\* The client k as it is, except for what it has to say.
Alike(r, k) ==
    /\ r.state = k.state /\ r.reason = k.reason /\ SameFlags(r, k) /\ SameData(r, k)

\* A client alike but for what it has to say goes on as before.
LEMMA TalkAlike ==
    ASSUME NEW k, NEW r, NEW s, NEW U, NEW V, NEW P, NEW v, Talk(k, s, U, P, v), Alike(r, k),
           Phase(r.state, r.expectedMsg, s.state, V, P), AskedFlags(V)
    PROVE  Talk(r, s, V, P, v)
<1>1. Synced(r)
  BY SyncedSame DEF Talk, Alike, SameFlags
<1> QED BY <1>1 DEF Talk, Alike, SameFlags, SameData

\* A client that asks for data keeps the order.
LEMMA AskGood ==
    ASSUME NEW k, NEW s, NEW d, NEW u, NEW lk, Base(k, s, d, u, lk), NEW v, Good(k, s, d, u, v), NEW r, Asks(r, k)
    PROVE  Good(r, s, d, u, v)
<1>1. PICK U, V, P : U = Asked(k, u) /\ V = Asked(r, u) /\ P = Planned(s, d)
  OBVIOUS
<1>2. U \in Seq(ClientMsg) /\ P \in Seq(ServerMsg) /\ Speaks(k, u)
  BY <1>1, BaseFacts
<1>3. Talk(k, s, U, P, v) /\ Phase(k.state, k.expectedMsg, s.state, U, P) /\ AskedFlags(U) /\ Synced(k)
  BY <1>1 DEF Good, Talk
<1>4. Alike(r, k) /\ r.writer = k.writer
  BY DEF Asks, Alike
<1>5. CASE r.expectedMsg = k.expectedMsg /\ r.sendQueue = k.sendQueue
  <2>1. V = U
    BY <1>1, <1>4, <1>5 DEF Asked, Alike
  <2>2. Phase(r.state, r.expectedMsg, s.state, V, P)
    BY <1>3, <1>4, <1>5, <2>1 DEF Alike
  <2>3. Talk(r, s, V, P, v)
    BY <1>3, <1>4, <2>1, <2>2, TalkAlike
  <2> QED BY <1>1, <2>3 DEF Good
<1>6. ASSUME k.state = "CONNECTED", NEW m \in ClientMsg, m.type = "REQUEST_DATA", m.dataFlags = k.requestedData,
             r.sendQueue = Append(k.sendQueue, m)
      PROVE  Good(r, s, d, u, v)
  <2>1. r.state = "CONNECTED"
    BY <1>4, <1>6 DEF Alike
  <2>2. V = Append(U, m)
    BY <1>1, <1>2, <1>4, <1>6, <2>1, AskedAppend
  <2>3. Phase("CONNECTED", r.expectedMsg, s.state, Append(U, m), P)
    BY <1>2, <1>3, <1>6, PhaseAsk
  <2>4. m.dataFlags
    BY <1>3, <1>6 DEF Synced
  <2>5. AskedFlags(Append(U, m))
    BY <1>2, <1>3, <1>6, <2>4, FlagsAppended
  <2>6. Talk(r, s, V, P, v)
    BY <1>3, <1>4, <2>1, <2>2, <2>3, <2>5, TalkAlike
  <2> QED BY <1>1, <2>6 DEF Good
<1> QED BY <1>5, <1>6 DEF Asks

\* The end of the client's session, after it has read up to P.
LEMMA CloseTalk ==
    ASSUME NEW k, NEW u, Speaks(k, u), NEW U, U = Asked(k, u), NEW P \in Seq(ServerMsg), NEW s, NEW v,
           NEW ks, Phase(ks, k.expectedMsg, s.state, U, P), AskedFlags(U), ToldFlags(P), Synced(k),
           s.reason # "PROTOCOL_ERROR", NEW reason, reason # "PROTOCOL_ERROR", NEW r, Closed(r, k, reason)
    PROVE  Talk(r, s, Asked(r, u), P, v)
<1>1. /\ r.state = "DISCONNECTED" /\ r.expectedMsg = k.expectedMsg /\ r.reason = reason
      /\ r.remainingData = k.remainingData /\ r.list = k.list /\ r.tick = k.tick
      /\ r.isSynchronized = k.isSynchronized \/ r.isSynchronized = FALSE
  BY DEF Closed
<1>2. U \in Seq(ClientMsg) /\ u \in Seq(ClientMsg) /\ Thins(u, U, FALSE) /\ FALSE \in BOOLEAN
  BY AskedIs, AskedCut DEF Speaks
<1>3. Asked(r, u) = u
  BY <1>1 DEF Asked
<1>4. Phase(r.state, r.expectedMsg, s.state, u, P)
  <2>1. Phase("DISCONNECTED", k.expectedMsg, s.state, u, P)
    BY <1>2, PhaseThinAsked
  <2> QED BY <1>1, <2>1
<1>5. AskedFlags(u)
  BY <1>2, FlagsThinned
<1>6. Synced(r)
  BY <1>1 DEF Synced
<1>7. Stream(r.state, r.dataFlags, r.dataUpdateFlags, r.tick, s.state, s.dataFlags, s.dataUpdateFlags, P, v)
  BY <1>1 DEF Stream
<1> QED BY <1>1, <1>3, <1>4, <1>5, <1>6, <1>7 DEF Talk

\* A client that closes without a protocol error keeps the order.
LEMMA CloseGood ==
    ASSUME NEW k, NEW s, NEW d, NEW u, NEW lk, Base(k, s, d, u, lk), NEW v, Good(k, s, d, u, v),
           NEW reason, reason # "PROTOCOL_ERROR", NEW r, Closed(r, k, reason)
    PROVE  Good(r, s, d, u, v)
<1>1. PICK U, P : U = Asked(k, u) /\ P = Planned(s, d)
  OBVIOUS
<1>2. P \in Seq(ServerMsg) /\ Speaks(k, u)
  BY <1>1, BaseFacts
<1>3. /\ Phase(k.state, k.expectedMsg, s.state, U, P) /\ AskedFlags(U) /\ ToldFlags(P) /\ Synced(k)
      /\ s.reason # "PROTOCOL_ERROR"
  BY <1>1 DEF Good, Talk
<1>4. Talk(r, s, Asked(r, u), P, v)
  BY <1>1, <1>2, <1>3, CloseTalk
<1> QED BY <1>1, <1>4 DEF Good

\* A client that says farewell keeps the order.
LEMMA LeaveGood ==
    ASSUME NEW k, NEW s, NEW d, NEW u, NEW lk, Base(k, s, d, u, lk), NEW v, Good(k, s, d, u, v),
           k.state = "CONNECTED", NEW r, Leaves(r, k)
    PROVE  Good(r, s, d, u, v)
<1>1. PICK U, V, P, m : U = Asked(k, u) /\ V = Asked(r, u) /\ P = Planned(s, d) /\ m = ClientMsgDisconnect("USER_DECISION")
  OBVIOUS
<1>2. U \in Seq(ClientMsg) /\ P \in Seq(ServerMsg) /\ Speaks(k, u)
  BY <1>1, BaseFacts
<1>3. /\ Phase(k.state, k.expectedMsg, s.state, U, P) /\ AskedFlags(U) /\ ToldFlags(P) /\ Synced(k)
      /\ s.reason # "PROTOCOL_ERROR"
  BY <1>1 DEF Good, Talk
<1>4. m \in ClientMsg /\ m.type = "DISCONNECT" /\ m.reason = "USER_DECISION"
  BY <1>1, Vocabulary DEF ClientMsgDisconnect, EDisconnectReason
<1>5. /\ r.state = "CLOSING" /\ r.writer = k.writer /\ r.sendQueue = Append(k.sendQueue, m) /\ r.reason = "USER_DECISION"
      /\ SameData(r, k) /\ r.currentTimestamp = k.currentTimestamp
  BY <1>1 DEF Leaves, SameFlags
<1>6. V = Append(U, m)
  BY <1>1, <1>2, <1>4, <1>5, AskedAppend
<1>7. Phase("CLOSING", r.expectedMsg, s.state, Append(U, m), P)
  BY <1>2, <1>3, <1>4, PhaseAsk
<1>8. AskedFlags(Append(U, m))
  BY <1>2, <1>3, <1>4, FlagsAppended
<1>9. Synced(r)
  BY <1>3, <1>5, SyncedSame
<1>10. Stream(r.state, r.dataFlags, r.dataUpdateFlags, r.tick, s.state, s.dataFlags, s.dataUpdateFlags, P, v)
  BY <1>5 DEF Stream
<1>11. Talk(r, s, V, P, v)
  BY <1>3, <1>5, <1>6, <1>7, <1>8, <1>9, <1>10 DEF Talk
<1> QED BY <1>1, <1>11 DEF Good

\* An output of the client keeps the order.
LEMMA SayGood ==
    ASSUME NEW k, NEW s, NEW d, NEW u, NEW v, Good(k, s, d, u, v), NEW r, NEW w, Asked(r, w) = Asked(k, u), Alike(r, k),
           r.expectedMsg = k.expectedMsg
    PROVE  Good(r, s, d, w, v)
<1>1. PICK U, P : U = Asked(k, u) /\ U = Asked(r, w) /\ P = Planned(s, d)
  OBVIOUS
<1>2. Talk(k, s, U, P, v) /\ Phase(r.state, r.expectedMsg, s.state, U, P) /\ AskedFlags(U)
  BY <1>1 DEF Good, Talk, Alike
<1>3. Talk(r, s, U, P, v)
  BY <1>2, TalkAlike
<1> QED BY <1>1, <1>3 DEF Good

\* Without ticks and data there is nothing to be in order.
LEMMA NothingFollows ==
    ASSUME NEW P, \A i \in 1..Len(P) : P[i].type \notin {"UPDATE_TICK", "DATA"},
           NEW ks, NEW kd, NEW ku, NEW tick, NEW ss, ss # "CONNECTED", NEW sd, NEW su, NEW v
    PROVE  Stream(ks, kd, ku, tick, ss, sd, su, P, v)
<1>1. Ticks(P) = {} /\ Datas(P) = {}
  BY DEF Ticks, Datas
<1>2. TicksFollow(P, tick, ss = "CONNECTED", v) /\ DataFollow(P, tick, v) /\ FlagsAgree(P, kd, ku)
  BY <1>1 DEF TicksFollow, DataFollow, FlagsAgree
<1> QED BY <1>2 DEF Stream

\* connect() starts in order.
LEMMA ConnectGood ==
    ASSUME NEW k, NEW s, NEW d, NEW u, Base(k, s, d, u, "none"), NEW v, Good(k, s, d, u, v), NEW r, r = C!connect(k)
    PROVE  Good(r, s, d, u, v)
<1>1. k \in C!ClientType /\ k.state = "DISCONNECTED" /\ Fresh(k)
  BY DEF Base, Speaks, Linked
<1>2. /\ SameFlags(r, k) /\ SameData(r, k) /\ r.state = "OPENING" /\ r.expectedMsg = "SERVER_BANNER" /\ r.reason = k.reason
  BY <1>1, ClientConnects
<1>3. Silent(r, s, d, u)
  BY ConnectBase
<1>4. Asked(r, u) = <<>> /\ Planned(s, d) = <<>> /\ s.state = "DISCONNECTED"
  BY <1>3, SilentAsked DEF Silent
<1>5. k.reason # "PROTOCOL_ERROR" /\ s.reason # "PROTOCOL_ERROR"
  BY DEF Good, Talk
<1>6. Synced(r)
  BY <1>1, <1>2 DEF Synced, Fresh, SameFlags, SameData
<1>7. Phase(r.state, r.expectedMsg, s.state, <<>>, <<>>)
  BY <1>2, <1>4 DEF Phase
<1>8. Stream(r.state, r.dataFlags, r.dataUpdateFlags, r.tick, s.state, s.dataFlags, s.dataUpdateFlags, <<>>, v)
  <2>1. \A i \in 1..Len(<<>>) : <<>>[i].type \notin {"UPDATE_TICK", "DATA"}
    OBVIOUS
  <2> QED BY <1>4, <2>1, NothingFollows
<1>9. AskedFlags(<<>>) /\ ToldFlags(<<>>)
  BY DEF AskedFlags, ToldFlags
<1>10. Talk(r, s, <<>>, <<>>, v)
  BY <1>2, <1>5, <1>6, <1>7, <1>8, <1>9 DEF Talk
<1> QED BY <1>4, <1>10 DEF Good

\* A new session starts in order.
LEMMA AcceptGood ==
    ASSUME NEW k, NEW s, NEW d, NEW u, Base(k, s, d, u, "dialing"), NEW v, Good(k, s, d, u, v),
           NEW sh, SharedOK(sh, v), NEW r, r = S!NewServerSession(sh)
    PROVE  Good(k, r, d, u, v)
<1>1. /\ Silent(k, s, d, u) /\ Asked(k, u) = <<>> /\ Planned(r, d) = <<ServerMsgBanner>>
      /\ r.state = "OPENING" /\ r.reason = "UNKNOWN"
  BY AcceptBase
<1>2. k.reason # "PROTOCOL_ERROR" /\ Synced(k)
  BY DEF Good, Talk
<1>3. PICK P : P = <<ServerMsgBanner>>
  OBVIOUS
<1>4. \A i \in 1..Len(P) : P[i].type = "BANNER"
  BY <1>3, Vocabulary
<1>5. /\ k.state \in {"DISCONNECTED", "OPENING"} /\ (k.state = "OPENING" => k.expectedMsg = "SERVER_BANNER")
  BY <1>1 DEF Silent
<1>6. Phase(k.state, k.expectedMsg, r.state, <<>>, P)
  BY <1>1, <1>3, <1>4, <1>5 DEF Phase
<1>7. Stream(k.state, k.dataFlags, k.dataUpdateFlags, k.tick, r.state, r.dataFlags, r.dataUpdateFlags, P, v)
  BY <1>1, <1>4, NothingFollows
<1>8. AskedFlags(<<>>) /\ ToldFlags(P)
  BY <1>4 DEF AskedFlags, ToldFlags
<1>9. Talk(k, r, <<>>, P, v)
  BY <1>1, <1>2, <1>6, <1>7, <1>8 DEF Talk
<1> QED BY <1>1, <1>3, <1>9 DEF Good

-----------------------------------------------------------------------------
(***************************************************************************)
(* The steps of the server.                                                *)
(***************************************************************************)
\* After a part of P was dropped, Q is left; the session is as it was, or over.
LEMMA ThinTalk ==
    ASSUME NEW k, NEW s, NEW U \in Seq(ClientMsg), NEW P \in Seq(ServerMsg), NEW v, Talk(k, s, U, P, v),
           NEW Q \in Seq(ServerMsg), NEW whole \in BOOLEAN, Thins(Q, P, whole), NEW r,
           (r.state = s.state /\ whole) \/ r.state = "DISCONNECTED",
           (r.dataFlags = s.dataFlags /\ r.dataUpdateFlags = s.dataUpdateFlags) \/ r.state = "DISCONNECTED",
           r.reason # "PROTOCOL_ERROR"
    PROVE  Talk(k, r, U, Q, v)
<1>1. /\ Phase(k.state, k.expectedMsg, s.state, U, P) /\ AskedFlags(U) /\ ToldFlags(P) /\ Synced(k)
      /\ Stream(k.state, k.dataFlags, k.dataUpdateFlags, k.tick, s.state, s.dataFlags, s.dataUpdateFlags, P, v)
      /\ k.reason # "PROTOCOL_ERROR"
  BY DEF Talk
<1>2. Phase(k.state, k.expectedMsg, r.state, U, Q)
  BY <1>1, PhaseThin
<1>3. ToldFlags(Q)
  BY <1>1, FlagsThinned
<1>4. Stream(k.state, k.dataFlags, k.dataUpdateFlags, k.tick, r.state, r.dataFlags, r.dataUpdateFlags, Q, v)
  <2>1. CASE r.dataFlags = s.dataFlags /\ r.dataUpdateFlags = s.dataUpdateFlags
    BY <1>1, <2>1, StreamThin
  <2>2. CASE r.state = "DISCONNECTED"
    <3>1. Stream(k.state, k.dataFlags, k.dataUpdateFlags, k.tick, "DISCONNECTED", s.dataFlags, s.dataUpdateFlags, Q, v)
      BY <1>1, StreamThin
    <3> QED BY <2>2, <3>1 DEF Stream
  <2> QED BY <2>1, <2>2
<1> QED BY <1>1, <1>2, <1>3, <1>4 DEF Talk

\* An output that sends no replaced buffer keeps the order.
LEMMA OutputGood ==
    ASSUME NEW k, NEW s, NEW d, NEW u, Base(k, s, d, u, "open"), NEW v, Good(k, s, d, u, v), NEW r, NEW f,
           NEW replaced, ~replaced, Told(r, s, Planned(r, f), Planned(s, d), replaced)
    PROVE  Good(k, r, f, u, v)
<1>1. PICK U, P, Q : U = Asked(k, u) /\ P = Planned(s, d) /\ Q = Planned(r, f)
  OBVIOUS
<1>2. U \in Seq(ClientMsg) /\ P \in Seq(ServerMsg)
  BY <1>1, BaseFacts
<1>3. /\ Q \in Seq(ServerMsg) /\ Thins(Q, P, TRUE) /\ r.state = s.state /\ r.dataFlags = s.dataFlags
      /\ r.dataUpdateFlags = s.dataUpdateFlags /\ r.reason = s.reason
  BY <1>1 DEF Told
<1>4. Talk(k, s, U, P, v) /\ s.reason # "PROTOCOL_ERROR" /\ TRUE \in BOOLEAN
  BY <1>1 DEF Good, Talk
<1>5. Talk(k, r, U, Q, v)
  BY <1>2, <1>3, <1>4, ThinTalk
<1> QED BY <1>1, <1>5 DEF Good

\* A session that ends without a protocol error keeps the order.
LEMMA EndGood ==
    ASSUME NEW k, NEW s, NEW d, NEW u, Base(k, s, d, u, "open"), NEW v, Good(k, s, d, u, v),
           NEW r, NEW reason, reason # "PROTOCOL_ERROR", Ended(r, s, reason), NEW f \in Seq(ServerMsg),
           Planned(r, f) = f, Thins(f, Planned(s, d), FALSE)
    PROVE  Good(k, r, f, u, v)
<1>1. PICK U, P : U = Asked(k, u) /\ P = Planned(s, d)
  OBVIOUS
<1>2. U \in Seq(ClientMsg) /\ P \in Seq(ServerMsg)
  BY <1>1, BaseFacts
<1>3. Talk(k, s, U, P, v) /\ Thins(f, P, FALSE) /\ FALSE \in BOOLEAN
  BY <1>1 DEF Good
<1>4. r.state = "DISCONNECTED" /\ r.reason # "PROTOCOL_ERROR"
  BY DEF Ended
<1>5. Talk(k, r, U, f, v)
  BY <1>2, <1>3, <1>4, ThinTalk
<1> QED BY <1>1, <1>5 DEF Good

\* An update keeps the order: the tick follows the last one and the data follow
\* the tick.
LEMMA UpdateGood ==
    ASSUME NEW k, NEW s, NEW d, NEW u, Base(k, s, d, u, "open"), NEW v \in Nat, Good(k, s, d, u, v),
           s.state # "DISCONNECTED",
           NEW t, t = ServerMsgUpdateTick((v + 1) % TimestampMod, v + 1), NEW Y, NEW r,
           r.state = s.state, r.reason = s.reason, r.dataFlags = FALSE,
           PlanUpdated(Planned(r, d), Planned(s, d), Y, s, t, v + 1)
    PROVE  Good(k, r, d, u, v + 1)
<1>1. PICK U, P, Q : U = Asked(k, u) /\ P = Planned(s, d) /\ Q = Planned(r, d)
  OBVIOUS
<1>2. U \in Seq(ClientMsg) /\ P \in Seq(ServerMsg) /\ k.tick \in Nat /\ s.state \in ESessionState
  <2>1. Tells(s, d) /\ s \in S!ServerSessionType
    BY DEF Base, Tells, SessionOK
  <2> QED BY <1>1, <2>1, BaseFacts, SessionFields
<1>3. /\ PlanUpdated(Q, P, Y, s, t, v + 1)
      /\ Y \in Seq(ServerMsg) /\ Q \in Seq(ServerMsg) /\ Thins(Y, P, TRUE) /\ t \in ServerMsg /\ TRUE \in BOOLEAN
  BY <1>1 DEF PlanUpdated
<1>4. Talk(k, s, U, P, v) /\ s.reason # "PROTOCOL_ERROR"
  BY <1>1 DEF Good, Talk
<1>5. Talk(k, s, U, Y, v)
  BY <1>2, <1>3, <1>4, ThinTalk
<1>6. /\ Phase(k.state, k.expectedMsg, s.state, U, Y) /\ AskedFlags(U) /\ ToldFlags(Y) /\ Synced(k)
      /\ Stream(k.state, k.dataFlags, k.dataUpdateFlags, k.tick, s.state, s.dataFlags, s.dataUpdateFlags, Y, v)
      /\ k.reason # "PROTOCOL_ERROR" /\ r.reason # "PROTOCOL_ERROR"
  BY <1>4, <1>5 DEF Talk
<1>7. CASE s.state # "CONNECTED"
  <2>1. Q = Y
    BY <1>3, <1>7 DEF PlanUpdated
  <2>2. Stream(k.state, k.dataFlags, k.dataUpdateFlags, k.tick, r.state, r.dataFlags, r.dataUpdateFlags, Q, v + 1)
    BY <1>6, <1>7, <2>1, StreamLater
  <2>3. Talk(k, r, U, Q, v + 1)
    BY <1>6, <2>1, <2>2 DEF Talk
  <2> QED BY <1>1, <2>3 DEF Good
<1>8. CASE s.state = "CONNECTED"
  <2>1. Append(Y, t) \in Seq(ServerMsg)
    BY <1>3, AppendFacts
  <2>2. t.type = "UPDATE_TICK"
    BY Vocabulary
  <2>3. ASSUME NEW m \in ServerMsg, m.type = "DATA" PROVE ToldFlags(Append(Append(Y, t), m))
    BY <1>3, <1>6, <2>1, <2>2, <2>3, FlagsAppended
  <2>4. ToldFlags(Append(Y, t))
    BY <1>3, <1>6, <2>2, FlagsAppended
  <2>5. ToldFlags(Q)
    BY <1>3, <1>8, <2>3, <2>4 DEF PlanUpdated
  <2>6. Phase(k.state, k.expectedMsg, "CONNECTED", U, Append(Y, t))
    BY <1>2, <1>3, <1>6, <1>8, <2>2, PhaseAppend
  <2>7. ASSUME NEW m \in ServerMsg, m.type = "DATA"
        PROVE  Phase(k.state, k.expectedMsg, "CONNECTED", U, Append(Append(Y, t), m))
    BY <1>2, <2>1, <2>6, <2>7, PhaseAppend
  <2>8. Phase(k.state, k.expectedMsg, r.state, U, Q)
    BY <1>3, <1>8, <2>6, <2>7 DEF PlanUpdated
  <2>9. Stream(k.state, k.dataFlags, k.dataUpdateFlags, k.tick, "CONNECTED", s.dataFlags, s.dataUpdateFlags, Y, v)
    BY <1>6, <1>8
  <2>10. /\ \A w : Stream(k.state, k.dataFlags, k.dataUpdateFlags, k.tick, "CONNECTED", FALSE, w, Append(Y, t), v + 1)
         /\ \A w : \A m \in ServerMsg :
              m.type = "DATA" /\ m.version = v + 1 /\ s.dataFlags /\ (m.isUpdate => s.dataUpdateFlags) =>
                Stream(k.state, k.dataFlags, k.dataUpdateFlags, k.tick, "CONNECTED", FALSE, w, Append(Append(Y, t), m), v + 1)
    BY <1>2, <1>3, <2>9, StreamUpdate
  <2>11. Stream(k.state, k.dataFlags, k.dataUpdateFlags, k.tick, r.state, r.dataFlags, r.dataUpdateFlags, Q, v + 1)
    BY <1>3, <1>8, <2>10 DEF PlanUpdated
  <2>12. Talk(k, r, U, Q, v + 1)
    BY <1>6, <2>5, <2>8, <2>11 DEF Talk
  <2> QED BY <1>1, <2>12 DEF Good
<1> QED BY <1>7, <1>8

\* A session that is over, and its object forgotten.
LEMMA LaterGood ==
    ASSUME NEW k, NEW s, NEW d, NEW u, NEW v \in Nat, Good(k, s, d, u, v), s.state = "DISCONNECTED",
           NEW r, r.state = "DISCONNECTED", r.reason # "PROTOCOL_ERROR"
    PROVE  Good(k, r, d, u, v + 1)
<1>1. PICK U, P : U = Asked(k, u) /\ P = Planned(s, d)
  OBVIOUS
<1>2. Planned(r, d) = P
  BY <1>1 DEF Planned
<1>3. /\ Phase(k.state, k.expectedMsg, s.state, U, P) /\ AskedFlags(U) /\ ToldFlags(P) /\ Synced(k)
      /\ Stream(k.state, k.dataFlags, k.dataUpdateFlags, k.tick, s.state, s.dataFlags, s.dataUpdateFlags, P, v)
      /\ k.reason # "PROTOCOL_ERROR"
  BY <1>1 DEF Good, Talk
<1>4. Stream(k.state, k.dataFlags, k.dataUpdateFlags, k.tick, r.state, r.dataFlags, r.dataUpdateFlags, P, v + 1)
  BY <1>3, StreamLater
<1>5. Talk(k, r, U, P, v + 1)
  BY <1>3, <1>4 DEF Talk
<1> QED BY <1>1, <1>2, <1>5 DEF Good

\* Whatever message the session takes, the order is kept and it is no protocol
\* error.
LEMMA InputGood ==
    ASSUME NEW k, NEW s, NEW d, NEW u, NEW m, NEW w, Heard(k, s, d, u, m, w), NEW v \in Nat, Good(k, s, d, u, v),
           NEW r, HeardAs(r, s, m), Base(k, r, d, w, "open")
    PROVE  Good(k, r, d, w, v)
<1>1. PICK U, P : U = Asked(k, u) /\ P = Planned(s, d)
  OBVIOUS
<1>2. /\ Base(k, s, d, u, "open") /\ Tells(s, d) /\ SessionOK(s) /\ Speaks(k, w) /\ m \in ClientMsg
      /\ P \in Seq(ServerMsg) /\ U \in Seq(ClientMsg) /\ U # <<>> /\ U[1] = m /\ Asked(k, w) = Tail(U)
      /\ Requests(k.state, k.expectedMsg, s.state, U, P) /\ s.state # "DISCONNECTED"
      /\ s \in S!ServerSessionType
  BY <1>1, HeardFacts
<1>3. /\ Talk(k, s, U, P, v)
      /\ Phase(k.state, k.expectedMsg, s.state, U, P) /\ AskedFlags(U) /\ ToldFlags(P) /\ Synced(k)
      /\ Stream(k.state, k.dataFlags, k.dataUpdateFlags, k.tick, s.state, s.dataFlags, s.dataUpdateFlags, P, v)
      /\ k.reason # "PROTOCOL_ERROR" /\ s.reason # "PROTOCOL_ERROR"
  BY <1>1 DEF Good, Talk
<1>4. /\ Tail(U) \in Seq(ClientMsg) /\ Head(U) = m /\ 1 \in 1..Len(U)
  BY <1>2, TailFacts
<1>5. AskedFlags(Tail(U))
  BY <1>2, <1>3, FlagsTail
<1>6. /\ m.type = "REQUEST_DATA" => m.dataFlags
      /\ m.type = "DISCONNECT" => m.reason = "USER_DECISION"
  BY <1>2, <1>3, <1>4 DEF AskedFlags
<1>7. CASE /\ m.type = "HELLO" /\ s.state = "OPENING"
           /\ Answers(r, s, "CONNECTED", ServerMsgHello, s.dataFlags, s.dataUpdateFlags)
  <2>1. /\ SessionOK(r) /\ r.state = "CONNECTED" /\ Unsent(r) = Append(Unsent(s), ServerMsgHello) /\ r.reason = s.reason
        /\ r.dataFlags = s.dataFlags /\ r.dataUpdateFlags = s.dataUpdateFlags
    BY <1>7 DEF Answers
  <2>2. ServerMsgHello \in ServerMsg /\ ServerMsgHello.type = "HELLO"
    BY Vocabulary
  <2>3. Planned(r, d) = Append(P, ServerMsgHello)
    <3>1. Tells(r, d)
      BY <1>2, <2>1 DEF Tells
    <3> QED BY <1>1, <1>2, <2>1, <2>2, <3>1, PlannedAppend
  <2>4. /\ k.state = "OPENING" => P = <<>>
        /\ k.state \notin {"CONNECTED", "CLOSING"}
        /\ Phase(k.state, k.expectedMsg, "CONNECTED", Tail(U), Append(P, ServerMsgHello))
    BY <1>2, <1>3, <1>7, PhaseHello
  <2>5. s.dataFlags = FALSE
    <3>1. s.dataFlags \in BOOLEAN
      BY <1>2, SessionFields
    <3>2. ~s.dataFlags
      BY <1>2, <1>7 DEF SessionOK, WriterOK
    <3> QED BY <3>1, <3>2
  <2>6. k.state = "OPENING" => k.tick = 0
    BY <1>2 DEF Base, Linked, Fresh
  <2>7. Stream(k.state, k.dataFlags, k.dataUpdateFlags, k.tick, r.state, r.dataFlags, r.dataUpdateFlags,
               Append(P, ServerMsgHello), v)
    <3>1. CASE k.state = "OPENING"
      BY <1>2, <2>1, <2>4, <2>5, <2>6, <3>1, StreamHello
    <3>2. CASE k.state # "OPENING"
      BY <2>4, <3>2 DEF Stream
    <3> QED BY <3>1, <3>2
  <2>8. ToldFlags(Append(P, ServerMsgHello))
    BY <1>2, <1>3, <2>2, FlagsAppended
  <2>9. Talk(k, r, Tail(U), Append(P, ServerMsgHello), v)
    BY <1>3, <1>5, <2>1, <2>4, <2>7, <2>8 DEF Talk
  <2> QED BY <1>2, <2>3, <2>9 DEF Good
<1>8. CASE m.type = "DISCONNECT" /\ Ended(r, s, m.reason)
  <2>1. r.state = "DISCONNECTED" /\ r.reason = "USER_DECISION" /\ SessionOK(r)
    BY <1>6, <1>8 DEF Ended
  <2>2. d \in Seq(ServerMsg) /\ Thins(d, P, FALSE) /\ FALSE \in BOOLEAN
    BY <1>1, <1>2, PlannedCut DEF Tells
  <2>3. Planned(r, d) = d
    BY <2>1 DEF Planned
  <2>4. Talk(k, r, U, d, v)
    BY <1>2, <1>3, <2>1, <2>2, ThinTalk
  <2>5. Phase(k.state, k.expectedMsg, "DISCONNECTED", Tail(U), d)
    <3>1. Phase(k.state, k.expectedMsg, "DISCONNECTED", Tail(U), P)
      BY <1>2, <1>3, PhaseClosedAfterInput
    <3> QED BY <1>2, <1>4, <2>2, <3>1, PhaseThin
  <2>6. Talk(k, r, Tail(U), d, v)
    BY <1>5, <2>1, <2>4, <2>5 DEF Talk
  <2> QED BY <1>2, <2>3, <2>6 DEF Good
<1>9. CASE /\ m.type = "REQUEST_DATA" /\ s.state = "CONNECTED"
           /\ Answers(r, s, "CONNECTED", ServerMsgDataStatus(m.dataFlags, m.dataUpdateFlags), m.dataFlags, m.dataUpdateFlags)
  <2>1. PICK a : a = ServerMsgDataStatus(m.dataFlags, m.dataUpdateFlags)
    OBVIOUS
  <2>2. m.dataFlags \in BOOLEAN /\ m.dataUpdateFlags \in BOOLEAN
    BY <1>2, <1>9 DEF ClientMsg, ClientMsgHello
  <2>3. /\ a \in ServerMsg /\ a.type = "DATA_STATUS" /\ a.dataFlags = m.dataFlags /\ a.dataUpdateFlags = m.dataUpdateFlags
    BY <2>1, <2>2, Vocabulary DEF ServerMsgDataStatus
  <2>4. /\ SessionOK(r) /\ r.state = "CONNECTED" /\ Unsent(r) = Append(Unsent(s), a) /\ r.reason = s.reason
        /\ r.dataFlags = m.dataFlags /\ r.dataUpdateFlags = m.dataUpdateFlags
    BY <1>9, <2>1 DEF Answers
  <2>5. Planned(r, d) = Append(P, a)
    <3>1. Tells(r, d)
      BY <1>2, <2>4 DEF Tells
    <3> QED BY <1>1, <1>2, <2>3, <2>4, <3>1, PlannedAppend
  <2>6. Phase(k.state, k.expectedMsg, "CONNECTED", Tail(U), Append(P, a))
    <3>1. Phase(k.state, k.expectedMsg, "CONNECTED", Tail(U), P)
      BY <1>2, <1>3, <1>9, PhasePop
    <3> QED BY <1>2, <1>4, <2>3, <3>1, PhaseAppend
  <2>7. Stream(k.state, k.dataFlags, k.dataUpdateFlags, k.tick, r.state, r.dataFlags, r.dataUpdateFlags, Append(P, a), v)
    <3>1. CASE k.state \in {"OPENING", "CONNECTED"}
      <4>1. Statuses(P) = {}
        BY <1>2, <1>9, <3>1, RequestsPop
      <4>2. Stream(k.state, k.dataFlags, k.dataUpdateFlags, k.tick, "CONNECTED", s.dataFlags, s.dataUpdateFlags, P, v)
        BY <1>3, <1>9
      <4>3. Stream(k.state, k.dataFlags, k.dataUpdateFlags, k.tick, "CONNECTED", a.dataFlags, a.dataUpdateFlags, Append(P, a), v)
        BY <1>2, <2>3, <4>1, <4>2, StreamStatus
      <4> QED BY <2>3, <2>4, <4>3
    <3>2. CASE k.state \notin {"OPENING", "CONNECTED"}
      BY <3>2 DEF Stream
    <3> QED BY <3>1, <3>2
  <2>8. ToldFlags(Append(P, a))
    BY <1>2, <1>3, <1>6, <1>9, <2>3, FlagsAppended
  <2>9. Talk(k, r, Tail(U), Append(P, a), v)
    BY <1>3, <1>5, <2>4, <2>6, <2>7, <2>8 DEF Talk
  <2> QED BY <1>2, <2>5, <2>9 DEF Good
<1>10. ASSUME ~(m.type = "HELLO" /\ s.state = "OPENING"), m.type # "DISCONNECT", ~(m.type = "REQUEST_DATA" /\ s.state = "CONNECTED")
       PROVE  FALSE
  <2>1. s.state \in {"OPENING", "CONNECTED"}
    <3>1. s.state \in ESessionState
      BY <1>2, SessionFields
    <3> QED BY <1>2, <1>3, <3>1 DEF ESessionState, Phase
  <2>2. m.type \in {"HELLO", "DISCONNECT", "REQUEST_DATA"}
    BY <1>2, ClientMessageTypes
  <2>3. CASE s.state = "OPENING"
    <3>1. m = ClientMsgHello
      BY <1>2, <1>3, <1>4, <2>3, PhaseHello
    <3> QED BY <1>10, <2>3, <3>1, Vocabulary
  <2>4. CASE s.state = "CONNECTED"
    <3>1. m.type # "HELLO"
      BY <1>2, <1>3, <1>4, <2>4 DEF Phase, NoHello
    <3> QED BY <1>10, <2>2, <2>4, <3>1
  <2> QED BY <2>1, <2>3, <2>4
<1> QED BY <1>7, <1>8, <1>9, <1>10 DEF HeardAs

-----------------------------------------------------------------------------
(***************************************************************************)
(* A message from the server.                                              *)
(***************************************************************************)
LEMMA AtGood ==
    ASSUME NEW k, NEW s, NEW d, NEW u, NEW lk, NEW m, NEW e, At(k, s, d, u, lk, m, e), NEW v, Good(k, s, d, u, v),
           NEW P, P = Planned(s, d), NEW U, U = Asked(k, u)
    PROVE  /\ P \in Seq(ServerMsg) /\ U \in Seq(ClientMsg) /\ P # <<>> /\ P[1] = m /\ Planned(s, e) = Tail(P)
           /\ k.state \in {"OPENING", "CONNECTED", "CLOSING"} /\ Speaks(k, u) /\ k \in C!ClientType /\ m \in ServerMsg
           /\ Phase(k.state, k.expectedMsg, s.state, U, P) /\ AskedFlags(U) /\ ToldFlags(P) /\ ToldFlags(Tail(P)) /\ Synced(k)
           /\ Stream(k.state, k.dataFlags, k.dataUpdateFlags, k.tick, s.state, s.dataFlags, s.dataUpdateFlags, P, v)
           /\ k.reason # "PROTOCOL_ERROR" /\ s.reason # "PROTOCOL_ERROR"
           /\ k.tick \in Nat /\ Tail(P) \in Seq(ServerMsg) /\ 1 \in 1..Len(P)
<1>1. /\ P \in Seq(ServerMsg) /\ U \in Seq(ClientMsg) /\ P # <<>> /\ P[1] = m /\ Planned(s, e) = Tail(P)
      /\ k.state \in {"OPENING", "CONNECTED", "CLOSING"} /\ Speaks(k, u) /\ k \in C!ClientType /\ m \in ServerMsg
  BY AtFacts
<1>2. /\ Phase(k.state, k.expectedMsg, s.state, U, P) /\ AskedFlags(U) /\ ToldFlags(P) /\ Synced(k)
      /\ Stream(k.state, k.dataFlags, k.dataUpdateFlags, k.tick, s.state, s.dataFlags, s.dataUpdateFlags, P, v)
      /\ k.reason # "PROTOCOL_ERROR" /\ s.reason # "PROTOCOL_ERROR"
  BY DEF Good, Talk
<1>3. ToldFlags(Tail(P)) /\ Tail(P) \in Seq(ServerMsg) /\ 1 \in 1..Len(P)
  BY <1>1, <1>2, FlagsTail, TailFacts
<1> QED BY <1>1, <1>2, <1>3, ClientFields

\* What the client gets with it, and what remains.
LEMMA AtReceives ==
    ASSUME NEW k, NEW s, NEW d, NEW u, NEW lk, NEW m, NEW e, At(k, s, d, u, lk, m, e), NEW v \in Nat, Good(k, s, d, u, v),
           NEW P, P = Planned(s, d), NEW U, U = Asked(k, u)
    PROVE  /\ ReceivedPhase(k.state, k.expectedMsg, s.state, U, P)
           /\ k.state # "CLOSING" =>
                ReceivedStream(k.dataFlags, k.dataUpdateFlags, k.tick, s.state, s.dataFlags, s.dataUpdateFlags, P, v)
<1>1. /\ P \in Seq(ServerMsg) /\ U \in Seq(ClientMsg) /\ P # <<>>
      /\ k.state \in {"OPENING", "CONNECTED", "CLOSING"} /\ k.tick \in Nat
      /\ Phase(k.state, k.expectedMsg, s.state, U, P)
      /\ Stream(k.state, k.dataFlags, k.dataUpdateFlags, k.tick, s.state, s.dataFlags, s.dataUpdateFlags, P, v)
  BY AtGood
<1>2. ReceivedPhase(k.state, k.expectedMsg, s.state, U, P)
  BY <1>1, PhaseReceive
<1>3. PICK ks, kd, ku, tick, ss, sd, su : /\ ks = k.state /\ kd = k.dataFlags /\ ku = k.dataUpdateFlags /\ tick = k.tick
                                         /\ ss = s.state /\ sd = s.dataFlags /\ su = s.dataUpdateFlags
  OBVIOUS
<1>4. ASSUME ks # "CLOSING" PROVE ReceivedStream(kd, ku, tick, ss, sd, su, P, v)
  <2>1. ks \in {"OPENING", "CONNECTED"} /\ tick \in Nat /\ Stream(ks, kd, ku, tick, ss, sd, su, P, v)
    BY <1>1, <1>3, <1>4
  <2> QED BY <1>1, <2>1, StreamReceive
<1> QED BY <1>2, <1>3, <1>4

\* A message that the client does not expect does not arrive.
LEMMA NothingThrows ==
    ASSUME NEW k, NEW s, NEW d, NEW u, NEW lk, NEW m, NEW e, At(k, s, d, u, lk, m, e), NEW v \in Nat, Good(k, s, d, u, v),
           ~C!Ignores(k, m)
    PROVE  ~C!Throws(k, m)
<1>1. PICK U, P : U = Asked(k, u) /\ P = Planned(s, d)
  OBVIOUS
<1>2. /\ P \in Seq(ServerMsg) /\ U \in Seq(ClientMsg) /\ P # <<>> /\ P[1] = m
      /\ k.state \in {"OPENING", "CONNECTED", "CLOSING"} /\ k \in C!ClientType
      /\ Phase(k.state, k.expectedMsg, s.state, U, P) /\ Synced(k)
      /\ Stream(k.state, k.dataFlags, k.dataUpdateFlags, k.tick, s.state, s.dataFlags, s.dataUpdateFlags, P, v)
      /\ k.tick \in Nat
  BY <1>1, AtGood
<1>3. Requests(k.state, k.expectedMsg, s.state, U, P)
  BY <1>1, AtFacts
<1>6. /\ ReceivedPhase(k.state, k.expectedMsg, s.state, U, P)
      /\ k.state # "CLOSING" =>
           ReceivedStream(k.dataFlags, k.dataUpdateFlags, k.tick, s.state, s.dataFlags, s.dataUpdateFlags, P, v)
  BY <1>1, AtReceives
<1>4. CASE k.state = "OPENING"
  <2>1. \/ m = ServerMsgBanner /\ k.expectedMsg = "SERVER_BANNER"
        \/ m = ServerMsgHello /\ k.expectedMsg = "SERVER_HELLO"
    BY <1>2, <1>4, <1>6 DEF ReceivedPhase
  <2> QED BY <1>4, <2>1, Vocabulary DEF C!Throws
<1>5. CASE k.state # "OPENING"
  <2>1. m.type \in {"UPDATE_TICK", "DATA_STATUS", "DATA"}
    BY <1>2, <1>5, <1>6 DEF ReceivedPhase
  <2>2. k.state = "CONNECTED"
    BY <1>2, <1>5, <2>1 DEF C!Ignores
  <2>3. CASE m.type = "UPDATE_TICK"
    <3>1. /\ m.version \in 1..v /\ m.timestamp = m.version % TimestampMod
          /\ k.tick # 0 => m.version = k.tick + 1
      BY <1>2, <1>6, <2>2, <2>3 DEF ReceivedStream
    <3>2. k.currentTimestamp = k.tick % TimestampMod
      BY <1>2, <2>2 DEF Synced
    <3>3. ASSUME k.currentTimestamp # 0 PROVE m.timestamp = (k.currentTimestamp + 1) % TimestampMod
      <4>1. k.tick # 0
        BY <3>2, <3>3, TimestampModAssumption
      <4>2. (k.tick + 1) % TimestampMod = ((k.tick % TimestampMod) + 1) % TimestampMod
        BY <1>2, TimestampModAssumption, ModSucc
      <4> QED BY <3>1, <3>2, <4>1, <4>2
    <3>4. C!ExpectedTimestamp(k, m.timestamp)
      BY <3>3 DEF C!ExpectedTimestamp
    <3> QED BY <2>2, <2>3, <3>4 DEF C!Throws
  <2>4. CASE m.type = "DATA_STATUS"
    <3>1. k.expectedMsg = "SERVER_DATA_STATUS"
      BY <1>2, <1>3, <2>2, <2>4, RequestsTake
    <3> QED BY <2>4, <3>1 DEF C!Throws
  <2>5. CASE m.type = "DATA"
    <3>1. k.dataFlags /\ (m.isUpdate => k.dataUpdateFlags)
      BY <1>2, <1>6, <2>2, <2>5 DEF ReceivedStream
    <3> QED BY <2>2, <2>5, <3>1 DEF C!Throws
  <2> QED BY <2>1, <2>3, <2>4, <2>5
<1> QED BY <1>4, <1>5

\* x is k after a message, but for what it asks for then.
LEMMA TakenGood ==
    ASSUME NEW k, NEW s, NEW d, NEW u, NEW lk, NEW m, NEW e, At(k, s, d, u, lk, m, e), NEW v, Good(k, s, d, u, v),
           NEW x, x.state = "CONNECTED", x.reason = k.reason, Asked(x, u) = Asked(k, u), Synced(x),
           NEW Q, Q = Tail(Planned(s, d)),
           Phase("CONNECTED", x.expectedMsg, s.state, Asked(k, u), Q),
           Stream("CONNECTED", x.dataFlags, x.dataUpdateFlags, x.tick, s.state, s.dataFlags, s.dataUpdateFlags, Q, v)
    PROVE  Good(x, s, e, u, v)
<1>1. PICK U, P : U = Asked(k, u) /\ P = Planned(s, d)
  OBVIOUS
<1>2. /\ Planned(s, e) = Q /\ AskedFlags(U) /\ ToldFlags(Q) /\ k.reason # "PROTOCOL_ERROR" /\ s.reason # "PROTOCOL_ERROR"
  BY <1>1, AtGood
<1>3. Talk(x, s, U, Q, v)
  BY <1>1, <1>2 DEF Talk
<1> QED BY <1>1, <1>2, <1>3 DEF Good

\* What remains of the conversation after a tick, a status or data.
LEMMA LaterPhase ==
    ASSUME NEW k, NEW s, NEW d, NEW u, NEW lk, NEW m, NEW e, At(k, s, d, u, lk, m, e), NEW v \in Nat, Good(k, s, d, u, v),
           k.state = "CONNECTED", NEW ke
    PROVE  Phase("CONNECTED", ke, s.state, Asked(k, u), Tail(Planned(s, d)))
<1>1. PICK U, P : U = Asked(k, u) /\ P = Planned(s, d)
  OBVIOUS
<1>2. /\ P \in Seq(ServerMsg) /\ U \in Seq(ClientMsg) /\ P # <<>> /\ Phase(k.state, k.expectedMsg, s.state, U, P)
      /\ Tail(P) \in Seq(ServerMsg)
  BY <1>1, AtGood
<1>3. Phase("CONNECTED", k.expectedMsg, s.state, U, Tail(P))
  <2>1. ReceivedPhase(k.state, k.expectedMsg, s.state, U, P)
    BY <1>1, AtReceives
  <2> QED BY <2>1 DEF ReceivedPhase
<1>4. Phase("CONNECTED", ke, s.state, U, Tail(P))
  BY <1>3 DEF Phase
<1> QED BY <1>1, <1>4

\* Ignoring data, or a message when about to leave, keeps the order.
LEMMA IgnoreGood ==
    ASSUME NEW k, NEW s, NEW d, NEW u, NEW lk, NEW m, NEW e, At(k, s, d, u, lk, m, e), NEW v \in Nat, Good(k, s, d, u, v),
           k.state = "CLOSING" \/ (k.state = "CONNECTED" /\ m.type = "DATA")
    PROVE  Good(k, s, e, u, v)
<1>1. PICK U, P : U = Asked(k, u) /\ P = Planned(s, d)
  OBVIOUS
<1>2. /\ P \in Seq(ServerMsg) /\ U \in Seq(ClientMsg) /\ P # <<>> /\ P[1] = m /\ Planned(s, e) = Tail(P)
      /\ Phase(k.state, k.expectedMsg, s.state, U, P) /\ AskedFlags(U) /\ ToldFlags(Tail(P)) /\ Synced(k)
      /\ Stream(k.state, k.dataFlags, k.dataUpdateFlags, k.tick, s.state, s.dataFlags, s.dataUpdateFlags, P, v)
      /\ k.reason # "PROTOCOL_ERROR" /\ s.reason # "PROTOCOL_ERROR" /\ k.tick \in Nat
  BY <1>1, AtGood
<1>6. /\ ReceivedPhase(k.state, k.expectedMsg, s.state, U, P)
      /\ k.state # "CLOSING" =>
           ReceivedStream(k.dataFlags, k.dataUpdateFlags, k.tick, s.state, s.dataFlags, s.dataUpdateFlags, P, v)
  BY <1>1, AtReceives
<1>3. Phase(k.state, k.expectedMsg, s.state, U, Tail(P))
  BY <1>2, <1>6 DEF ReceivedPhase
<1>4. Stream(k.state, k.dataFlags, k.dataUpdateFlags, k.tick, s.state, s.dataFlags, s.dataUpdateFlags, Tail(P), v)
  <2>1. CASE k.state = "CLOSING"
    BY <2>1 DEF Stream
  <2>2. CASE k.state = "CONNECTED" /\ m.type = "DATA"
    BY <1>2, <1>6, <2>2 DEF ReceivedStream
  <2> QED BY <2>1, <2>2
<1>5. Talk(k, s, U, Tail(P), v)
  BY <1>2, <1>3, <1>4 DEF Talk
<1> QED BY <1>1, <1>2, <1>5 DEF Good

\* The client's answer to the BANNER keeps the order.
LEMMA BannerGood ==
    ASSUME NEW k, NEW s, NEW d, NEW u, NEW lk, NEW m, NEW e, At(k, s, d, u, lk, m, e), NEW v \in Nat, Good(k, s, d, u, v),
           k.state = "OPENING", m.type = "BANNER", NEW r
    PROVE  /\ Closed(r, k, "VERSION_MISMATCH") => Good(r, s, e, u, v)
           /\ Talks(r, k, Append(k.sendQueue, ClientMsgHello), k.writer, "SERVER_HELLO") => Good(r, s, e, u, v)
<1>1. PICK U, P : U = Asked(k, u) /\ P = Planned(s, d)
  OBVIOUS
<1>2. /\ P \in Seq(ServerMsg) /\ U \in Seq(ClientMsg) /\ P # <<>> /\ P[1] = m /\ Planned(s, e) = Tail(P) /\ Speaks(k, u)
      /\ Phase(k.state, k.expectedMsg, s.state, U, P) /\ AskedFlags(U) /\ ToldFlags(Tail(P)) /\ Synced(k)
      /\ Stream(k.state, k.dataFlags, k.dataUpdateFlags, k.tick, s.state, s.dataFlags, s.dataUpdateFlags, P, v)
      /\ k.reason # "PROTOCOL_ERROR" /\ s.reason # "PROTOCOL_ERROR" /\ k.tick \in Nat /\ Tail(P) \in Seq(ServerMsg)
  BY <1>1, AtGood
<1>7. /\ ReceivedPhase(k.state, k.expectedMsg, s.state, U, P)
      /\ ReceivedStream(k.dataFlags, k.dataUpdateFlags, k.tick, s.state, s.dataFlags, s.dataUpdateFlags, P, v)
  BY <1>1, AtReceives
<1>3. m = ServerMsgBanner /\ U = <<>> /\ s.state # "CONNECTED" /\ Tail(P) = <<>>
  BY <1>2, <1>7, Vocabulary DEF ReceivedPhase
<1>4. Phase("DISCONNECTED", k.expectedMsg, s.state, U, Tail(P))
  BY <1>2, <1>7 DEF ReceivedPhase
<1>5. ASSUME Closed(r, k, "VERSION_MISMATCH") PROVE Good(r, s, e, u, v)
  <2>1. Talk(r, s, Asked(r, u), Tail(P), v)
    BY <1>1, <1>2, <1>4, <1>5, CloseTalk
  <2> QED BY <1>2, <2>1 DEF Good
<1>6. ASSUME Talks(r, k, Append(k.sendQueue, ClientMsgHello), k.writer, "SERVER_HELLO") PROVE Good(r, s, e, u, v)
  <2>1. Asked(r, u) = Append(U, ClientMsgHello)
    BY <1>1, <1>6, BannerBase
  <2>2. Asked(r, u) = <<ClientMsgHello>>
    BY ONLY <1>3, <2>1
  <2>3. Alike(r, k) /\ r.expectedMsg = "SERVER_HELLO" /\ r.state = "OPENING"
    BY <1>6 DEF Talks, Alike
  <2>4. Phase(r.state, r.expectedMsg, s.state, <<ClientMsgHello>>, <<>>)
    BY <1>2, <1>3, <2>3 DEF Phase
  <2>5. AskedFlags(<<ClientMsgHello>>)
    BY Vocabulary DEF AskedFlags
  <2>6. Stream(k.state, k.dataFlags, k.dataUpdateFlags, k.tick, s.state, s.dataFlags, s.dataUpdateFlags, Tail(P), v)
    BY <1>2, <1>3, <1>7, Vocabulary DEF ReceivedStream
  <2>7. Synced(r)
    BY <1>2, <2>3, SyncedSame DEF Alike, SameFlags
  <2>8. Talk(r, s, <<ClientMsgHello>>, <<>>, v)
    BY <1>2, <1>3, <2>3, <2>4, <2>5, <2>6, <2>7 DEF Talk, Alike, SameFlags, SameData
  <2> QED BY <1>2, <1>3, <2>2, <2>8 DEF Good
<1> QED BY <1>5, <1>6

\* The client's step at the HELLO keeps the order.
LEMMA HelloGood ==
    ASSUME NEW k, NEW s, NEW d, NEW u, NEW lk, NEW m, NEW e, At(k, s, d, u, lk, m, e), NEW v \in Nat, Good(k, s, d, u, v),
           k.state = "OPENING", m.type = "HELLO", NEW r, HelloTaken(r, k)
    PROVE  Good(r, s, e, u, v)
<1>1. PICK x : /\ Asks(r, x) /\ x \in C!ClientType
               /\ x.state = "CONNECTED" /\ x.expectedMsg = "NONE" /\ x.sendQueue = k.sendQueue /\ x.writer = k.writer
               /\ x.reason = k.reason
               /\ x.dataFlags = FALSE /\ x.dataUpdateFlags = FALSE /\ x.currentTimestamp = 0
               /\ x.requestedData = TRUE /\ x.remainingData = FALSE /\ x.isSynchronized = FALSE
               /\ x.tick = k.tick
  BY DEF HelloTaken
<1>2. PICK U, P, Q : U = Asked(k, u) /\ P = Planned(s, d) /\ Q = Tail(P)
  OBVIOUS
<1>3. Base(x, s, e, u, lk) /\ Asked(x, u) = Asked(k, u)
  BY <1>1, HelloBase
<1>4. Fresh(k) /\ P[1] = m /\ U \in Seq(ClientMsg)
  BY <1>2, AtFacts
<1>5. k.tick = 0 /\ k.dataFlags = FALSE /\ k.dataUpdateFlags = FALSE
  BY <1>4 DEF Fresh
<1>6. Synced(x)
  BY <1>1, <1>5, TimestampModAssumption DEF Synced
<1>7. /\ ReceivedPhase(k.state, k.expectedMsg, s.state, U, P)
      /\ ReceivedStream(k.dataFlags, k.dataUpdateFlags, k.tick, s.state, s.dataFlags, s.dataUpdateFlags, P, v)
  BY <1>2, AtReceives
<1>8. Phase("CONNECTED", "NONE", s.state, U, Q)
  <2>1. /\ U = <<>> /\ s.state # "OPENING" /\ NoHello(Q)
        /\ Phase("DISCONNECTED", k.expectedMsg, s.state, U, Q)
    BY <1>2, <1>4, <1>7, Vocabulary DEF ReceivedPhase
  <2> QED BY <2>1 DEF Phase
<1>9. Stream("CONNECTED", k.dataFlags, k.dataUpdateFlags, k.tick, s.state, s.dataFlags, s.dataUpdateFlags, Q, v)
  BY <1>2, <1>4, <1>7 DEF ReceivedStream
<1>10. Good(x, s, e, u, v)
  <2>1. Stream("CONNECTED", x.dataFlags, x.dataUpdateFlags, x.tick, s.state, s.dataFlags, s.dataUpdateFlags, Q, v)
    BY <1>1, <1>5, <1>9
  <2>2. Phase("CONNECTED", x.expectedMsg, s.state, Asked(k, u), Q)
    BY <1>1, <1>2, <1>8
  <2> QED BY <1>1, <1>2, <1>3, <1>6, <2>1, <2>2, TakenGood
<1> QED BY <1>1, <1>3, <1>10, AskGood

\* The client's step at a tick keeps its list current: data were taken, or it
\* is not synchronized.
LEMMA TickGood ==
    ASSUME NEW k, NEW s, NEW d, NEW u, NEW lk, NEW m, NEW e, At(k, s, d, u, lk, m, e), NEW v \in Nat, Good(k, s, d, u, v),
           k.state = "CONNECTED", m.type = "UPDATE_TICK", NEW r, TickTaken(r, k, m.timestamp, m.version)
    PROVE  Good(r, s, e, u, v)
<1>1. PICK x : /\ Asks(r, x) /\ x \in C!ClientType /\ SameTalk(x, k)
               /\ x.dataFlags = k.dataFlags /\ x.dataUpdateFlags = k.dataUpdateFlags /\ x.currentTimestamp = m.timestamp
               /\ x.requestedData = k.requestedData /\ x.list = k.list /\ x.tick = m.version
               /\ \/ x.remainingData = FALSE /\ x.isSynchronized = FALSE
                  \/ /\ k.remainingData = FALSE /\ x.remainingData = k.requestedData
                     /\ x.isSynchronized = k.isSynchronized
  BY DEF TickTaken
<1>2. PICK U, P, Q : U = Asked(k, u) /\ P = Planned(s, d) /\ Q = Tail(P)
  OBVIOUS
<1>3. Base(x, s, e, u, lk) /\ Asked(x, u) = Asked(k, u)
  BY <1>1, MoreBase
<1>4. P[1] = m /\ k.tick \in Nat /\ k \in C!ClientType /\ Synced(k)
  BY <1>2, AtGood
<1>5. ReceivedStream(k.dataFlags, k.dataUpdateFlags, k.tick, s.state, s.dataFlags, s.dataUpdateFlags, P, v)
  BY <1>2, AtReceives
<1>6. /\ m.version \in 1..v /\ m.timestamp = m.version % TimestampMod
      /\ k.tick # 0 => m.version = k.tick + 1
      /\ Stream("CONNECTED", k.dataFlags, k.dataUpdateFlags, m.version, s.state, s.dataFlags, s.dataUpdateFlags, Q, v)
  BY <1>2, <1>4, <1>5 DEF ReceivedStream
<1>7. Synced(x)
  <2>1. k.requestedData /\ (k.isSynchronized => k.tick # 0 /\ k.list = IF k.remainingData THEN k.tick - 1 ELSE k.tick)
    BY <1>4 DEF Synced
  <2>2. x.remainingData \in BOOLEAN /\ x.isSynchronized \in BOOLEAN /\ k.remainingData \in BOOLEAN /\ k.requestedData \in BOOLEAN
    BY <1>1, <1>4, ClientFields
  <2>3. x.tick # 0 /\ x.requestedData /\ x.currentTimestamp = x.tick % TimestampMod
    BY <1>1, <1>6, <2>1
  <2>4. ASSUME x.isSynchronized PROVE x.list = IF x.remainingData THEN x.tick - 1 ELSE x.tick
    <3>1. k.isSynchronized /\ k.remainingData = FALSE /\ x.remainingData
      BY <1>1, <2>1, <2>4
    <3>2. k.tick # 0 /\ k.list = k.tick
      BY <2>1, <3>1
    <3>3. x.list = k.tick /\ x.tick = k.tick + 1
      BY <1>1, <1>6, <3>2
    <3> QED BY <1>4, <3>1, <3>3
  <2> QED BY <2>3, <2>4 DEF Synced
<1>8. Good(x, s, e, u, v)
  <2>1. Stream("CONNECTED", x.dataFlags, x.dataUpdateFlags, x.tick, s.state, s.dataFlags, s.dataUpdateFlags, Q, v)
    BY <1>1, <1>6
  <2>2. Phase("CONNECTED", x.expectedMsg, s.state, Asked(k, u), Q)
    BY <1>2, LaterPhase
  <2>3. x.state = "CONNECTED" /\ x.reason = k.reason
    BY <1>1 DEF SameTalk
  <2> QED BY <1>2, <1>3, <1>7, <2>1, <2>2, <2>3, TakenGood
<1> QED BY <1>1, <1>3, <1>8, AskGood

\* The client's step at an answer keeps the order.
LEMMA StatusGood ==
    ASSUME NEW k, NEW s, NEW d, NEW u, NEW lk, NEW m, NEW e, At(k, s, d, u, lk, m, e), NEW v \in Nat, Good(k, s, d, u, v),
           k.state = "CONNECTED", m.type = "DATA_STATUS", NEW r, StatusTaken(r, k, m.dataFlags, m.dataUpdateFlags)
    PROVE  Good(r, s, e, u, v)
<1>1. PICK x : /\ Asks(r, x) /\ x \in C!ClientType
               /\ x.state = k.state /\ x.expectedMsg = "NONE" /\ x.sendQueue = k.sendQueue /\ x.writer = k.writer
               /\ x.reason = k.reason
               /\ x.dataFlags = m.dataFlags /\ x.dataUpdateFlags = m.dataUpdateFlags
               /\ x.currentTimestamp = k.currentTimestamp
               /\ k.requestedData /\ m.dataFlags => x.requestedData
               /\ x.remainingData = k.remainingData /\ x.isSynchronized = k.isSynchronized
               /\ x.list = k.list /\ x.tick = k.tick
  BY DEF StatusTaken
<1>2. PICK U, P, Q : U = Asked(k, u) /\ P = Planned(s, d) /\ Q = Tail(P)
  OBVIOUS
<1>3. Base(x, s, e, u, lk) /\ Asked(x, u) = Asked(k, u)
  BY <1>1, StatusBase
<1>4. P[1] = m /\ Synced(k) /\ ToldFlags(P) /\ 1 \in 1..Len(P)
  BY <1>2, AtGood
<1>5. ReceivedStream(k.dataFlags, k.dataUpdateFlags, k.tick, s.state, s.dataFlags, s.dataUpdateFlags, P, v)
  BY <1>2, AtReceives
<1>6. Stream("CONNECTED", m.dataFlags, m.dataUpdateFlags, k.tick, s.state, s.dataFlags, s.dataUpdateFlags, Q, v)
  BY <1>2, <1>4, <1>5 DEF ReceivedStream
<1>7. Synced(x)
  <2>1. m.dataFlags
    BY <1>4 DEF ToldFlags
  <2> QED BY <1>1, <1>4, <2>1 DEF Synced
<1>8. Good(x, s, e, u, v)
  <2>1. Stream("CONNECTED", x.dataFlags, x.dataUpdateFlags, x.tick, s.state, s.dataFlags, s.dataUpdateFlags, Q, v)
    BY <1>1, <1>6
  <2>2. Phase("CONNECTED", x.expectedMsg, s.state, Asked(k, u), Q)
    BY <1>2, LaterPhase
  <2> QED BY <1>1, <1>2, <1>3, <1>7, <2>1, <2>2, TakenGood
<1> QED BY <1>1, <1>3, <1>8, AskGood

\* The client's step at data makes its list that of its last tick.
LEMMA DataGood ==
    ASSUME NEW k, NEW s, NEW d, NEW u, NEW lk, NEW m, NEW e, At(k, s, d, u, lk, m, e), NEW v \in Nat, Good(k, s, d, u, v),
           k.state = "CONNECTED", m.type = "DATA", NEW r, DataTaken(r, k, m)
    PROVE  Good(r, s, e, u, v)
<1>1. PICK x : /\ Asks(r, x) /\ x \in C!ClientType /\ SameTalk(x, k) /\ SameFlags(x, k)
               /\ x.requestedData = k.requestedData /\ x.remainingData = FALSE
               /\ x.list = C!Applied(k.list, m) /\ x.tick = k.tick
               /\ k.remainingData /\ (m.isUpdate => k.isSynchronized)
  BY DEF DataTaken
<1>2. PICK U, P, Q : U = Asked(k, u) /\ P = Planned(s, d) /\ Q = Tail(P)
  OBVIOUS
<1>3. Base(x, s, e, u, lk) /\ Asked(x, u) = Asked(k, u)
  BY <1>1, MoreBase
<1>4. P[1] = m /\ k.tick \in Nat /\ k \in C!ClientType /\ Synced(k)
  BY <1>2, AtGood
<1>5. ReceivedStream(k.dataFlags, k.dataUpdateFlags, k.tick, s.state, s.dataFlags, s.dataUpdateFlags, P, v)
  BY <1>2, AtReceives
<1>6. /\ k.tick # 0 => m.version = k.tick
      /\ Stream("CONNECTED", k.dataFlags, k.dataUpdateFlags, k.tick, s.state, s.dataFlags, s.dataUpdateFlags, Q, v)
  BY <1>2, <1>4, <1>5 DEF ReceivedStream
<1>7. Synced(x)
  <2>1. /\ k.requestedData /\ k.currentTimestamp = k.tick % TimestampMod /\ k.tick # 0
        /\ k.isSynchronized => k.list = k.tick - 1
    BY <1>1, <1>4 DEF Synced
  <2>2. m.version = k.tick
    BY <1>6, <2>1
  <2>3. C!Applied(k.list, m) = k.tick
    BY <1>1, <2>1, <2>2 DEF C!Applied
  <2>4. x.currentTimestamp = k.currentTimestamp
    BY <1>1 DEF SameFlags
  <2> QED BY <1>1, <2>1, <2>3, <2>4 DEF Synced
<1>8. Good(x, s, e, u, v)
  <2>1. Stream("CONNECTED", x.dataFlags, x.dataUpdateFlags, x.tick, s.state, s.dataFlags, s.dataUpdateFlags, Q, v)
    BY <1>1, <1>6 DEF SameFlags
  <2>2. Phase("CONNECTED", x.expectedMsg, s.state, Asked(k, u), Q)
    BY <1>2, LaterPhase
  <2>3. x.state = "CONNECTED" /\ x.reason = k.reason
    BY <1>1 DEF SameTalk
  <2> QED BY <1>2, <1>3, <1>7, <2>1, <2>2, <2>3, TakenGood
<1> QED BY <1>1, <1>3, <1>8, AskGood

\* Whatever message the client takes, the order is kept and it is no protocol
\* error.
LEMMA MessageGood ==
    ASSUME NEW k, NEW s, NEW d, NEW u, NEW lk, NEW m, NEW e, At(k, s, d, u, lk, m, e), NEW v \in Nat, Good(k, s, d, u, v),
           NEW r, MessageTaken(r, k, m)
    PROVE  Good(r, s, e, u, v)
<1>1. CASE C!Ignores(k, m) /\ r = k
  <2>1. k.state = "CLOSING"
    BY <1>1 DEF C!Ignores
  <2> QED BY <1>1, <2>1, IgnoreGood
<1>2. CASE ~C!Ignores(k, m) /\ C!Throws(k, m)
  BY <1>2, NothingThrows
<1>3. CASE /\ m.type = "BANNER" /\ k.state = "OPENING"
           /\ \/ Closed(r, k, "VERSION_MISMATCH")
              \/ Talks(r, k, Append(k.sendQueue, ClientMsgHello), k.writer, "SERVER_HELLO")
  BY <1>3, BannerGood
<1>4. CASE m.type = "HELLO" /\ k.state = "OPENING" /\ HelloTaken(r, k)
  BY <1>4, HelloGood
<1>5. CASE m.type = "UPDATE_TICK" /\ k.state = "CONNECTED" /\ TickTaken(r, k, m.timestamp, m.version)
  BY <1>5, TickGood
<1>6. CASE /\ m.type = "DATA_STATUS" /\ k.state # "CLOSING" /\ k.expectedMsg = "SERVER_DATA_STATUS"
           /\ StatusTaken(r, k, m.dataFlags, m.dataUpdateFlags)
  <2>1. /\ k.state = "OPENING" => k.expectedMsg \in {"SERVER_BANNER", "SERVER_HELLO"}
        /\ k.state \in {"OPENING", "CONNECTED", "CLOSING"}
    BY AtFacts
  <2>2. k.state = "CONNECTED"
    BY <1>6, <2>1
  <2> QED BY <1>6, <2>2, StatusGood
<1>7. CASE m.type = "DATA" /\ k.state = "CONNECTED" /\ r = k
  BY <1>7, IgnoreGood
<1>8. CASE m.type = "DATA" /\ k.state = "CONNECTED" /\ DataTaken(r, k, m)
  BY <1>8, DataGood
<1> QED BY <1>1, <1>2, <1>3, <1>4, <1>5, <1>6, <1>7, <1>8 DEF MessageTaken

-----------------------------------------------------------------------------
(***************************************************************************)
(* The inductive invariant, and the steps of the two processes.            *)
(***************************************************************************)
Shape ==
    /\ clients \subseteq Clients /\ stale \subseteq Clients
    /\ session \in [Clients -> S!ServerSessionType]
    /\ client \in [Clients -> C!ClientType]
    /\ link \in [Clients -> {"none", "dialing", "open"}]
    /\ down \in [Clients -> Seq(ServerMsg)]
    /\ up \in [Clients -> Seq(ClientMsg)]

\* What holds of the connection of client c.
ConnectionOK(c) ==
    /\ Base(client[c], session[c], down[c], up[c], link[c])
    /\ c \in clients => link[c] = "open"
    /\ c \notin clients => session[c].state = "DISCONNECTED"
    /\ c \notin stale => Good(client[c], session[c], down[c], up[c], version)

\* The inductive invariant.
IInv ==
    /\ version \in Nat /\ SharedOK(shared, version)
    /\ Shape
    /\ \A c \in Clients : ConnectionOK(c)

\* The types behind Base, for the fields of the state.
LEMMA BaseTypes ==
    ASSUME NEW k, NEW s, NEW d, NEW u, NEW lk, Base(k, s, d, u, lk)
    PROVE  /\ k \in C!ClientType /\ s \in S!ServerSessionType /\ d \in Seq(ServerMsg) /\ u \in Seq(ClientMsg)
           /\ lk \in {"none", "dialing", "open"} /\ SessionOK(s) /\ Carries(k.writer)
BY DEF Base, Speaks, Tells, Linked, SessionOK

\* A step of one client keeps the invariant if it keeps what holds of its
\* connection.
LEMMA ClientStepInv ==
    ASSUME IInv, NEW c \in Clients, NEW r, NEW f, NEW w, NEW lk,
           client' = [client EXCEPT ![c] = r], down' = [down EXCEPT ![c] = f], up' = [up EXCEPT ![c] = w],
           link' = [link EXCEPT ![c] = lk], UNCHANGED <<server, stale>>,
           Base(r, session[c], f, w, lk), link[c] = "open" => lk = "open",
           c \notin stale => Good(r, session[c], f, w, version)
    PROVE  IInv'
<1>1. /\ clients' = clients /\ session' = session /\ shared' = shared /\ version' = version /\ stale' = stale
  BY DEF server
<1>2. /\ r \in C!ClientType /\ f \in Seq(ServerMsg) /\ w \in Seq(ClientMsg) /\ lk \in {"none", "dialing", "open"}
  BY BaseTypes
<1>3. Shape'
  BY <1>1, <1>2 DEF IInv, Shape
<1>4. ASSUME NEW b \in Clients PROVE ConnectionOK(b)'
  <2>1. Shape /\ ConnectionOK(b)
    BY DEF IInv
  <2>2. CASE b = c
    <3>1. client'[b] = r /\ down'[b] = f /\ up'[b] = w /\ link'[b] = lk /\ session'[b] = session[c]
      BY <1>1, <2>1, <2>2 DEF Shape
    <3>2. ConnectionOK(c)
      BY <2>1, <2>2
    <3> QED BY <1>1, <2>2, <3>1, <3>2 DEF ConnectionOK
  <2>3. CASE b # c
    <3>1. client'[b] = client[b] /\ down'[b] = down[b] /\ up'[b] = up[b] /\ link'[b] = link[b]
      BY <2>1, <2>3 DEF Shape
    <3> QED BY <1>1, <2>1, <3>1 DEF ConnectionOK
  <2> QED BY <2>2, <2>3
<1> QED BY <1>1, <1>3, <1>4 DEF IInv

\* A step of one session keeps the invariant if it keeps what holds of its
\* connection.
LEMMA ServerStepInv ==
    ASSUME IInv, NEW c \in Clients, NEW r, NEW f, NEW w,
           session' = [session EXCEPT ![c] = r], down' = [down EXCEPT ![c] = f], up' = [up EXCEPT ![c] = w],
           link' = [link EXCEPT ![c] = "open"], clients' = clients \cup {c}, UNCHANGED <<shared, version, client>>,
           stale \subseteq stale', stale' \subseteq stale \cup {c},
           Base(client[c], r, f, w, "open"), c \notin stale' => Good(client[c], r, f, w, version)
    PROVE  IInv'
<1>1. /\ r \in S!ServerSessionType /\ f \in Seq(ServerMsg) /\ w \in Seq(ClientMsg)
  BY BaseTypes
<1>2. Shape'
  BY <1>1 DEF IInv, Shape
<1>3. ASSUME NEW b \in Clients PROVE ConnectionOK(b)'
  <2>1. Shape /\ ConnectionOK(b)
    BY DEF IInv
  <2>2. CASE b = c
    <3>1. session'[b] = r /\ down'[b] = f /\ up'[b] = w /\ link'[b] = "open" /\ client'[b] = client[c] /\ b \in clients'
      BY <2>1, <2>2 DEF Shape
    <3> QED BY <2>2, <3>1 DEF ConnectionOK
  <2>3. CASE b # c
    <3>1. session'[b] = session[b] /\ down'[b] = down[b] /\ up'[b] = up[b] /\ link'[b] = link[b] /\ client'[b] = client[b]
      BY <2>1, <2>3 DEF Shape
    <3>2. (b \in clients' <=> b \in clients) /\ (b \in stale' <=> b \in stale)
      BY <2>3
    <3> QED BY <2>1, <3>1, <3>2 DEF ConnectionOK
  <2> QED BY <2>2, <2>3
<1> QED BY <1>2, <1>3 DEF IInv

\* Nothing else happens to the connection.
LEMMA Unchanged ==
    ASSUME IInv, NEW c \in Clients
    PROVE  /\ client = [client EXCEPT ![c] = client[c]] /\ session = [session EXCEPT ![c] = session[c]]
           /\ down = [down EXCEPT ![c] = down[c]] /\ up = [up EXCEPT ![c] = up[c]] /\ link = [link EXCEPT ![c] = link[c]]
           /\ c \in clients => /\ link = [link EXCEPT ![c] = "open"] /\ clients = clients \cup {c}
                               /\ Base(client[c], session[c], down[c], up[c], "open")
           /\ Base(client[c], session[c], down[c], up[c], link[c])
           /\ c \notin stale => Good(client[c], session[c], down[c], up[c], version)
           /\ version \in Nat /\ SharedOK(shared, version)
           /\ SessionOK(session[c]) /\ client[c] \in C!ClientType /\ Carries(client[c].writer)
           /\ DOMAIN client = Clients /\ DOMAIN session = Clients /\ DOMAIN down = Clients /\ DOMAIN up = Clients
           /\ DOMAIN link = Clients
<1>1. Shape /\ ConnectionOK(c) /\ version \in Nat /\ SharedOK(shared, version)
  BY DEF IInv
<1>2. c \in clients => link[c] = "open"
  BY <1>1 DEF ConnectionOK
<1>3. /\ Base(client[c], session[c], down[c], up[c], link[c])
      /\ c \notin stale => Good(client[c], session[c], down[c], up[c], version)
  BY <1>1 DEF ConnectionOK
<1>4. SessionOK(session[c]) /\ client[c] \in C!ClientType /\ Carries(client[c].writer)
  BY <1>3, BaseTypes
<1>5. /\ client = [client EXCEPT ![c] = client[c]] /\ session = [session EXCEPT ![c] = session[c]]
      /\ down = [down EXCEPT ![c] = down[c]] /\ up = [up EXCEPT ![c] = up[c]] /\ link = [link EXCEPT ![c] = link[c]]
      /\ DOMAIN client = Clients /\ DOMAIN session = Clients /\ DOMAIN down = Clients /\ DOMAIN up = Clients
      /\ DOMAIN link = Clients
  BY <1>1 DEF Shape
<1>6. c \in clients => /\ link = [link EXCEPT ![c] = "open"] /\ clients = clients \cup {c}
                       /\ Base(client[c], session[c], down[c], up[c], "open")
  BY <1>2, <1>3, <1>5
<1> QED BY <1>1, <1>3, <1>4, <1>5, <1>6

\* A step of the client that changes nothing but the client.
LEMMA ClientOnlyInv ==
    ASSUME IInv, NEW c \in Clients, NEW r, client' = [client EXCEPT ![c] = r], UNCHANGED <<server, link, down, up, stale>>,
           Base(r, session[c], down[c], up[c], link[c]),
           c \notin stale => Good(r, session[c], down[c], up[c], version)
    PROVE  IInv'
<1>1. /\ down' = [down EXCEPT ![c] = down[c]] /\ up' = [up EXCEPT ![c] = up[c]] /\ link' = [link EXCEPT ![c] = link[c]]
  BY Unchanged
<1>2. PICK f, w, lk : f = down[c] /\ w = up[c] /\ lk = link[c]
  OBVIOUS
<1>3. UNCHANGED <<server, stale>>
  OBVIOUS
<1>4. /\ down' = [down EXCEPT ![c] = f] /\ up' = [up EXCEPT ![c] = w] /\ link' = [link EXCEPT ![c] = lk]
      /\ Base(r, session[c], f, w, lk) /\ (link[c] = "open" => lk = "open")
      /\ c \notin stale => Good(r, session[c], f, w, version)
  BY <1>1, <1>2
<1> QED BY ONLY IInv, c \in Clients, client' = [client EXCEPT ![c] = r], <1>3, <1>4, ClientStepInv

\* The user connects the client.
LEMMA ClientConnectInv ==
    ASSUME IInv, NEW c \in Clients, ClientConnect(c)
    PROVE  IInv'
<1>1. PICK k, s, r : k = client[c] /\ s = session[c] /\ r = C!connect(k)
  OBVIOUS
<1>2. /\ link[c] = "none" /\ link' = [link EXCEPT ![c] = "dialing"] /\ client' = [client EXCEPT ![c] = r]
      /\ UNCHANGED <<server, stale>> /\ down' = [down EXCEPT ![c] = down[c]] /\ up' = [up EXCEPT ![c] = up[c]]
  BY <1>1, Unchanged DEF ClientConnect
<1>3. /\ Base(k, s, down[c], up[c], "none") /\ (c \notin stale => Good(k, s, down[c], up[c], version))
  BY <1>1, <1>2, Unchanged
<1>4. Base(r, s, down[c], up[c], "dialing")
  BY <1>1, <1>3, ConnectBase
<1>5. c \notin stale => Good(r, s, down[c], up[c], version)
  BY <1>1, <1>3, ConnectGood
<1> QED BY <1>1, <1>2, <1>4, <1>5, ClientStepInv

\* The client takes a message.
LEMMA ClientInputInv ==
    ASSUME IInv, NEW c \in Clients, ClientInput(c)
    PROVE  IInv'
<1>1. PICK k, s, d, m, e, x, r : /\ k = client[c] /\ s = session[c] /\ d = down[c] /\ m = Head(d) /\ e = Tail(d)
                                 /\ x = C!onMessage(k, m) /\ r = C!HandleInput(k, m)
  OBVIOUS
<1>2. /\ k.state # "DISCONNECTED" /\ d # <<>> /\ client' = [client EXCEPT ![c] = r] /\ down' = [down EXCEPT ![c] = e]
      /\ up' = [up EXCEPT ![c] = up[c]] /\ link' = [link EXCEPT ![c] = link[c]] /\ UNCHANGED <<server, stale>>
  BY <1>1, Unchanged DEF ClientInput
<1>3. /\ Base(k, s, d, up[c], link[c]) /\ (c \notin stale => Good(k, s, d, up[c], version)) /\ k \in C!ClientType
      /\ version \in Nat
  BY <1>1, Unchanged
<1>4. At(k, s, d, up[c], link[c], m, e)
  BY <1>1, <1>2, <1>3 DEF At
<1>5. m \in ServerMsg
  BY <1>4, AtFacts
<1>6. MessageTaken(x, k, m)
  BY <1>1, <1>3, <1>5, ClientMessage
<1>7. Base(x, s, e, up[c], link[c])
  BY <1>4, <1>6, MessageBase
<1>8. c \notin stale => Good(x, s, e, up[c], version)
  BY <1>3, <1>4, <1>6, MessageGood
<1>9. Asks(r, x)
  <2>1. x \in C!ClientType
    BY <1>7, BaseTypes
  <2>2. SameClient(r, x)
    BY <1>1, <2>1, ClientHandles
  <2> QED BY <2>2, AsksNothing
<1>10. Base(r, s, e, up[c], link[c])
  BY <1>7, <1>9, AskBase
<1>11. c \notin stale => Good(r, s, e, up[c], version)
  BY <1>7, <1>8, <1>9, AskGood
<1> QED BY <1>1, <1>2, <1>10, <1>11, ClientStepInv

\* A step that ends the client's session.
LEMMA ClientCloseInv ==
    ASSUME IInv, NEW c \in Clients, client[c].state # "DISCONNECTED", NEW r, client' = [client EXCEPT ![c] = r],
           UNCHANGED <<server, link, down, up, stale>>, NEW reason, Closed(r, client[c], reason),
           c \notin stale => reason # "PROTOCOL_ERROR"
    PROVE  IInv'
<1>1. PICK k, s : k = client[c] /\ s = session[c]
  OBVIOUS
<1>2. /\ Base(k, s, down[c], up[c], link[c]) /\ (c \notin stale => Good(k, s, down[c], up[c], version))
  BY <1>1, Unchanged
<1>3. Tells(s, down[c])
  BY <1>2 DEF Base
<1>4. Base(r, s, down[c], up[c], link[c])
  BY <1>1, <1>2, <1>3, CloseBase
<1>5. c \notin stale => Good(r, s, down[c], up[c], version)
  BY <1>1, <1>2, CloseGood
<1> QED BY <1>1, <1>4, <1>5, ClientOnlyInv

\* A step that may ask for data.
LEMMA ClientAskInv ==
    ASSUME IInv, NEW c \in Clients, NEW r, client' = [client EXCEPT ![c] = r],
           UNCHANGED <<server, link, down, up, stale>>, Asks(r, client[c])
    PROVE  IInv'
<1>1. PICK k, s : k = client[c] /\ s = session[c]
  OBVIOUS
<1>2. /\ Base(k, s, down[c], up[c], link[c]) /\ (c \notin stale => Good(k, s, down[c], up[c], version))
  BY <1>1, Unchanged
<1>3. Base(r, s, down[c], up[c], link[c])
  BY <1>1, <1>2, AskBase
<1>4. c \notin stale => Good(r, s, down[c], up[c], version)
  BY <1>1, <1>2, AskGood
<1> QED BY <1>1, <1>3, <1>4, ClientOnlyInv

\* The client finds the connection closed by the server.
LEMMA ClientConnectionLostInv ==
    ASSUME IInv, NEW c \in Clients, ClientConnectionLost(c)
    PROVE  IInv'
<1>1. PICK k, r : k = client[c] /\ r = C!HandleConnectionLost(k)
  OBVIOUS
<1>2. k.state # "DISCONNECTED" /\ client' = [client EXCEPT ![c] = r] /\ UNCHANGED <<server, link, down, up, stale>>
  BY <1>1 DEF ClientConnectionLost
<1>3. PICK reason \in EDisconnectReason : reason \in {k.reason, "CONNECTION_LOST"} /\ Closed(r, k, reason)
  <2>1. k \in C!ClientType
    BY <1>1, Unchanged
  <2> QED BY <1>1, <2>1, ClientLost
<1>4. c \notin stale => reason # "PROTOCOL_ERROR"
  <2>1. c \notin stale => Good(k, session[c], down[c], up[c], version)
    BY <1>1, Unchanged
  <2> QED BY <1>3, <2>1 DEF Good, Talk
<1> QED BY <1>1, <1>2, <1>3, <1>4, ClientCloseInv

\* The socket of the client fails.
LEMMA ClientSocketErrorInv ==
    ASSUME IInv, NEW c \in Clients, ClientSocketError(c)
    PROVE  IInv'
<1>1. PICK k, r : k = client[c] /\ r = C!quickDisconnect(k, "SOCKET_ERROR")
  OBVIOUS
<1>2. k.state # "DISCONNECTED" /\ client' = [client EXCEPT ![c] = r] /\ UNCHANGED <<server, link, down, up, stale>>
  BY <1>1 DEF ClientSocketError
<1>3. k \in C!ClientType /\ "SOCKET_ERROR" \in EDisconnectReason
  BY <1>1, Unchanged DEF EDisconnectReason
<1>4. Closed(r, k, "SOCKET_ERROR")
  BY <1>1, <1>3, ClientClose
<1> QED BY <1>1, <1>2, <1>4, ClientCloseInv

\* The timer of the client fires.
LEMMA ClientUpdateInv ==
    ASSUME IInv, NEW c \in Clients, ClientUpdate(c)
    PROVE  IInv'
<1>1. PICK k, r : k = client[c] /\ r = C!onUpdate(k)
  OBVIOUS
<1>2. k.state # "DISCONNECTED" /\ client' = [client EXCEPT ![c] = r] /\ UNCHANGED <<server, link, down, up, stale>>
  BY <1>1 DEF ClientUpdate
<1>3. k \in C!ClientType
  BY <1>1, Unchanged
<1>4. SameClient(r, k) \/ Closed(r, k, "TIMEOUT")
  BY <1>1, <1>2, <1>3, ClientTimer
<1>5. CASE SameClient(r, k)
  <2>1. Asks(r, k)
    BY <1>5, AsksNothing
  <2> QED BY <1>1, <1>2, <2>1, ClientAskInv
<1>6. CASE Closed(r, k, "TIMEOUT")
  BY <1>1, <1>2, <1>6, ClientCloseInv
<1> QED BY <1>4, <1>5, <1>6

\* A command of the user: pause, resume, request, disconnect.
LEMMA ClientCommandInv ==
    ASSUME IInv, NEW c \in Clients, ClientCommand(c)
    PROVE  IInv'
<1>1. PICK k, s, a, b : k = client[c] /\ s = session[c] /\ a = C!setPaused(k, ~k.isPaused) /\ b = C!disconnect(k)
  OBVIOUS
<1>2. /\ UNCHANGED <<server, link, down, up, stale>>
      /\ client' = [client EXCEPT ![c] = a] \/ client' = [client EXCEPT ![c] = b]
  BY <1>1 DEF ClientCommand
<1>3. k \in C!ClientType /\ Base(k, s, down[c], up[c], link[c])
      /\ (c \notin stale => Good(k, s, down[c], up[c], version))
  BY <1>1, Unchanged
<1>4. CASE client' = [client EXCEPT ![c] = a]
  <2>1. (~k.isPaused) \in BOOLEAN
    OBVIOUS
  <2>2. Asks(a, k)
    BY <1>1, <1>3, <2>1, ClientPause
  <2> QED BY <1>1, <1>2, <1>4, <2>2, ClientAskInv
<1>5. CASE client' = [client EXCEPT ![c] = b]
  <2>1. \/ k.state = "CONNECTED" /\ Leaves(b, k)
        \/ k.state = "OPENING" /\ Closed(b, k, "USER_DECISION")
        \/ k.state \notin {"CONNECTED", "OPENING"} /\ b = k
    BY <1>1, <1>3, ClientLeaves
  <2>2. CASE k.state = "CONNECTED" /\ Leaves(b, k)
    <3>1. Base(b, s, down[c], up[c], link[c])
      BY <1>3, <2>2, LeaveBase
    <3>2. c \notin stale => Good(b, s, down[c], up[c], version)
      BY <1>3, <2>2, LeaveGood
    <3> QED BY <1>1, <1>2, <1>5, <3>1, <3>2, ClientOnlyInv
  <2>3. CASE k.state = "OPENING" /\ Closed(b, k, "USER_DECISION")
    BY <1>1, <1>2, <1>5, <2>3, ClientCloseInv
  <2>4. CASE b = k
    BY <1>1, <1>2, <1>3, <1>5, <2>4, ClientOnlyInv
  <2> QED BY <2>1, <2>2, <2>3, <2>4
<1> QED BY <1>2, <1>4, <1>5

\* The client sends.
LEMMA ClientOutputInv ==
    ASSUME IInv, NEW c \in Clients, ClientOutput(c)
    PROVE  IInv'
<1>1. PICK k, s, p, x : k = client[c] /\ s = session[c] /\ p = C!Pending(k) /\ x = C!verifyConnect(k)
  OBVIOUS
<1>2. k \in C!ClientType /\ Base(k, s, down[c], up[c], link[c])
      /\ (c \notin stale => Good(k, s, down[c], up[c], version)) /\ DOMAIN client = Clients /\ DOMAIN up = Clients
  BY <1>1, Unchanged
<1>3. k.state # "DISCONNECTED" /\ UNCHANGED <<server, link, down, stale>>
  BY <1>1 DEF ClientOutput
<1>4. CASE client' = [client EXCEPT ![c] = x] /\ up' = up
  <2>1. SameClient(x, k)
    BY <1>1, <1>2, ClientPoll
  <2>2. Asks(x, k)
    BY <2>1, AsksNothing
  <2> QED BY <1>1, <1>3, <1>4, <2>2, ClientAskInv
<1>5. ASSUME NEW n \in 0..Len(p), NEW pos \in {1, 2}, C!CanSend(p, n, pos),
             client' = [client EXCEPT ![c] = C!HandleOutput(k, n, pos)],
             up' = [up EXCEPT ![c] = up[c] \o C!Emitted(p, n, pos, p[1].msg)]
      PROVE  IInv'
  <2>1. PICK u, E, r : u = up[c] /\ E = C!Emitted(p, n, pos, p[1].msg) /\ r = C!HandleOutput(k, n, pos)
    OBVIOUS
  <2>2. /\ Base(r, s, down[c], u \o E, link[c]) /\ Asked(r, u \o E) = Asked(k, u)
        /\ r.state = k.state /\ r.expectedMsg = k.expectedMsg /\ r.reason = k.reason
        /\ SameFlags(r, k) /\ SameData(r, k)
    BY <1>1, <1>2, <1>3, <1>5, <2>1, SayBase
  <2>3. c \notin stale => Good(r, s, down[c], u \o E, version)
    <3>1. Alike(r, k)
      BY <2>2 DEF Alike
    <3> QED BY <1>2, <2>1, <2>2, <3>1, SayGood
  <2>4. /\ client' = [client EXCEPT ![c] = r] /\ up' = [up EXCEPT ![c] = u \o E]
        /\ down' = [down EXCEPT ![c] = down[c]] /\ link' = [link EXCEPT ![c] = link[c]] /\ UNCHANGED <<server, stale>>
    BY <1>3, <1>5, <2>1, Unchanged
  <2> QED BY <1>1, <2>2, <2>3, <2>4, ClientStepInv
<1>6. C!Part = 1 /\ C!Body = 2
  BY DEF C!Part, C!Body
<1> QED BY <1>1, <1>2, <1>4, <1>5, <1>6 DEF ClientOutput

\* A step of the server on one connection it knows.
LEMMA SessionStepInv ==
    ASSUME IInv, NEW c \in clients, NEW r, NEW f, NEW w,
           session' = [session EXCEPT ![c] = r], down' = [down EXCEPT ![c] = f], up' = [up EXCEPT ![c] = w],
           UNCHANGED <<clients, shared, version, client, link>>,
           stale \subseteq stale', stale' \subseteq stale \cup {c},
           Base(client[c], r, f, w, "open"), c \notin stale' => Good(client[c], r, f, w, version)
    PROVE  IInv'
<1>1. c \in Clients
  BY DEF IInv, Shape
<1>2. link' = [link EXCEPT ![c] = "open"] /\ clients' = clients \cup {c} /\ UNCHANGED <<shared, version, client>>
  BY <1>1, Unchanged
<1> QED BY ONLY IInv, <1>1, <1>2, session' = [session EXCEPT ![c] = r], down' = [down EXCEPT ![c] = f],
                up' = [up EXCEPT ![c] = w], stale \subseteq stale', stale' \subseteq stale \cup {c},
                Base(client[c], r, f, w, "open"), c \notin stale' => Good(client[c], r, f, w, version), ServerStepInv

\* The server accepts a connection.
LEMMA AcceptInv ==
    ASSUME IInv, NEW c \in Clients, Accept(c)
    PROVE  IInv'
<1>1. PICK k, s, r : k = client[c] /\ s = session[c] /\ r = S!NewServerSession(shared)
  OBVIOUS
<1>2. /\ link[c] = "dialing" /\ link' = [link EXCEPT ![c] = "open"] /\ clients' = clients \cup {c}
      /\ session' = [session EXCEPT ![c] = r] /\ UNCHANGED <<shared, version, client>> /\ stale' = stale
      /\ down' = [down EXCEPT ![c] = down[c]] /\ up' = [up EXCEPT ![c] = up[c]]
  BY <1>1, Unchanged DEF Accept
<1>3. /\ Base(k, s, down[c], up[c], "dialing") /\ (c \notin stale => Good(k, s, down[c], up[c], version))
      /\ SharedOK(shared, version)
  BY <1>1, <1>2, Unchanged
<1>4. Base(k, r, down[c], up[c], "open")
  BY <1>1, <1>3, AcceptBase
<1>5. c \notin stale => Good(k, r, down[c], up[c], version)
  BY <1>1, <1>3, AcceptGood
<1>6. stale \subseteq stale' /\ stale' \subseteq stale \cup {c} /\ (c \notin stale' => Good(k, r, down[c], up[c], version))
  BY <1>2, <1>5
<1> QED BY <1>1, <1>2, <1>4, <1>6, ServerStepInv

\* The server takes a message of a client.
LEMMA ServerInputInv ==
    ASSUME IInv, NEW c \in Clients, ServerInput(c)
    PROVE  IInv'
<1>1. PICK k, s, d, u, m, w, r : /\ k = client[c] /\ s = session[c] /\ d = down[c] /\ u = up[c]
                                 /\ m = Head(u) /\ w = Tail(u) /\ r = S!HandleInput(s, m, shared)
  OBVIOUS
<1>2. /\ c \in clients /\ s.state # "DISCONNECTED" /\ u # <<>>
      /\ session' = [session EXCEPT ![c] = r] /\ up' = [up EXCEPT ![c] = w] /\ down' = [down EXCEPT ![c] = d]
      /\ UNCHANGED <<clients, shared, version, client, link>> /\ stale' = stale
  BY <1>1, Unchanged DEF ServerInput
<1>3. /\ Base(k, s, d, u, "open") /\ (c \notin stale => Good(k, s, d, u, version)) /\ SessionOK(s)
      /\ SharedOK(shared, version) /\ version \in Nat
  BY <1>1, <1>2, Unchanged
<1>4. Heard(k, s, d, u, m, w)
  BY <1>1, <1>2, <1>3 DEF Heard
<1>5. m \in ClientMsg
  BY <1>4, HeardFacts
<1>6. HeardAs(r, s, m)
  BY <1>1, <1>3, <1>5, InputIs
<1>7. Base(k, r, d, w, "open")
  BY <1>4, <1>6, InputBase
<1>8. c \notin stale => Good(k, r, d, w, version)
  BY <1>3, <1>4, <1>6, <1>7, InputGood
<1>9. stale \subseteq stale' /\ stale' \subseteq stale \cup {c} /\ (c \notin stale' => Good(k, r, d, w, version))
  BY <1>2, <1>8
<1> QED BY <1>1, <1>2, <1>7, <1>9, SessionStepInv

\* The server finds a connection closed by the client.
LEMMA ServerConnectionLostInv ==
    ASSUME IInv, NEW c \in Clients, ServerConnectionLost(c)
    PROVE  IInv'
<1>1. PICK k, s, d, u, reason, r : /\ k = client[c] /\ s = session[c] /\ d = down[c] /\ u = up[c]
                                   /\ reason = "CONNECTION_LOST" /\ r = S!quickDisconnect(s, reason)
  OBVIOUS
<1>2. /\ c \in clients /\ session' = [session EXCEPT ![c] = r]
      /\ up' = [up EXCEPT ![c] = u] /\ down' = [down EXCEPT ![c] = d]
      /\ UNCHANGED <<clients, shared, version, client, link>> /\ stale' = stale
  BY <1>1, Unchanged DEF ServerConnectionLost
<1>3. /\ Base(k, s, d, u, "open") /\ (c \notin stale => Good(k, s, d, u, version))
      /\ reason \in EDisconnectReason /\ reason # "PROTOCOL_ERROR"
  BY <1>1, <1>2, Unchanged DEF EDisconnectReason
<1>4. /\ Base(k, r, d, u, "open") /\ Ended(r, s, reason) /\ Thins(d, Planned(s, d), FALSE) /\ d \in Seq(ServerMsg)
  BY <1>1, <1>3, LostBase
<1>7. Planned(r, d) = d
  BY <1>4 DEF Planned, Ended
<1>5. c \notin stale => Good(k, r, d, u, version)
  BY <1>3, <1>4, <1>7, EndGood
<1>6. stale \subseteq stale' /\ stale' \subseteq stale \cup {c} /\ (c \notin stale' => Good(k, r, d, u, version))
  BY <1>2, <1>5
<1> QED BY <1>1, <1>2, <1>4, <1>6, SessionStepInv

\* The server sends to a client.
LEMMA ServerOutputInv ==
    ASSUME IInv, NEW c \in Clients, ServerOutput(c)
    PROVE  IInv'
<1>1. PICK k, s, d, u, p : k = client[c] /\ s = session[c] /\ d = down[c] /\ u = up[c] /\ p = S!Pending(s, shared)
  OBVIOUS
<1>2. /\ c \in clients /\ s.state # "DISCONNECTED" /\ up' = [up EXCEPT ![c] = u]
      /\ UNCHANGED <<clients, shared, version, client, link>>
  BY <1>1, Unchanged DEF ServerOutput
<1>3. S!Part = 1 /\ S!Body = 2
  BY DEF S!Part, S!Body
<1>4. \E n \in 0..Len(S!Pending(session[c], shared)), pos \in {S!Part, S!Body} :
        \E text \in S!Texts(S!Pending(session[c], shared), shared) :
          /\ S!CanSend(S!Pending(session[c], shared), n, pos)
          /\ session' = [session EXCEPT ![c] = S!HandleOutput(session[c], n, pos, shared)]
          /\ stale' = stale \cup (IF S!SendsReplaced(session[c], n, text, shared) THEN {c} ELSE {})
          /\ down' = [down EXCEPT ![c] = @ \o S!Emitted(S!Pending(session[c], shared), n, pos, text)]
  BY Zenon DEF ServerOutput
<1>5. PICK n \in 0..Len(S!Pending(session[c], shared)), pos \in {S!Part, S!Body} :
        \E text \in S!Texts(S!Pending(session[c], shared), shared) :
          /\ S!CanSend(S!Pending(session[c], shared), n, pos)
          /\ session' = [session EXCEPT ![c] = S!HandleOutput(session[c], n, pos, shared)]
          /\ stale' = stale \cup (IF S!SendsReplaced(session[c], n, text, shared) THEN {c} ELSE {})
          /\ down' = [down EXCEPT ![c] = @ \o S!Emitted(S!Pending(session[c], shared), n, pos, text)]
  BY <1>4, Zenon
<1>12. PICK text \in S!Texts(S!Pending(session[c], shared), shared) :
          /\ S!CanSend(S!Pending(session[c], shared), n, pos)
          /\ session' = [session EXCEPT ![c] = S!HandleOutput(session[c], n, pos, shared)]
          /\ stale' = stale \cup (IF S!SendsReplaced(session[c], n, text, shared) THEN {c} ELSE {})
          /\ down' = [down EXCEPT ![c] = @ \o S!Emitted(S!Pending(session[c], shared), n, pos, text)]
  BY <1>5, Zenon
<1>13. /\ n \in 0..Len(p) /\ pos \in {1, 2} /\ text \in S!Texts(p, shared) /\ S!CanSend(p, n, pos)
       /\ session' = [session EXCEPT ![c] = S!HandleOutput(s, n, pos, shared)]
       /\ stale' = stale \cup (IF S!SendsReplaced(s, n, text, shared) THEN {c} ELSE {})
       /\ down' = [down EXCEPT ![c] = @ \o S!Emitted(p, n, pos, text)]
  BY <1>1, <1>3, <1>5, <1>12
<1>6. PICK E, r, f : E = S!Emitted(p, n, pos, text) /\ r = S!HandleOutput(s, n, pos, shared) /\ f = d \o E
  OBVIOUS
<1>7. session' = [session EXCEPT ![c] = r] /\ down' = [down EXCEPT ![c] = f]
  BY <1>1, <1>13, <1>6
<1>8. /\ Base(k, s, d, u, "open") /\ (c \notin stale => Good(k, s, d, u, version))
      /\ SharedOK(shared, version) /\ version \in Nat
  BY <1>1, <1>2, Unchanged
<1>9. /\ Base(k, r, f, u, "open")
      /\ Told(r, s, Planned(r, f), Planned(s, d), S!SendsReplaced(s, n, text, shared))
  BY <1>1, <1>2, <1>13, <1>6, <1>8, OutputBase
<1>10. stale \subseteq stale' /\ stale' \subseteq stale \cup {c}
  BY <1>13
<1>11. ASSUME c \notin stale' PROVE Good(k, r, f, u, version)
  <2>1. ~S!SendsReplaced(s, n, text, shared) /\ c \notin stale
    BY <1>13, <1>11
  <2> QED BY <1>8, <1>9, <2>1, OutputGood
<1> QED BY <1>1, <1>2, <1>7, <1>9, <1>10, <1>11, SessionStepInv

\* The socket of a session fails, after it may have sent something.
LEMMA ServerSocketErrorInv ==
    ASSUME IInv, NEW c \in Clients, ServerSocketError(c)
    PROVE  IInv'
<1>1. PICK k, s, d, u, p, reason, r :
        /\ k = client[c] /\ s = session[c] /\ d = down[c] /\ u = up[c] /\ p = S!Pending(s, shared)
        /\ reason = "SOCKET_ERROR" /\ r = S!quickDisconnect(s, reason)
  OBVIOUS
<1>2. /\ c \in clients /\ s.state # "DISCONNECTED" /\ up' = [up EXCEPT ![c] = u] /\ session' = [session EXCEPT ![c] = r]
      /\ UNCHANGED <<clients, shared, version, client, link>>
  BY <1>1, Unchanged DEF ServerSocketError
<1>3. /\ Base(k, s, d, u, "open") /\ (c \notin stale => Good(k, s, d, u, version))
      /\ SharedOK(shared, version) /\ version \in Nat /\ reason \in EDisconnectReason /\ reason # "PROTOCOL_ERROR"
  BY <1>1, <1>2, Unchanged DEF EDisconnectReason
<1>4. PICK n \in 0..(IF s.pollOut THEN Len(p) - 1 ELSE 0) : \E text \in S!Texts(p, shared) :
        /\ stale' = stale \cup (IF S!SendsReplaced(s, n, text, shared) THEN {c} ELSE {})
        /\ down' = [down EXCEPT ![c] = @ \o S!Emitted(p, n, 0, text)]
  BY <1>1 DEF ServerSocketError
<1>5. PICK text \in S!Texts(p, shared) :
        /\ stale' = stale \cup (IF S!SendsReplaced(s, n, text, shared) THEN {c} ELSE {})
        /\ down' = [down EXCEPT ![c] = @ \o S!Emitted(p, n, 0, text)]
  BY <1>4
<1>6. n \in 0..Len(p)
  <2>1. Len(p) \in Nat
    OBVIOUS
  <2> QED BY <2>1
<1>7. PICK E, f : E = S!Emitted(p, n, 0, text) /\ f = d \o E
  OBVIOUS
<1>8. down' = [down EXCEPT ![c] = f]
  BY <1>1, <1>5, <1>7
<1>9. /\ Base(k, r, f, u, "open")
      /\ Broken(r, s, f, reason, Planned(s, d), S!SendsReplaced(s, n, text, shared))
  BY <1>1, <1>2, <1>3, <1>6, <1>7, ErrorBase
<1>10. stale \subseteq stale' /\ stale' \subseteq stale \cup {c}
  BY <1>5
<1>11. ASSUME c \notin stale' PROVE Good(k, r, f, u, version)
  <2>1. ~S!SendsReplaced(s, n, text, shared) /\ c \notin stale
    BY <1>5, <1>11
  <2>2. Ended(r, s, reason) /\ f \in Seq(ServerMsg) /\ Thins(f, Planned(s, d), FALSE)
    BY <1>9, <2>1 DEF Broken
  <2>3. Planned(r, f) = f
    BY <2>2 DEF Planned, Ended
  <2> QED BY <1>3, <2>1, <2>2, <2>3, EndGood
<1> QED BY <1>1, <1>2, <1>8, <1>9, <1>10, <1>11, SessionStepInv

\* A session that does not exist has ended.
LEMMA NoSession ==
    SessionOK(S!NoServerSession) /\ S!NoServerSession.state = "DISCONNECTED" /\ S!NoServerSession.reason = "UNKNOWN"
<1>1. S!Idle \in S!ServerWriter /\ S!Idle.kind = "NONE" /\ S!Idle.dangling = FALSE
  BY ServerNames, Vocabulary DEF S!Idle, S!ServerWriter, S!SharedBuf
<1>2. S!NoServerSession \in S!ServerSessionType
  BY <1>1, ServerNames DEF S!NoServerSession, S!ServerSessionType, ESessionState, EDisconnectReason
<1>3. /\ S!NoServerSession.state = "DISCONNECTED" /\ S!NoServerSession.sendQueue = <<>>
      /\ S!NoServerSession.writer = S!Idle /\ S!NoServerSession.isSendingData = FALSE /\ S!NoServerSession.dataFlags = FALSE
      /\ S!NoServerSession.reason = "UNKNOWN"
  BY DEF S!NoServerSession
<1>4. WriterOK("DISCONNECTED", <<>>, S!Idle, FALSE, FALSE)
  BY <1>1 DEF WriterOK
<1> QED BY <1>2, <1>3, <1>4 DEF SessionOK

\* Forgetting a session that has ended keeps the balance.
LEMMA ForgetBase ==
    ASSUME NEW k, NEW s, NEW d, NEW u, NEW lk, Base(k, s, d, u, lk), s.state = "DISCONNECTED",
           NEW r, SessionOK(r), r.state = "DISCONNECTED"
    PROVE  Base(k, r, d, u, lk)
<1>1. Tells(r, d) /\ Linked(k, r, d, u, lk)
  BY DEF Base, Tells, Linked, Silent
<1>2. Planned(r, d) = Planned(s, d)
  BY DEF Planned
<1> QED BY <1>1, <1>2 DEF Base

\* Server::onUpdate, for a session that goes on.
LEMMA LiveUpdate ==
    ASSUME IInv, NEW c \in Live, NEW r, r = SessionAfterUpdate(c)
    PROVE  /\ Base(client[c], r, down[c], up[c], link[c])
           /\ c \notin stale => Good(client[c], r, down[c], up[c], version + 1)
<1>1. PICK k, s, d, u, new : k = client[c] /\ s = session[c] /\ d = down[c] /\ u = up[c] /\ new = SharedAfterUpdate
  OBVIOUS
<1>2. c \in clients /\ s.state # "DISCONNECTED"
  BY <1>1 DEF Live
<1>3. c \in Clients
  BY <1>2 DEF IInv, Shape
<1>4. /\ Base(k, s, d, u, "open") /\ (c \notin stale => Good(k, s, d, u, version)) /\ SessionOK(s)
      /\ version \in Nat /\ SharedOK(shared, version)
  BY <1>1, <1>2, <1>3, Unchanged
<1>5. PICK t : t = new["TICK"]
  OBVIOUS
<1>6. t = ServerMsgUpdateTick((version + 1) % TimestampMod, version + 1)
  BY <1>1, <1>4, <1>5, SharedUpdated
<1>7. t.type = "UPDATE_TICK"
  BY <1>6, Vocabulary
<1>8. PICK X : UpdatedTo(r, s, X, t, version + 1)
  BY <1>1, <1>2, <1>4, <1>5, SessionUpdates
<1>9. /\ Base(k, r, d, u, "open") /\ r.state = s.state /\ r.reason = s.reason /\ r.dataFlags = FALSE
      /\ PlanUpdated(Planned(r, d), Planned(s, d), d \o X, s, t, version + 1)
  BY <1>2, <1>4, <1>7, <1>8, UpdateBase
<1>10. PICK Y : PlanUpdated(Planned(r, d), Planned(s, d), Y, s, t, version + 1)
  BY <1>9
<1>11. c \notin stale => Good(k, r, d, u, version + 1)
  BY <1>2, <1>4, <1>6, <1>9, <1>10, UpdateGood
<1>12. link[c] = "open"
  BY <1>2, <1>3 DEF IInv, ConnectionOK
<1> QED BY <1>1, <1>9, <1>11, <1>12

\* The server's update: all sessions stop their old data, get the tick and the
\* new data.
LEMMA ServerUpdateInv ==
    ASSUME IInv, ServerUpdate
    PROVE  IInv'
<1>1. /\ version' = version + 1 /\ clients' = Live /\ shared' = SharedAfterUpdate
      /\ session' = [c \in Clients |-> IF c \in Live THEN SessionAfterUpdate(c) ELSE S!NoServerSession]
      /\ client' = client /\ link' = link /\ down' = down /\ up' = up /\ stale' = stale
  BY DEF ServerUpdate
<1>2. Shape /\ version \in Nat /\ SharedOK(shared, version)
  BY DEF IInv
<1>3. version' \in Nat /\ SharedOK(shared', version')
  <2>1. SharedOK(SharedAfterUpdate, version + 1)
    BY <1>2, SharedUpdated
  <2> QED BY <1>1, <1>2, <2>1
<1>4. Live \subseteq Clients /\ Live \subseteq clients
  BY <1>2 DEF Shape, Live
<1>5. ASSUME NEW c \in Clients PROVE ConnectionOK(c)' /\ session'[c] \in S!ServerSessionType
  <2>1. PICK r : r = session'[c]
    OBVIOUS
  <2>2. r = IF c \in Live THEN SessionAfterUpdate(c) ELSE S!NoServerSession
    BY <1>1, <2>1
  <2>3. /\ Base(client[c], session[c], down[c], up[c], link[c])
        /\ c \in clients => link[c] = "open"
        /\ c \notin clients => session[c].state = "DISCONNECTED"
        /\ c \notin stale => Good(client[c], session[c], down[c], up[c], version)
    BY DEF IInv, ConnectionOK
  <2>4. /\ Base(client[c], r, down[c], up[c], link[c])
        /\ c \notin stale => Good(client[c], r, down[c], up[c], version + 1)
        /\ c \notin Live => r.state = "DISCONNECTED"
    <3>1. CASE c \in Live
      BY <2>2, <3>1, LiveUpdate
    <3>2. CASE c \notin Live
      <4>1. session[c].state = "DISCONNECTED"
        BY <2>3, <3>2 DEF Live
      <4>2. SessionOK(r) /\ r.state = "DISCONNECTED" /\ r.reason # "PROTOCOL_ERROR"
        BY <2>2, <3>2, NoSession
      <4>3. Base(client[c], r, down[c], up[c], link[c])
        BY <2>3, <4>1, <4>2, ForgetBase
      <4>4. c \notin stale => Good(client[c], r, down[c], up[c], version + 1)
        BY <1>2, <2>3, <4>1, <4>2, LaterGood
      <4> QED BY <4>2, <4>3, <4>4
    <3> QED BY <3>1, <3>2
  <2>5. c \in Live => link[c] = "open"
    BY <1>4, <2>3
  <2>6. r \in S!ServerSessionType
    BY <2>4, BaseTypes
  <2> QED BY <1>1, <2>1, <2>4, <2>5, <2>6 DEF ConnectionOK
<1>6. Shape'
  <2>1. session' \in [Clients -> S!ServerSessionType]
    BY <1>1, <1>5
  <2> QED BY <1>1, <1>2, <1>4, <2>1 DEF Shape
<1> QED BY <1>3, <1>5, <1>6 DEF IInv

-----------------------------------------------------------------------------
(***************************************************************************)
(* The initial state.                                                      *)
(***************************************************************************)
LEMMA NewClient ==
    ASSUME NEW p \in Nat, NEW k, k = C!NoClient(p)
    PROVE  /\ k \in C!ClientType /\ k.state = "DISCONNECTED" /\ k.sendQueue = <<>> /\ k.writer.kind = "NONE"
           /\ Carries(k.writer) /\ Fresh(k) /\ k.reason = "UNKNOWN"
<1>1. C!Idle \in C!ClientWriter /\ C!Idle.kind = "NONE"
  BY ClientNames DEF C!Idle, C!ClientWriter
<1>2. C!NoClient(p) \in C!ClientType
  BY <1>1, ClientNames, TimestampModAssumption
     DEF C!NoClient, C!ClientType, ESessionState, C!EExpectedMsg, EDisconnectReason
<1>3. /\ k.state = "DISCONNECTED" /\ k.sendQueue = <<>> /\ k.writer = C!Idle /\ k.reason = "UNKNOWN"
      /\ k.tick = 0 /\ k.currentTimestamp = 0 /\ k.remainingData = FALSE /\ k.isSynchronized = FALSE
      /\ k.dataFlags = FALSE /\ k.dataUpdateFlags = FALSE
  BY DEF C!NoClient
<1> QED BY <1>1, <1>2, <1>3 DEF Carries, Fresh

\* The shared buffers at the start.
LEMMA InitShared ==
    ASSUME Init
    PROVE  SharedOK(shared, 0) /\ version = 0
<1>1. 0 % TimestampMod = 0
  BY TimestampModAssumption
<1>2. /\ shared["BANNER"] = ServerMsgBanner /\ shared["HELLO"] = ServerMsgHello
      /\ shared["TICK"] = ServerMsgUpdateTick(0, 0) /\ shared["FULL"] = Cleared /\ shared["UPDATE"] = Cleared
  BY DEF Init
<1>3. 0 \in 0..TimestampMod - 1 /\ 0 \in Nat
  BY TimestampModAssumption
<1>4. shared \in [S!SharedBuf -> ServerMsg]
  <2>1. ServerMsgUpdateTick(0, 0) \in ServerMsg /\ Cleared \in ServerMsg /\ ServerMsgBanner \in ServerMsg /\ ServerMsgHello \in ServerMsg
    BY <1>3, Vocabulary
  <2>2. \A b \in S!SharedBuf : shared[b] \in ServerMsg
    BY <1>2, <2>1 DEF S!SharedBuf
  <2>3. shared = [b \in S!SharedBuf |-> shared[b]]
    BY DEF Init, S!SharedBuf
  <2> QED BY <2>2, <2>3
<1> QED BY <1>1, <1>2, <1>4 DEF SharedOK, Init

\* A client that was never connected.
LEMMA NewConnection ==
    ASSUME NEW p \in Nat, NEW k, k = C!NoClient(p), NEW s, s = S!NoServerSession
    PROVE  Base(k, s, <<>>, <<>>, "none") /\ Good(k, s, <<>>, <<>>, 0)
<1>1. /\ k \in C!ClientType /\ k.state = "DISCONNECTED" /\ k.sendQueue = <<>> /\ k.writer.kind = "NONE"
      /\ Carries(k.writer) /\ Fresh(k) /\ k.reason = "UNKNOWN"
  BY NewClient
<1>2. SessionOK(s) /\ s.state = "DISCONNECTED" /\ s.reason = "UNKNOWN"
  BY NoSession
<1>3. Speaks(k, <<>>) /\ Tells(s, <<>>)
  BY <1>1, <1>2 DEF Speaks, Tells
<1>4. Linked(k, s, <<>>, <<>>, "none")
  BY <1>1, <1>2 DEF Linked, Silent
<1>5. Asked(k, <<>>) = <<>> /\ Planned(s, <<>>) = <<>>
  BY <1>1, <1>2 DEF Asked, Planned
<1>6. Requests(k.state, k.expectedMsg, s.state, <<>>, <<>>)
  BY <1>1 DEF Requests
<1>7. Phase(k.state, k.expectedMsg, s.state, <<>>, <<>>)
  BY <1>1, <1>2 DEF Phase
<1>8. Stream(k.state, k.dataFlags, k.dataUpdateFlags, k.tick, s.state, s.dataFlags, s.dataUpdateFlags, <<>>, 0)
  BY <1>2, NothingFollows
<1>9. AskedFlags(<<>>) /\ ToldFlags(<<>>)
  BY DEF AskedFlags, ToldFlags
<1>10. Synced(k)
  BY <1>1 DEF Synced, Fresh
<1>11. Talk(k, s, <<>>, <<>>, 0)
  BY <1>1, <1>2, <1>7, <1>8, <1>9, <1>10 DEF Talk
<1> QED BY <1>3, <1>4, <1>5, <1>6, <1>11 DEF Base, Good

\* The invariant holds at the start.
LEMMA InitInv ==
    ASSUME Init
    PROVE  IInv
<1>1. /\ clients = {} /\ stale = {} /\ session = [c \in Clients |-> S!NoServerSession]
      /\ client \in [Clients -> {C!NoClient(p) : p \in ClientProtocols}]
      /\ link = [c \in Clients |-> "none"] /\ down = [c \in Clients |-> <<>>] /\ up = [c \in Clients |-> <<>>]
  BY DEF Init
<1>2. SharedOK(shared, 0) /\ version = 0
  BY InitShared
<1>3. ASSUME NEW c \in Clients PROVE ConnectionOK(c) /\ client[c] \in C!ClientType
  <2>1. PICK p \in ClientProtocols : client[c] = C!NoClient(p)
    BY <1>1
  <2>2. p \in Nat
    BY DataSyncAssumption
  <2>3. /\ session[c] = S!NoServerSession /\ link[c] = "none" /\ down[c] = <<>> /\ up[c] = <<>>
        /\ c \notin clients
    BY <1>1
  <2>4. /\ Base(client[c], session[c], <<>>, <<>>, "none") /\ Good(client[c], session[c], <<>>, <<>>, 0)
    BY <2>1, <2>2, <2>3, NewConnection
  <2>5. session[c].state = "DISCONNECTED" /\ client[c] \in C!ClientType
    BY <2>3, <2>4, NoSession, BaseTypes
  <2> QED BY <1>2, <2>3, <2>4, <2>5 DEF ConnectionOK
<1>4. Shape
  <2>1. S!NoServerSession \in S!ServerSessionType
    BY NoSession DEF SessionOK
  <2>2. client \in [Clients -> C!ClientType]
    BY <1>1, <1>3
  <2> QED BY <1>1, <2>1, <2>2 DEF Shape
<1> QED BY <1>2, <1>3, <1>4 DEF IInv

-----------------------------------------------------------------------------
(***************************************************************************)
(* The theorems.                                                           *)
(***************************************************************************)

\* The inductive invariant holds in every reachable state, for any number of
\* clients, of updates and of failures and any modulus of the timestamps.
THEOREM Inductive ==
    Spec => []IInv
<1>1. Init => IInv
  BY InitInv
<1>2. IInv /\ [Next]_vars => IInv'
  <2> SUFFICES ASSUME IInv, [Next]_vars PROVE IInv'
    OBVIOUS
  <2>1. CASE ServerUpdate
    BY <2>1, ServerUpdateInv
  <2>2. CASE EventsLost
    <3>1. /\ clients' = clients /\ session' = session /\ shared' = shared /\ version' = version /\ client' = client
          /\ link' = link /\ down' = down /\ up' = up /\ stale' = stale
      BY <2>2 DEF EventsLost
    <3> QED BY <3>1 DEF IInv, Shape, ConnectionOK
  <2>3. ASSUME NEW c \in Clients, ServerStep(c) PROVE IInv'
    BY <2>3, AcceptInv, ServerInputInv, ServerConnectionLostInv, ServerOutputInv, ServerSocketErrorInv DEF ServerStep
  <2>4. ASSUME NEW c \in Clients, ClientStep(c) PROVE IInv'
    BY <2>4, ClientConnectInv, ClientInputInv, ClientConnectionLostInv, ClientOutputInv, ClientSocketErrorInv,
       ClientUpdateInv, ClientCommandInv DEF ClientStep
  <2>5. CASE UNCHANGED vars
    <3>1. /\ clients' = clients /\ session' = session /\ shared' = shared /\ version' = version /\ client' = client
          /\ link' = link /\ down' = down /\ up' = up /\ stale' = stale
      BY <2>5 DEF vars, server
    <3> QED BY <3>1 DEF IInv, Shape, ConnectionOK
  <2> QED BY <2>1, <2>2, <2>3, <2>4, <2>5 DEF Next
<1> QED BY <1>1, <1>2, PTL DEF Spec

\* The variables that only steer the server's update or bound the model.
Counters ==
    /\ serialize \in BOOLEAN /\ refill \in BOOLEAN
    /\ budget \in [updates : Nat, commands : Nat, failures : Nat]

\* The type invariant.
TypeOK ==
    /\ Shape /\ Counters
    /\ version \in Nat /\ shared \in [S!SharedBuf -> ServerMsg]

\* The steering variables and the bounds keep their types.
LEMMA CountersInv ==
    Spec => []Counters
<1>1. Init => Counters
  BY DataSyncAssumption DEF Init, Counters
<1>2. Counters /\ [Next]_vars => Counters'
  <2> SUFFICES ASSUME Counters, [Next]_vars PROVE Counters'
    OBVIOUS
  <2>1. budget \in [updates : Nat, commands : Nat, failures : Nat] /\ serialize \in BOOLEAN /\ refill \in BOOLEAN
    BY DEF Counters
  <2>2. ASSUME NEW side, NEW n, NEW pending, PartialSend(side, n, pending)
        PROVE  budget' \in [updates : Nat, commands : Nat, failures : Nat]
    BY <2>1, <2>2 DEF PartialSend
  <2>3. CASE ServerUpdate
    BY <2>1, <2>3 DEF ServerUpdate, Counters
  <2>4. CASE EventsLost
    BY <2>1, <2>4 DEF EventsLost, Counters
  <2>5. ASSUME NEW c \in Clients, ServerStep(c) PROVE Counters'
    <3>1. CASE Accept(c)
      BY <2>1, <3>1 DEF Accept, Counters
    <3>2. CASE ServerInput(c)
      <4>1. serialize' \in BOOLEAN
        BY <2>1, <3>2 DEF ServerInput
      <4>2. refill' = refill /\ budget' = budget
        BY <3>2 DEF ServerInput
      <4> QED BY <2>1, <4>1, <4>2 DEF Counters
    <3>3. CASE ServerConnectionLost(c)
      BY <2>1, <3>3 DEF ServerConnectionLost, Counters
    <3>4. CASE ServerOutput(c)
      <4>1. \E n, p : PartialSend("server", n, p)
        BY <3>4 DEF ServerOutput
      <4>2. serialize' = serialize /\ refill' = refill
        BY <3>4 DEF ServerOutput
      <4> QED BY <2>1, <2>2, <4>1, <4>2 DEF Counters
    <3>5. CASE ServerSocketError(c)
      BY <2>1, <3>5 DEF ServerSocketError, Counters
    <3> QED BY <2>5, <3>1, <3>2, <3>3, <3>4, <3>5 DEF ServerStep
  <2>6. ASSUME NEW c \in Clients, ClientStep(c) PROVE Counters'
    <3>1. serialize' = serialize /\ refill' = refill
      BY <2>6 DEF ClientStep, ClientConnect, ClientInput, ClientConnectionLost, ClientOutput, ClientSocketError,
                  ClientUpdate, ClientCommand, server
    <3>2. budget' \in [updates : Nat, commands : Nat, failures : Nat]
      <4>1. CASE ClientConnect(c) \/ ClientInput(c) \/ ClientConnectionLost(c)
        BY <2>1, <4>1 DEF ClientConnect, ClientInput, ClientConnectionLost
      <4>2. CASE ClientOutput(c)
        <5>1. budget' = budget \/ \E n, p : PartialSend("client", n, p)
          BY <4>2 DEF ClientOutput
        <5> QED BY <2>1, <2>2, <5>1
      <4>3. CASE ClientSocketError(c)
        BY <2>1, <4>3 DEF ClientSocketError
      <4>4. CASE ClientUpdate(c)
        BY <2>1, <4>4 DEF ClientUpdate
      <4>5. CASE ClientCommand(c)
        BY <2>1, <4>5 DEF ClientCommand
      <4> QED BY <2>6, <4>1, <4>2, <4>3, <4>4, <4>5 DEF ClientStep
    <3> QED BY <2>1, <3>1, <3>2 DEF Counters
  <2>7. CASE UNCHANGED vars
    BY <2>1, <2>7 DEF vars, server, Counters
  <2> QED BY <2>3, <2>4, <2>5, <2>6, <2>7 DEF Next
<1> QED BY <1>1, <1>2, PTL DEF Spec

\* Type correctness: whatever the two ends do, the sessions, the clients, the
\* shared buffers and what is on the wire stay of their types.
THEOREM TypeCorrect ==
    Spec => []TypeOK
<1>1. IInv /\ Counters => TypeOK
  BY DEF IInv, TypeOK, SharedOK
<1> QED BY <1>1, Inductive, CountersInv, PTL

\* Of the messages Server::onUpdate replaces, only a tick can be half sent:
\* stopSendingData has copied or dropped the data of every session before.
THEOREM DataSecured ==
    Spec => []DataInProgressIsSecured
<1>1. IInv => DataInProgressIsSecured
  <2> SUFFICES ASSUME IInv, NEW c \in clients, session[c].writer.dangling
               PROVE  session[c].writer.msg.type = "UPDATE_TICK"
    BY DEF DataInProgressIsSecured
  <2>1. c \in Clients
    BY DEF IInv, Shape
  <2>2. SessionOK(session[c])
    BY <2>1, Unchanged
  <2>3. PICK w : w = session[c].writer
    OBVIOUS
  <2>4. OfBuf(w.buf, w.msg) /\ w.buf = "TICK"
    BY <2>2, <2>3 DEF SessionOK, WriterOK
  <2> QED BY <2>3, <2>4 DEF OfBuf
<1> QED BY <1>1, Inductive, PTL

\* The two state machines fit together: unless a message was overwritten
\* before it was sent, neither onMessage ever throws.
THEOREM ProtocolFits ==
    Spec => []NoProtocolError
<1>1. IInv => NoProtocolError
  <2> SUFFICES ASSUME IInv, NEW c \in Clients \ stale
               PROVE  client[c].reason # "PROTOCOL_ERROR" /\ session[c].reason # "PROTOCOL_ERROR"
    BY DEF NoProtocolError
  <2>1. Good(client[c], session[c], down[c], up[c], version)
    BY Unchanged
  <2> QED BY <2>1 DEF Good, Talk
<1> QED BY <1>1, Inductive, PTL

\* A client that shows SYNC shows the server's storage as of its last tick, or
\* of the tick before while the data of that tick are on their way, whatever
\* was dropped or sent late, unless a message was overwritten before it was
\* sent.
THEOREM SyncedIsCurrent ==
    Spec => []SyncedListIsCurrent
<1>1. IInv => SyncedListIsCurrent
  <2> SUFFICES ASSUME IInv, NEW c \in Clients, client[c].isSynchronized, c \notin stale
               PROVE  client[c].list = IF client[c].remainingData THEN client[c].tick - 1 ELSE client[c].tick
    BY DEF SyncedListIsCurrent
  <2>1. Good(client[c], session[c], down[c], up[c], version)
    BY Unchanged
  <2>2. Synced(client[c])
    BY <2>1 DEF Good, Talk
  <2> QED BY <2>2 DEF Synced
<1> QED BY <1>1, Inductive, PTL

-----------------------------------------------------------------------------
(***************************************************************************)
(* Requests in transit: the queues, the writers and the wire together hold *)
(* what the two ends still have to say.                                    *)
(***************************************************************************)
Contents(q, sh) == [i \in DOMAIN q |-> S!Content(q[i], sh)]

\* The requests and answers among a queue's contents are those that were queued.
LEMMA ContentsCount ==
    ASSUME NEW sh, NEW v \in Nat, SharedOK(sh, v), NEW q \in Seq(S!QueuedMsg),
           \A i \in 1..Len(q) : OfBuf(q[i].buf, q[i].msg), NEW a, a = Contents(q, sh)
    PROVE  a \in Seq(ServerMsg) /\ Count(a) = Count(Msgs(q))
<1>1. Len(q) \in Nat /\ DOMAIN q = 1..Len(q) /\ \A i \in 1..Len(q) : q[i] \in S!QueuedMsg
  OBVIOUS
<1>2. \A i \in 1..Len(q) : /\ S!Content(q[i], sh) \in ServerMsg
                           /\ S!Content(q[i], sh).type \in Transit <=> q[i].msg.type \in Transit
  BY <1>1, ContentFacts
<1>3. a = [i \in 1..Len(q) |-> S!Content(q[i], sh)]
  BY <1>1 DEF Contents
<1>4. a \in Seq(ServerMsg) /\ Len(a) = Len(q) /\ \A i \in 1..Len(q) : a[i] = S!Content(q[i], sh)
  BY <1>1, <1>2, <1>3
<1>5. Len(Msgs(q)) = Len(q) /\ \A i \in 1..Len(q) : Msgs(q)[i] = q[i].msg
  BY <1>1 DEF Msgs
<1>6. Len(a) = Len(Msgs(q)) /\ \A i \in 1..Len(a) : a[i].type \in Transit <=> Msgs(q)[i].type \in Transit
  BY <1>2, <1>4, <1>5
<1> QED BY <1>4, <1>6, CountSame

\* The counts of six sequences add up.
LEMMA CountSix ==
    ASSUME NEW M, NEW a \in Seq(M), NEW b \in Seq(M), NEW u \in Seq(M), NEW w \in Seq(M), NEW q \in Seq(M), NEW d \in Seq(M)
    PROVE  /\ Count(((((a \o b) \o u) \o w) \o q) \o d) = Count(a) + Count(b) + Count(u) + Count(w) + Count(q) + Count(d)
           /\ ((((a \o b) \o u) \o w) \o q) \o d \in Seq(M)
           /\ Count(a) \in Nat /\ Count(b) \in Nat /\ Count(u) \in Nat /\ Count(w) \in Nat /\ Count(q) \in Nat /\ Count(d) \in Nat
<1>1. PICK x1 : x1 = a \o b
  OBVIOUS
<1>2. x1 \in Seq(M) /\ Count(x1) = Count(a) + Count(b)
  BY <1>1, CountConcat
<1>3. PICK x2 : x2 = x1 \o u
  OBVIOUS
<1>4. x2 \in Seq(M) /\ Count(x2) = Count(x1) + Count(u)
  BY <1>2, <1>3, CountConcat
<1>5. PICK x3 : x3 = x2 \o w
  OBVIOUS
<1>6. x3 \in Seq(M) /\ Count(x3) = Count(x2) + Count(w)
  BY <1>4, <1>5, CountConcat
<1>7. PICK x4 : x4 = x3 \o q
  OBVIOUS
<1>8. x4 \in Seq(M) /\ Count(x4) = Count(x3) + Count(q)
  BY <1>6, <1>7, CountConcat
<1>9. PICK x5 : x5 = x4 \o d
  OBVIOUS
<1>10. x5 \in Seq(M) /\ Count(x5) = Count(x4) + Count(d)
  BY <1>8, <1>9, CountConcat
<1>11. Count(a) \in Nat /\ Count(b) \in Nat /\ Count(u) \in Nat /\ Count(w) \in Nat /\ Count(q) \in Nat /\ Count(d) \in Nat
  BY CountType
<1>12. x5 = ((((a \o b) \o u) \o w) \o q) \o d
  BY <1>1, <1>3, <1>5, <1>7, <1>9
<1>13. Count(x5) = Count(a) + Count(b) + Count(u) + Count(w) + Count(q) + Count(d)
  BY ONLY <1>2, <1>4, <1>6, <1>8, <1>10
<1> QED BY ONLY <1>10, <1>11, <1>12, <1>13

\* InTransit counts what Asked and Planned hold.
LEMMA TransitIs ==
    ASSUME IInv, NEW c \in Clients, client[c].state = "CONNECTED", session[c].state # "DISCONNECTED"
    PROVE  InTransit(c) = Owed(client[c].expectedMsg)
<1>1. PICK k, s, d, u : k = client[c] /\ s = session[c] /\ d = down[c] /\ u = up[c]
  OBVIOUS
<1>2. PICK a, b, w, q, m : /\ a = Undelivered(k.writer) /\ b = k.sendQueue /\ w = Undelivered(s.writer)
                           /\ q = Contents(s.sendQueue, shared) /\ m = Msgs(s.sendQueue)
  OBVIOUS
<1>3. PICK all : all = ((((a \o b) \o u) \o w) \o q) \o d
  OBVIOUS
<1>4. /\ Base(k, s, d, u, link[c]) /\ SharedOK(shared, version) /\ version \in Nat /\ SessionOK(s)
  BY <1>1, Unchanged
<1>5. Speaks(k, u) /\ Tells(s, d) /\ Requests(k.state, k.expectedMsg, s.state, Asked(k, u), Planned(s, d))
  BY <1>4 DEF Base
<1>6. a \in Seq(ClientMsg) /\ b \in Seq(ClientMsg) /\ u \in Seq(ClientMsg) /\ d \in Seq(ServerMsg)
  BY <1>2, <1>5, ToSayType DEF Speaks, Tells
<1>7. s \in S!ServerSessionType /\ \A i \in 1..Len(s.sendQueue) : OfBuf(s.sendQueue[i].buf, s.sendQueue[i].msg)
  BY <1>4 DEF SessionOK, WriterOK
<1>8. s.sendQueue \in Seq(S!QueuedMsg) /\ s.writer \in S!ServerWriter
  BY <1>7 DEF S!ServerSessionType
<1>9. q \in Seq(ServerMsg) /\ Count(q) = Count(m)
  BY <1>2, <1>4, <1>7, <1>8, ContentsCount
<1>10. w \in Seq(ServerMsg) /\ m \in Seq(ServerMsg)
  <2>1. s.writer.msg \in ServerMsg
    BY <1>8, WriterFields
  <2>2. w \in Seq(ServerMsg)
    BY <1>2, <2>1 DEF Undelivered
  <2>3. Carry(S!QueuedMsg, ServerMsg)
    BY ServerNames DEF Carry, S!QueuedMsg
  <2> QED BY <1>2, <1>8, <2>2, <2>3, MsgsFacts
<1>11. Count(Asked(k, u)) = Count(u) + (Count(a) + Count(b))
  <2>1. Asked(k, u) = u \o (a \o b)
    BY <1>1, <1>2 DEF Asked
  <2>2. PICK x : x = a \o b
    OBVIOUS
  <2>3. x \in Seq(ClientMsg) /\ Count(x) = Count(a) + Count(b)
    BY <1>6, <2>2, CountConcat
  <2>4. Count(u \o x) = Count(u) + Count(x)
    BY <1>6, <2>3, CountConcat
  <2> QED BY ONLY <2>1, <2>2, <2>3, <2>4
<1>12. Count(Planned(s, d)) = Count(d) + (Count(w) + Count(m))
  <2>1. Planned(s, d) = d \o (w \o m)
    BY <1>1, <1>2 DEF Planned
  <2>2. PICK x : x = w \o m
    OBVIOUS
  <2>3. x \in Seq(ServerMsg) /\ Count(x) = Count(w) + Count(m)
    BY <1>10, <2>2, CountConcat
  <2>4. Count(d \o x) = Count(d) + Count(x)
    BY <1>6, <2>3, CountConcat
  <2> QED BY ONLY <2>1, <2>2, <2>3, <2>4
<1>13. PICK M : M = ServerMsg \cup ClientMsg
  OBVIOUS
<1>14. a \in Seq(M) /\ b \in Seq(M) /\ u \in Seq(M) /\ w \in Seq(M) /\ q \in Seq(M) /\ d \in Seq(M)
  BY <1>6, <1>9, <1>10, <1>13
<1>15. /\ Count(all) = Count(a) + Count(b) + Count(u) + Count(w) + Count(q) + Count(d) /\ all \in Seq(M)
       /\ Count(a) \in Nat /\ Count(b) \in Nat /\ Count(u) \in Nat /\ Count(w) \in Nat /\ Count(q) \in Nat /\ Count(d) \in Nat
  BY <1>3, <1>14, CountSix
<1>16. InTransit(c) = Count(all)
  <2>1. DOMAIN all = 1..Len(all)
    BY <1>15
  <2> DEFINE X == Undelivered(client[c].writer) \o client[c].sendQueue \o up[c] \o Undelivered(session[c].writer)
                    \o Contents(session[c].sendQueue, shared) \o down[c]
  <2>2. InTransit(c) = Cardinality({i \in DOMAIN X : X[i].type \in {"REQUEST_DATA", "DATA_STATUS"}})
    BY Zenon DEF InTransit, Contents
  <2>3. X = all
    BY <1>1, <1>2, <1>3
  <2> HIDE DEF X
  <2> QED BY <2>1, <2>2, <2>3 DEF Count, Held, Transit
<1>17. Count(Asked(k, u)) + Count(Planned(s, d)) = Owed(k.expectedMsg)
  BY <1>1, <1>5 DEF Requests
<1> QED BY ONLY <1>1, <1>9, <1>11, <1>12, <1>15, <1>16, <1>17

\* While a connected client waits for the answer of a session that is alive,
\* exactly one request or answer is between the two, and otherwise none is:
\* no request is lost, none is answered twice.
THEOREM RequestsAreAnsweredOnce ==
    Spec => []OneRequestInTransit
<1>1. IInv => OneRequestInTransit
  <2> SUFFICES ASSUME IInv, NEW c \in clients, client[c].state = "CONNECTED", session[c].state # "DISCONNECTED"
               PROVE  InTransit(c) = IF C!isDataRequestInProgress(client[c]) THEN 1 ELSE 0
    BY DEF OneRequestInTransit
  <2>1. c \in Clients
    BY DEF IInv, Shape
  <2>2. InTransit(c) = Owed(client[c].expectedMsg)
    BY <2>1, TransitIs
  <2> QED BY <2>2 DEF Owed, C!isDataRequestInProgress
<1> QED BY <1>1, Inductive, PTL

=============================================================================

----------------------- MODULE ReaderWriterQueueProofs -----------------------
(***************************************************************************)
(* Proofs about the lock-free queue, for every size of its blocks, any     *)
(* number of items and blocks, and both of its uses.                       *)
(***************************************************************************)
EXTENDS ReaderWriterQueue, FiniteSetTheorems, SequenceTheorems, WellFoundedInduction, TLAPS

-----------------------------------------------------------------------------
(***************************************************************************)
(* One block: a ring buffer with stale copies of its two indices.          *)
(***************************************************************************)
\* From index a to index t in a ring of s slots, and one slot on.
Gap(s, a, t) == IF a <= t THEN t - a ELSE t + s - a

Succ(s, i) == IF i + 1 = s THEN 0 ELSE i + 1

\* The indices are in range, and the copies are old: localFront is not ahead of
\* front, nor localTail of tail.
Ring(s, front, localTail, tail, localFront) ==
    /\ s >= 2 /\ front < s /\ localTail < s /\ tail < s /\ localFront < s
    /\ Gap(s, front, tail) <= Gap(s, localFront, tail)
    /\ Gap(s, front, localTail) <= Gap(s, front, tail)

\* The slots between front and tail.
Slots(s, front, tail) == {i \in 0..s - 1 : Gap(s, front, i) < Gap(s, front, tail)}

\* The contents of a block's slots, 0 for raw memory.
Datas == UNION {[0..m - 1 -> Nat] : m \in Nat}

Block == [front : Nat, localTail : Nat, tail : Nat, localFront : Nat, next : Nat, size : Nat,
          data : Datas]

\* A block: its copies are old, and there are as many slots as it says.
BlockOK(k) ==
    /\ k \in Block
    /\ Ring(k.size, k.front, k.localTail, k.tail, k.localFront)
    /\ k.data \in [0..k.size - 1 -> Nat]

\* The slots that hold an element, as far as the indices say.
Filled(k) == Slots(k.size, k.front, k.tail)

\* There is a free slot besides the one that stays free, as the producer knows.
HasRoom(k) == Gap(k.size, k.localFront, k.tail) <= k.size - 2

\* There is an element, as the consumer knows.
HasElement(k) == k.front # k.localTail

\* There is none.
IsEmpty(k) == k.front = k.tail

-----------------------------------------------------------------------------
(***************************************************************************)
(* The types, and what each thread knows.                                  *)
(***************************************************************************)
\* The producer has taken an item and the queue does not show it yet.
Busy == {"store", "publish", "full", "reuse", "reuseTail", "allocate", "link", "advance"}

\* Every block is one and leads to another.
BlocksOK ==
    /\ blocks \in Seq(Block)
    /\ \A b \in DOMAIN blocks : BlockOK(blocks[b]) /\ blocks[b].next \in DOMAIN blocks

\* The types of the queue's, the threads' and the semaphore's variables.
TypeOK ==
    /\ blocking \in BOOLEAN /\ destroyed \in BOOLEAN
    /\ frontBlock \in DOMAIN blocks /\ tailBlock \in DOMAIN blocks
    /\ largestBlockSize \in Nat /\ largestBlockSize >= 2
    /\ producer \in [pc : Busy \cup {"idle", "signal", "post"}, block : Nat]
    /\ consumer \in [pc : {"idle", "empty", "recheck", "next", "hop", "move", "release"},
                     block : Nat, front : Nat]
    /\ sent \in Nat /\ received \in Seq(Nat)
    /\ producer.pc \in Busy => sent > 0
    /\ m_count \in Int /\ m_sema \in Nat /\ oldCount \in Int
    /\ waiter \in {"out", "take", "decrement", "sleep", "got"}

(***************************************************************************)
(* The semaphore: the counter is negative only while the consumer sleeps   *)
(* and nobody is about to wake it.                                         *)
(***************************************************************************)
SemaphoreOK ==
    /\ m_count >= -1
    /\ waiter # "sleep" => m_count >= 0 /\ m_sema = 0 /\ producer.pc # "post"
    /\ waiter = "sleep" /\ m_count < 0 => m_sema = 0 /\ producer.pc # "post"
    /\ waiter = "sleep" /\ m_count >= 0 => m_sema = IF producer.pc = "post" THEN 0 ELSE 1
    /\ waiter = "take" => m_count > 0
    /\ consumer.pc # "idle" => waiter = "out"
    /\ ~blocking => waiter = "out" /\ producer.pc \notin {"signal", "post"}

-----------------------------------------------------------------------------
(***************************************************************************)
(* The circle of blocks.  The rank of a block is the number of hops to the *)
(* tail block; the block after the tail block has the highest.             *)
(***************************************************************************)
\* The blocks in the circle: all but one that is not linked yet.
Linked == IF producer.pc = "link" THEN DOMAIN blocks \ {producer.block} ELSE DOMAIN blocks

\* rk numbers the blocks B along the links nx down to the tail, each by another number.
Ranked(rk, B, nx, tail) ==
    /\ rk \in [B -> Nat] /\ tail \in B /\ rk[tail] = 0
    /\ \A b \in B : nx[b] \in B /\ rk[b] <= rk[nx[tail]]
    /\ \A b \in B : b # tail => rk[b] = rk[nx[b]] + 1
    /\ \A b, c \in B : rk[b] = rk[c] => b = c

\* Where the links lead.
Nexts == [b \in DOMAIN blocks |-> blocks[b].next]

\* The blocks from the consumer's to the producer's hold the elements, those between have some.
RingOK(rk) ==
    /\ Ranked(rk, Linked, Nexts, tailBlock)
    /\ frontBlock \in Linked
    /\ \A b \in Linked :
         /\ rk[b] < rk[frontBlock] => ~IsEmpty(blocks[b])
         /\ rk[b] > rk[frontBlock] =>
              IsEmpty(blocks[b]) \/ (producer.pc = "advance" /\ producer.block = b)

\* What the producer knows.
ProducerOK(rk) ==
    /\ producer.pc \in {"store", "publish", "full", "allocate"} => producer.block = tailBlock
    /\ producer.pc \in {"store", "publish"} => HasRoom(blocks[tailBlock])
    /\ producer.pc = "reuseTail" => HasRoom(blocks[producer.block])
    /\ producer.pc \in {"reuse", "reuseTail", "advance"} =>
         /\ producer.block = blocks[tailBlock].next
         /\ rk[producer.block] > rk[frontBlock]
    /\ producer.pc = "link" => producer.block \in DOMAIN blocks
                               /\ blocks[producer.block].next = blocks[tailBlock].next
    /\ producer.pc \in {"link", "advance"} =>
         Gap(blocks[producer.block].size, blocks[producer.block].front, blocks[producer.block].tail) = 1

\* What the consumer knows.
ConsumerOK ==
    /\ consumer.pc \in {"move", "release", "empty", "recheck", "next"} => consumer.block = frontBlock
    /\ consumer.pc \in {"move", "release"} =>
         consumer.front = blocks[frontBlock].front /\ HasElement(blocks[frontBlock])
    /\ consumer.pc \in {"recheck", "next", "hop"} => frontBlock # tailBlock
    /\ consumer.pc = "empty" /\ blocking => frontBlock # tailBlock
    /\ consumer.pc \in {"next", "hop"} => IsEmpty(blocks[frontBlock])
    /\ consumer.pc = "hop" =>
         /\ consumer.block = blocks[frontBlock].next
         /\ HasElement(blocks[consumer.block])
         /\ consumer.front = blocks[consumer.block].front

-----------------------------------------------------------------------------
(***************************************************************************)
(* The elements.                                                           *)
(***************************************************************************)
\* The element that is moved out and whose slot is not released yet, ...
Taken(b) == IF consumer.pc = "release" /\ consumer.block = b THEN {blocks[b].front} ELSE {}

\* ... and the one that is constructed and not published yet.
Stored(b) ==
    IF producer.pc \in {"publish", "reuseTail"} /\ producer.block = b THEN {blocks[b].tail} ELSE {}

\* A slot holds an element if it is between front and tail, but for these two.
DataOK ==
    \A b \in DOMAIN blocks : \A i \in 0..blocks[b].size - 1 :
        blocks[b].data[i] # Raw <=> i \in (Filled(blocks[b]) \ Taken(b)) \cup Stored(b)

\* The numbers of slots.
Index == Nat

\* The block that the producer fills before it makes it the tail block.
Hidden(b) == producer.pc \in {"link", "advance"} /\ producer.block = b

\* The elements the consumer can find, as pairs of a block and a slot.
Visible == {x \in (DOMAIN blocks) \X Index : x[2] \in Filled(blocks[x[1]]) /\ ~Hidden(x[1])}

One(p) == IF p THEN 1 ELSE 0

\* The semaphore counts the elements that nobody waits for or took.
Tickets ==
    m_count + One(producer.pc = "signal") + One(waiter \in {"sleep", "got"}) + One(consumer.pc # "idle")

CountOK == IsFiniteSet(Visible) /\ (blocking => Cardinality(Visible) = Tickets)

-----------------------------------------------------------------------------
(***************************************************************************)
(* The order of the elements, by the numbers of the items.                 *)
(***************************************************************************)
\* The elements that are not moved out yet.
Live == {x \in Visible : x[2] \notin Taken(x[1])}

Value(x) == blocks[x[1]].data[x[2]]

\* The consumer comes to x before y.
Before(rk, x, y) ==
    \/ rk[x[1]] > rk[y[1]]
    \/ /\ x[1] = y[1]
       /\ Gap(blocks[x[1]].size, blocks[x[1]].front, x[2])
            < Gap(blocks[x[1]].size, blocks[x[1]].front, y[2])

\* All items the queue has seen are older than the one the producer has at hand.
Older(v) == v <= sent /\ (producer.pc \in Busy => v < sent)

\* What came out came in the order in which it was put in, each item once.
InOrder == \A n, m \in DOMAIN received : n < m => received[n] < received[m]

\* The elements are in the order of the items, after all that were taken.
OrderOK(rk) ==
    /\ \A x, y \in Live : Before(rk, x, y) => Value(x) < Value(y)
    /\ \A x \in Live : Older(Value(x)) /\ \A n \in DOMAIN received : received[n] < Value(x)
    /\ \A n \in DOMAIN received : Older(received[n])
    /\ InOrder
    /\ producer.pc \in {"publish", "reuseTail"} =>
         blocks[producer.block].data[blocks[producer.block].tail] = sent
    /\ producer.pc \in {"link", "advance"} =>
         blocks[producer.block].data[blocks[producer.block].front] = sent

-----------------------------------------------------------------------------
\* What holds while there is a queue, ...
QueueOK(rk) ==
    /\ BlocksOK /\ TypeOK /\ SemaphoreOK /\ ConsumerOK /\ DataOK /\ CountOK
    /\ RingOK(rk) /\ ProducerOK(rk) /\ OrderOK(rk)

\* The ways to number the blocks in the circle.
Rankings == [Linked -> Nat]

\* ... and after the destructor, which leaves nothing.
Gone ==
    /\ InOrder
    /\ TypeOK /\ SemaphoreOK
    /\ producer.pc = "idle" /\ consumer.pc = "idle"
    /\ \A b \in DOMAIN blocks : \A i \in DOMAIN blocks[b].data : blocks[b].data[i] = Raw

\* The inductive invariant.
QInv == IF destroyed THEN Gone ELSE \E rk \in Rankings : QueueOK(rk)

-----------------------------------------------------------------------------
\* The items in the queue.
Kept == {Value(x) : x \in Live}

\* Enqueue makes the newest item visible, dequeue takes the oldest, in one step each.
FifoStep ==
    \/ /\ Kept' = Kept \cup {sent} /\ \A v \in Kept : v < sent
       /\ received' = received
    \/ \E v \in Kept : /\ \A w \in Kept : v <= w
                       /\ Kept' = Kept \ {v}
                       /\ received' = Append(received, v)
    \/ Kept' = Kept /\ received' = received
    \/ destroyed' /\ received' = received

\* The queue is first in, first out.
Fifo == [][FifoStep]_vars

-----------------------------------------------------------------------------
(***************************************************************************)
(* Arithmetic: the code's masks are steps around the ring.                 *)
(***************************************************************************)
\* A number between -m and 2m, reduced.
LEMMA SmallMod ==
    ASSUME NEW m \in Nat, m > 0, NEW q \in {-1, 0, 1}, NEW r \in 0..m - 1
    PROVE  (m * q + r) % m = r
<1> DEFINE x == m * q + r
<1>1. x \in Int /\ m * q \in Int
  OBVIOUS
<1>2. PICK d \in Int : d = x \div m
  BY <1>1
<1>3. PICK e \in 0..m - 1 : e = x % m
  BY <1>1
<1>4. x = m * d + e
  BY <1>1, <1>2, <1>3
<1>5. m * d \in Int /\ m * (q - d) = e - r
  BY <1>1, <1>4
<1> HIDE DEF x
<1>6. q - d < 1
  <2>1. SUFFICES ASSUME q - d >= 1 PROVE FALSE
    OBVIOUS
  <2>2. m * (q - d) >= m
    BY <2>1
  <2> QED BY <1>5, <2>2
<1>7. q - d > -1
  <2>1. SUFFICES ASSUME q - d <= -1 PROVE FALSE
    OBVIOUS
  <2>2. m * (q - d) <= -m
    BY <2>1
  <2> QED BY <1>5, <2>2
<1>8. q = d
  BY <1>6, <1>7
<1>9. r = e
  BY <1>5, <1>8
<1> QED BY <1>3, <1>9 DEF x

\* Masking the next index is Succ, masking a difference is Gap.
LEMMA Masks ==
    ASSUME NEW s \in Nat, s >= 2, NEW i \in 0..s - 1, NEW j \in 0..s - 1
    PROVE  (i + 1) % s = Succ(s, i) /\ (i - j) % s = Gap(s, j, i)
<1>1. \A r \in 0..s - 1 : (s * 0 + r) % s = r /\ (s * 1 + r) % s = r /\ (s * (-1) + r) % s = r
  BY SmallMod
<1>2. \A r \in 0..s - 1 : r % s = r /\ (s + r) % s = r /\ (r - s) % s = r
  <2>1. TAKE r \in 0..s - 1
  <2>2. s * 0 + r = r /\ s * 1 + r = s + r /\ s * (-1) + r = r - s
    OBVIOUS
  <2> QED BY <1>1, <2>2
<1>3. (i + 1) % s = Succ(s, i)
  <2>1. CASE i + 1 < s
    <3>1. i + 1 \in 0..s - 1 /\ Succ(s, i) = i + 1
      BY <2>1 DEF Succ
    <3> QED BY <1>2, <3>1
  <2>2. CASE i + 1 = s
    <3>1. 0 \in 0..s - 1 /\ s + 0 = i + 1 /\ Succ(s, i) = 0
      BY <2>2 DEF Succ
    <3> QED BY <1>2, <3>1
  <2> QED BY <2>1, <2>2
<1>4. (i - j) % s = Gap(s, j, i)
  <2>1. CASE j <= i
    <3>1. i - j \in 0..s - 1 /\ Gap(s, j, i) = i - j
      BY <2>1 DEF Gap
    <3> QED BY <1>2, <3>1
  <2>2. CASE ~(j <= i)
    <3>1. i + s - j \in 0..s - 1 /\ Gap(s, j, i) = i + s - j /\ (i + s - j) - s = i - j
      BY <2>2 DEF Gap
    <3> QED BY <1>2, <3>1
  <2> QED BY <2>1, <2>2
<1> QED BY <1>3, <1>4

\* A set of naturals has a least member.
LEMMA NaturalMinimum ==
    ASSUME NEW U, U \subseteq Nat, U # {}
    PROVE  \E x \in U : \A y \in U : ~(y < x)
  <1> DEFINE Less == {ss \in Nat \X Nat : ss[1] < ss[2]}
  <1>1. IsWellFoundedOn(Less, Nat)  BY NatLessThanWellFounded DEF OpToRel
  <1>2. PICK x \in U : \A y \in U : ~(<<y, x>> \in Less)
    <2> HIDE DEF Less
    <2> QED  BY <1>1, WFMin
  <1> QED  BY <1>2

\* The first block is as large as it must be, and not smaller than two slots.
LEMMA FirstSize == ceilToPow2(MaxSize + 1) \in Nat /\ ceilToPow2(MaxSize + 1) >= 2
<1> DEFINE x == MaxSize + 1
           P(p) == p >= x /\ \A q \in PowersOf2 : q >= x => p <= q
           U == {p \in PowersOf2 : p >= x}
<1>1. x \in Nat /\ x >= 2 /\ x <= 1024
  BY QueueAssumption DEF PowersOf2
<1>2. PowersOf2 \subseteq Nat /\ 1024 \in PowersOf2
  BY DEF PowersOf2
<1>3. U \subseteq Nat /\ U # {}
  BY <1>1, <1>2
<1>4. PICK m \in U : \A y \in U : ~(y < m)
  <2> HIDE DEF U
  <2> QED BY <1>3, NaturalMinimum
<1>5. m \in PowersOf2 /\ P(m)
  BY <1>1, <1>2, <1>4
<1>6. ceilToPow2(x) = CHOOSE p \in PowersOf2 : P(p)
  BY DEF ceilToPow2
<1>7. ceilToPow2(x) \in PowersOf2 /\ P(ceilToPow2(x))
  <2> HIDE DEF P, x
  <2> QED BY <1>5, <1>6
<1>8. PICK p \in PowersOf2 : p = ceilToPow2(x) /\ p >= x
  BY <1>7
<1>9. p \in Nat /\ p >= 2
  BY <1>1, <1>2, <1>8
<1> QED BY <1>8, <1>9

-----------------------------------------------------------------------------
(***************************************************************************)
(* What the operations do to one ring.                                     *)
(***************************************************************************)
\* Distances are within the ring, and tell the slots apart.
LEMMA GapFacts ==
    ASSUME NEW s \in Nat, NEW a \in 0..s - 1
    PROVE  \A i, j \in 0..s - 1 : /\ Gap(s, a, i) \in 0..s - 1
                                  /\ Gap(s, a, i) = Gap(s, a, j) => i = j
                                  /\ Gap(s, a, i) = 0 <=> i = a
BY DEF Gap

\* An empty ring has no filled slot; a ring with filled slots has its front among them.
LEMMA SlotsFront ==
    ASSUME NEW s \in Nat, NEW f \in 0..s - 1, NEW t \in 0..s - 1
    PROVE  /\ f = t => Slots(s, f, t) = {}
           /\ f # t => f \in Slots(s, f, t)
           /\ t \notin Slots(s, f, t)
           /\ Slots(s, f, t) \subseteq 0..s - 1
BY DEF Gap, Slots

\* The producer moves the tail on, where it knows of room.
LEMMA RingPublish ==
    ASSUME NEW s \in Nat, NEW f \in Nat, NEW lt \in Nat, NEW t \in Nat, NEW lf \in Nat,
           Ring(s, f, lt, t, lf), Gap(s, lf, t) <= s - 2, NEW u, u = Succ(s, t)
    PROVE  /\ Ring(s, f, lt, u, lf) /\ u \in Nat
           /\ Gap(s, f, u) = Gap(s, f, t) + 1
           /\ Slots(s, f, u) = Slots(s, f, t) \cup {t}
<1>1. /\ Ring(s, f, lt, u, lf) /\ u \in Nat
      /\ Gap(s, f, u) = Gap(s, f, t) + 1
  BY DEF Ring, Gap, Succ
<1>2. \A i \in 0..s - 1 : Gap(s, f, i) < Gap(s, f, u) <=> Gap(s, f, i) < Gap(s, f, t) \/ i = t
  BY DEF Ring, Gap, Succ
<1>3. t \in 0..s - 1
  BY DEF Ring
<1> QED BY <1>1, <1>2, <1>3 DEF Slots

\* The consumer moves the front on, where it knows of an element.
Released(s, f, g, lt, t, lf) ==
    /\ Ring(s, g, lt, t, lf) /\ g \in Nat
    /\ f \in Slots(s, f, t)
    /\ Slots(s, g, t) = Slots(s, f, t) \ {f}
    /\ \A i \in Slots(s, g, t) : Gap(s, g, i) = Gap(s, f, i) - 1

\* Consumer: releasing the slot at front keeps the ring and frees that slot only.
LEMMA RingRelease ==
    ASSUME NEW s \in Nat, NEW f \in Nat, NEW lt \in Nat, NEW t \in Nat, NEW lf \in Nat,
           Ring(s, f, lt, t, lf), f # lt, NEW g, g = Succ(s, f)
    PROVE  Released(s, f, g, lt, t, lf)
<1>1. Ring(s, g, lt, t, lf) /\ g \in Nat
  BY DEF Ring, Gap, Succ
<1>2. \A i \in 0..s - 1 : i # f => Gap(s, g, i) = Gap(s, f, i) - 1
  BY DEF Ring, Gap, Succ
<1>3. f \in 0..s - 1 /\ g \in 0..s - 1 /\ t \in 0..s - 1
  BY DEF Ring, Succ
<1>4. f # t /\ f \in Slots(s, f, t)
  BY <1>3, SlotsFront DEF Ring, Gap
<1>5. Gap(s, g, t) = Gap(s, f, t) - 1 /\ Gap(s, g, f) = s - 1 /\ Gap(s, g, t) \in 0..s - 1
  BY <1>2, <1>3, <1>4, GapFacts DEF Gap, Succ
<1>6. \A i \in 0..s - 1 : Gap(s, g, i) < Gap(s, g, t) <=> Gap(s, f, i) < Gap(s, f, t) /\ i # f
  BY <1>3, <1>4 DEF Gap, Succ
<1>7. Slots(s, g, t) = Slots(s, f, t) \ {f}
  BY <1>6 DEF Slots
<1>8. \A i \in Slots(s, g, t) : i \in 0..s - 1 /\ i # f
  BY <1>7 DEF Slots
<1> QED BY <1>1, <1>2, <1>4, <1>7, <1>8 DEF Released

\* Either thread refreshes its copy.
LEMMA RingRefresh ==
    ASSUME NEW s \in Nat, NEW f \in Nat, NEW lt \in Nat, NEW t \in Nat, NEW lf \in Nat,
           Ring(s, f, lt, t, lf)
    PROVE  /\ Ring(s, f, lt, t, f) /\ Ring(s, f, t, t, lf)
           /\ Succ(s, t) # lf => Gap(s, lf, t) <= s - 2
           /\ Succ(s, t) # f => Gap(s, f, t) <= s - 2
           /\ Succ(s, t) = f => f # t
           /\ f = t => Gap(s, f, t) <= s - 2
BY DEF Ring, Gap, Succ

-----------------------------------------------------------------------------
(***************************************************************************)
(* One block of the list is written.                                       *)
(***************************************************************************)
\* A block is a sound ring: its indices as numbers of its slots.
LEMMA BlockFacts ==
    ASSUME NEW k, BlockOK(k)
    PROVE  /\ k.size \in Nat /\ k.size >= 2
           /\ k.front \in 0..k.size - 1 /\ k.tail \in 0..k.size - 1
           /\ k.localFront \in 0..k.size - 1 /\ k.localTail \in 0..k.size - 1
           /\ k.front \in Nat /\ k.tail \in Nat /\ k.localFront \in Nat /\ k.localTail \in Nat
           /\ Ring(k.size, k.front, k.localTail, k.tail, k.localFront)
           /\ k.data \in [0..k.size - 1 -> Nat] /\ k.next \in Nat /\ k \in Block
           /\ Filled(k) \subseteq 0..k.size - 1
           /\ k.tail \notin Filled(k)
           /\ IsEmpty(k) => Filled(k) = {}
           /\ ~IsEmpty(k) => k.front \in Filled(k)
<1>1. /\ k.size \in Nat /\ k.front \in Nat /\ k.tail \in Nat /\ k.localFront \in Nat /\ k.localTail \in Nat
      /\ Ring(k.size, k.front, k.localTail, k.tail, k.localFront)
      /\ k.data \in [0..k.size - 1 -> Nat] /\ k.next \in Nat /\ k \in Block
  BY DEF BlockOK, Block
<1>2. /\ k.size >= 2
      /\ k.front \in 0..k.size - 1 /\ k.tail \in 0..k.size - 1
      /\ k.localFront \in 0..k.size - 1 /\ k.localTail \in 0..k.size - 1
  BY <1>1 DEF Ring
<1>3. /\ Filled(k) \subseteq 0..k.size - 1
      /\ k.tail \notin Filled(k)
      /\ IsEmpty(k) => Filled(k) = {}
      /\ ~IsEmpty(k) => k.front \in Filled(k)
  BY <1>1, <1>2, SlotsFront DEF Filled, IsEmpty
<1> QED BY <1>1, <1>2, <1>3

\* A record with the fields of a sound ring is a block.
LEMMA MakeBlock ==
    ASSUME NEW s \in Nat, NEW f \in Nat, NEW lt \in Nat, NEW t \in Nat, NEW lf \in Nat, NEW n \in Nat,
           NEW d \in [0..s - 1 -> Nat], Ring(s, f, lt, t, lf),
           NEW k, k = [front |-> f, localTail |-> lt, tail |-> t, localFront |-> lf, next |-> n,
                       size |-> s, data |-> d]
    PROVE  BlockOK(k)
<1>1. d \in Datas
  BY DEF Datas
<1> QED BY <1>1 DEF BlockOK, Block

\* A block is its fields.
LEMMA BlockRecord ==
    ASSUME NEW k, BlockOK(k)
    PROVE  k = [front |-> k.front, localTail |-> k.localTail, tail |-> k.tail,
                localFront |-> k.localFront, next |-> k.next, size |-> k.size, data |-> k.data]
BY DEF BlockOK, Block

\* One block is replaced.
LEMMA Replace ==
    ASSUME BlocksOK, NEW b \in DOMAIN blocks, NEW k, BlockOK(k), k.next \in DOMAIN blocks,
           blocks' = [blocks EXCEPT ![b] = k]
    PROVE  /\ BlocksOK' /\ DOMAIN blocks' = DOMAIN blocks
           /\ blocks'[b] = k
           /\ \A c \in DOMAIN blocks : c # b => blocks'[c] = blocks[c]
<1>1. blocks \in Seq(Block) /\ k \in Block
  BY DEF BlocksOK, BlockOK
<1>2. /\ blocks' \in Seq(Block) /\ DOMAIN blocks' = DOMAIN blocks
      /\ blocks'[b] = k
      /\ \A c \in DOMAIN blocks : c # b => blocks'[c] = blocks[c]
  BY <1>1
<1>3. ASSUME NEW c \in DOMAIN blocks PROVE BlockOK(blocks'[c]) /\ blocks'[c].next \in DOMAIN blocks
  BY <1>2 DEF BlocksOK
<1> QED BY <1>2, <1>3 DEF BlocksOK

\* The producer's copy of front.
LEMMA SetLocalFront ==
    ASSUME BlocksOK, NEW b \in DOMAIN blocks, blocks' = [blocks EXCEPT ![b].localFront = blocks[b].front]
    PROVE  /\ BlocksOK' /\ DOMAIN blocks' = DOMAIN blocks
           /\ blocks'[b] = [blocks[b] EXCEPT !.localFront = blocks[b].front]
           /\ \A c \in DOMAIN blocks : c # b => blocks'[c] = blocks[c]
<1> DEFINE k == blocks[b]
           k2 == [k EXCEPT !.localFront = k.front]
<1>1. BlockOK(k) /\ k.next \in DOMAIN blocks
  BY DEF BlocksOK
<1>2. Ring(k.size, k.front, k.localTail, k.tail, k.front)
  BY <1>1, BlockFacts, RingRefresh
<1>3. k2 = [front |-> k.front, localTail |-> k.localTail, tail |-> k.tail,
            localFront |-> k.front, next |-> k.next, size |-> k.size, data |-> k.data]
  BY <1>1, BlockRecord
<1>4. BlockOK(k2) /\ k2.next = k.next
  <2> HIDE DEF k2, k
  <2> QED BY <1>1, <1>2, <1>3, BlockFacts, MakeBlock
<1>5. blocks' = [blocks EXCEPT ![b] = k2]
  OBVIOUS
<1> HIDE DEF k2
<1>6. BlocksOK' /\ DOMAIN blocks' = DOMAIN blocks /\ blocks'[b] = k2
      /\ \A c \in DOMAIN blocks : c # b => blocks'[c] = blocks[c]
  BY <1>1, <1>4, <1>5, Replace
<1> QED BY <1>6 DEF k2

\* The consumer's copy of tail.
LEMMA SetLocalTail ==
    ASSUME BlocksOK, NEW b \in DOMAIN blocks, blocks' = [blocks EXCEPT ![b].localTail = blocks[b].tail]
    PROVE  /\ BlocksOK' /\ DOMAIN blocks' = DOMAIN blocks
           /\ blocks'[b] = [blocks[b] EXCEPT !.localTail = blocks[b].tail]
           /\ \A c \in DOMAIN blocks : c # b => blocks'[c] = blocks[c]
<1> DEFINE k == blocks[b]
           k2 == [k EXCEPT !.localTail = k.tail]
<1>1. BlockOK(k) /\ k.next \in DOMAIN blocks
  BY DEF BlocksOK
<1>2. Ring(k.size, k.front, k.tail, k.tail, k.localFront)
  BY <1>1, BlockFacts, RingRefresh
<1>3. k2 = [front |-> k.front, localTail |-> k.tail, tail |-> k.tail,
            localFront |-> k.localFront, next |-> k.next, size |-> k.size, data |-> k.data]
  BY <1>1, BlockRecord
<1>4. BlockOK(k2) /\ k2.next = k.next
  <2> HIDE DEF k2, k
  <2> QED BY <1>1, <1>2, <1>3, BlockFacts, MakeBlock
<1>5. blocks' = [blocks EXCEPT ![b] = k2]
  OBVIOUS
<1> HIDE DEF k2
<1>6. BlocksOK' /\ DOMAIN blocks' = DOMAIN blocks /\ blocks'[b] = k2
      /\ \A c \in DOMAIN blocks : c # b => blocks'[c] = blocks[c]
  BY <1>1, <1>4, <1>5, Replace
<1> QED BY <1>6 DEF k2

\* The producer's tail.
LEMMA SetTail ==
    ASSUME BlocksOK, NEW b \in DOMAIN blocks, HasRoom(blocks[b]),
           blocks' = [blocks EXCEPT ![b].tail = After(b, blocks[b].tail)]
    PROVE  /\ BlocksOK' /\ DOMAIN blocks' = DOMAIN blocks
           /\ blocks'[b] = [blocks[b] EXCEPT !.tail = Succ(blocks[b].size, blocks[b].tail)]
           /\ \A c \in DOMAIN blocks : c # b => blocks'[c] = blocks[c]
           /\ Filled(blocks'[b]) = Filled(blocks[b]) \cup {blocks[b].tail}
           /\ Gap(blocks[b].size, blocks[b].front, blocks'[b].tail)
                = Gap(blocks[b].size, blocks[b].front, blocks[b].tail) + 1
<1> DEFINE k == blocks[b]
           u == Succ(k.size, k.tail)
           k2 == [k EXCEPT !.tail = u]
<1>1. BlockOK(k) /\ k.next \in DOMAIN blocks
  BY DEF BlocksOK
<1>2. /\ Ring(k.size, k.front, k.localTail, u, k.localFront) /\ u \in Nat
      /\ Gap(k.size, k.front, u) = Gap(k.size, k.front, k.tail) + 1
      /\ Slots(k.size, k.front, u) = Slots(k.size, k.front, k.tail) \cup {k.tail}
  BY <1>1, BlockFacts, RingPublish DEF HasRoom
<1>3. k2 = [front |-> k.front, localTail |-> k.localTail, tail |-> u,
            localFront |-> k.localFront, next |-> k.next, size |-> k.size, data |-> k.data]
  BY <1>1, BlockRecord
<1>4. BlockOK(k2) /\ k2.next = k.next /\ k2.size = k.size /\ k2.front = k.front /\ k2.tail = u
  <2> HIDE DEF k2, k, u
  <2> QED BY <1>1, <1>2, <1>3, BlockFacts, MakeBlock
<1>5. blocks' = [blocks EXCEPT ![b] = k2]
  <2>1. After(b, k.tail) = u
    BY <1>1, BlockFacts, Masks DEF After
  <2> QED BY <2>1
<1> HIDE DEF k2
<1>6. BlocksOK' /\ DOMAIN blocks' = DOMAIN blocks /\ blocks'[b] = k2
      /\ \A c \in DOMAIN blocks : c # b => blocks'[c] = blocks[c]
  BY <1>1, <1>4, <1>5, Replace
<1> QED BY <1>2, <1>4, <1>6 DEF k2, Filled

\* The consumer's front.
LEMMA SetFront ==
    ASSUME BlocksOK, NEW b \in DOMAIN blocks, HasElement(blocks[b]),
           blocks' = [blocks EXCEPT ![b].front = After(b, blocks[b].front)]
    PROVE  /\ BlocksOK' /\ DOMAIN blocks' = DOMAIN blocks
           /\ blocks'[b] = [blocks[b] EXCEPT !.front = Succ(blocks[b].size, blocks[b].front)]
           /\ \A c \in DOMAIN blocks : c # b => blocks'[c] = blocks[c]
           /\ blocks[b].front \in Filled(blocks[b])
           /\ Filled(blocks'[b]) = Filled(blocks[b]) \ {blocks[b].front}
           /\ \A i \in Filled(blocks'[b]) : Gap(blocks[b].size, blocks'[b].front, i)
                                              = Gap(blocks[b].size, blocks[b].front, i) - 1
<1> DEFINE k == blocks[b]
           u == Succ(k.size, k.front)
           k2 == [k EXCEPT !.front = u]
<1>1. BlockOK(k) /\ k.next \in DOMAIN blocks
  BY DEF BlocksOK
<1>2. /\ Ring(k.size, u, k.localTail, k.tail, k.localFront) /\ u \in Nat
      /\ k.front \in Slots(k.size, k.front, k.tail)
      /\ Slots(k.size, u, k.tail) = Slots(k.size, k.front, k.tail) \ {k.front}
      /\ \A i \in Slots(k.size, u, k.tail) : Gap(k.size, u, i) = Gap(k.size, k.front, i) - 1
  <2>1. /\ k.size \in Nat /\ k.front \in Nat /\ k.localTail \in Nat /\ k.tail \in Nat /\ k.localFront \in Nat
        /\ Ring(k.size, k.front, k.localTail, k.tail, k.localFront) /\ k.front # k.localTail
    BY <1>1, BlockFacts DEF HasElement
  <2> HIDE DEF k
  <2>2. Released(k.size, k.front, u, k.localTail, k.tail, k.localFront)
    BY <2>1, RingRelease
  <2> HIDE DEF u
  <2> QED BY <2>2 DEF Released
<1>3. k2 = [front |-> u, localTail |-> k.localTail, tail |-> k.tail,
            localFront |-> k.localFront, next |-> k.next, size |-> k.size, data |-> k.data]
  BY <1>1, BlockRecord
<1>4. BlockOK(k2) /\ k2.next = k.next /\ k2.size = k.size /\ k2.front = u /\ k2.tail = k.tail
  <2> HIDE DEF k2, k, u
  <2> QED BY <1>1, <1>2, <1>3, BlockFacts, MakeBlock
<1>5. blocks' = [blocks EXCEPT ![b] = k2]
  <2>1. After(b, k.front) = u
    BY <1>1, BlockFacts, Masks DEF After
  <2> QED BY <2>1
<1> HIDE DEF k2
<1>6. BlocksOK' /\ DOMAIN blocks' = DOMAIN blocks /\ blocks'[b] = k2
      /\ \A c \in DOMAIN blocks : c # b => blocks'[c] = blocks[c]
  BY <1>1, <1>4, <1>5, Replace
<1> QED BY <1>2, <1>4, <1>6 DEF k2, Filled

\* An element is constructed or destroyed.
LEMMA SetData ==
    ASSUME BlocksOK, NEW b \in DOMAIN blocks, NEW i \in 0..blocks[b].size - 1, NEW v \in Nat,
           blocks' = [blocks EXCEPT ![b].data[i] = v]
    PROVE  /\ BlocksOK' /\ DOMAIN blocks' = DOMAIN blocks
           /\ blocks'[b] = [blocks[b] EXCEPT !.data = [blocks[b].data EXCEPT ![i] = v]]
           /\ \A c \in DOMAIN blocks : c # b => blocks'[c] = blocks[c]
<1> DEFINE k == blocks[b]
           d == [k.data EXCEPT ![i] = v]
           k2 == [k EXCEPT !.data = d]
<1>1. BlockOK(k) /\ k.next \in DOMAIN blocks
  BY DEF BlocksOK
<1>2. d \in [0..k.size - 1 -> Nat]
  BY <1>1, BlockFacts
<1>3. k2 = [front |-> k.front, localTail |-> k.localTail, tail |-> k.tail,
            localFront |-> k.localFront, next |-> k.next, size |-> k.size, data |-> d]
  BY <1>1, BlockRecord
<1>4. BlockOK(k2) /\ k2.next = k.next
  <2> HIDE DEF k2, k, d
  <2> QED BY <1>1, <1>2, <1>3, BlockFacts, MakeBlock
<1>5. blocks' = [blocks EXCEPT ![b] = k2]
  OBVIOUS
<1> HIDE DEF k2
<1>6. BlocksOK' /\ DOMAIN blocks' = DOMAIN blocks /\ blocks'[b] = k2
      /\ \A c \in DOMAIN blocks : c # b => blocks'[c] = blocks[c]
  BY <1>1, <1>4, <1>5, Replace
<1> QED BY <1>6 DEF k2

\* A block that is taken again: both at once.
LEMMA SetReused ==
    ASSUME BlocksOK, NEW b \in DOMAIN blocks, NEW v \in Nat,
           blocks' = [blocks EXCEPT ![b].localFront = blocks[b].front, ![b].data[blocks[b].tail] = v]
    PROVE  /\ BlocksOK' /\ DOMAIN blocks' = DOMAIN blocks
           /\ blocks'[b] = [blocks[b] EXCEPT !.localFront = blocks[b].front,
                                             !.data = [blocks[b].data EXCEPT ![blocks[b].tail] = v]]
           /\ \A c \in DOMAIN blocks : c # b => blocks'[c] = blocks[c]
<1> DEFINE k == blocks[b]
           d == [k.data EXCEPT ![k.tail] = v]
           k2 == [k EXCEPT !.localFront = k.front, !.data = d]
<1>1. BlockOK(k) /\ k.next \in DOMAIN blocks
  BY DEF BlocksOK
<1>2. d \in [0..k.size - 1 -> Nat] /\ Ring(k.size, k.front, k.localTail, k.tail, k.front)
  BY <1>1, BlockFacts, RingRefresh
<1>3. k2 = [front |-> k.front, localTail |-> k.localTail, tail |-> k.tail,
            localFront |-> k.front, next |-> k.next, size |-> k.size, data |-> d]
  <2> HIDE DEF k, d
  <2>1. k = [front |-> k.front, localTail |-> k.localTail, tail |-> k.tail,
             localFront |-> k.localFront, next |-> k.next, size |-> k.size, data |-> k.data]
    BY <1>1, BlockRecord
  <2>2. PICK k1 : k1 = [k EXCEPT !.localFront = k.front]
    OBVIOUS
  <2>3. k1 = [front |-> k.front, localTail |-> k.localTail, tail |-> k.tail,
              localFront |-> k.front, next |-> k.next, size |-> k.size, data |-> k.data]
    BY <2>1, <2>2
  <2>4. k2 = [k1 EXCEPT !.data = d]
    BY <2>2
  <2> QED BY <2>3, <2>4
<1>4. BlockOK(k2) /\ k2.next = k.next
  <2> HIDE DEF k2, k, d
  <2> QED BY <1>1, <1>2, <1>3, BlockFacts, MakeBlock
<1>5. blocks' = [blocks EXCEPT ![b] = k2]
  BY <1>1, BlockRecord DEF BlocksOK
<1> HIDE DEF k2
<1>6. BlocksOK' /\ DOMAIN blocks' = DOMAIN blocks /\ blocks'[b] = k2
      /\ \A c \in DOMAIN blocks : c # b => blocks'[c] = blocks[c]
  BY <1>1, <1>4, <1>5, Replace
<1> QED BY <1>6 DEF k2

-----------------------------------------------------------------------------
(***************************************************************************)
(* Steps that leave something alone.                                       *)
(***************************************************************************)
\* At most the copies of the indices, and the data, change.
SameRings ==
    /\ DOMAIN blocks' = DOMAIN blocks
    /\ \A b \in DOMAIN blocks : /\ blocks'[b].front = blocks[b].front
                                /\ blocks'[b].tail = blocks[b].tail
                                /\ blocks'[b].size = blocks[b].size
                                /\ blocks'[b].next = blocks[b].next

SameData == \A b \in DOMAIN blocks : blocks'[b].data = blocks[b].data

\* One block, as the producer sees it.
SameAt(b) ==
    /\ blocks'[b].front = blocks[b].front /\ blocks'[b].tail = blocks[b].tail
    /\ blocks'[b].size = blocks[b].size /\ blocks'[b].next = blocks[b].next
    /\ blocks'[b].localFront = blocks[b].localFront /\ blocks'[b].data = blocks[b].data

\* The threads have the same block and slots at hand.
SameHidden == \A b \in DOMAIN blocks : Hidden(b)' <=> Hidden(b)

SameTaken == \A b \in DOMAIN blocks : Taken(b)' = Taken(b)

SameStored == \A b \in DOMAIN blocks : Stored(b)' = Stored(b)

\* No item becomes newer than the one at hand.
StayOlder == \A v \in Nat : Older(v) => Older(v)'

\* What OrderOK says of the item at hand.
AtHand ==
    /\ producer.pc \in {"publish", "reuseTail"} =>
         blocks[producer.block].data[blocks[producer.block].tail] = sent
    /\ producer.pc \in {"link", "advance"} =>
         blocks[producer.block].data[blocks[producer.block].front] = sent

\* The indices decide which elements are visible, ...
LEMMA SameVisible ==
    ASSUME SameRings, SameHidden
    PROVE  Visible' = Visible /\ \A b \in DOMAIN blocks : Filled(blocks'[b]) = Filled(blocks[b])
<1>1. \A b \in DOMAIN blocks : Filled(blocks'[b]) = Filled(blocks[b])
  BY DEF SameRings, Filled
<1>2. DOMAIN blocks' = DOMAIN blocks /\ \A b \in DOMAIN blocks : Hidden(b)' <=> Hidden(b)
  BY DEF SameRings, SameHidden
<1>3. Visible' = {x \in (DOMAIN blocks) \X Index : x[2] \in Filled(blocks'[x[1]]) /\ ~Hidden(x[1])'}
  BY <1>2 DEF Visible, Index
<1> QED BY <1>1, <1>2, <1>3 DEF Visible

\* ... with the data and the slots at hand, which slots hold an object, ...
LEMMA SameDataOK ==
    ASSUME SameRings, SameHidden, SameData, SameTaken, SameStored, DataOK
    PROVE  DataOK'
BY SameVisible DEF SameRings, SameData, SameTaken, SameStored, DataOK

\* ... with the links, which blocks the elements are in, ...
LEMMA SameRingOK ==
    ASSUME NEW rk, SameRings, Linked' = Linked, Linked \subseteq DOMAIN blocks,
           frontBlock' = frontBlock, tailBlock' = tailBlock,
           producer.pc = "advance" => producer'.pc = "advance" /\ producer'.block = producer.block,
           RingOK(rk)
    PROVE  RingOK(rk)'
<1>1. Nexts' = Nexts
  BY DEF SameRings, Nexts
<1>2. \A b \in Linked : IsEmpty(blocks'[b]) <=> IsEmpty(blocks[b])
  BY DEF SameRings, IsEmpty
<1> QED BY <1>1, <1>2 DEF RingOK

\* ... and with the values, in which order they are.
LEMMA SameOrder ==
    ASSUME NEW rk, SameRings, SameData, SameHidden, SameTaken, StayOlder, AtHand', received' = received,
           BlocksOK, TypeOK, OrderOK(rk)
    PROVE  OrderOK(rk)' /\ Kept' = Kept
<1>1. Visible' = Visible
  BY SameVisible
<1>2. Live' = Live
  BY <1>1 DEF Live, SameTaken, Visible
<1>3. \A x \in Live : /\ x[1] \in DOMAIN blocks /\ x[2] \in Filled(blocks[x[1]]) /\ Value(x)' = Value(x)
  BY DEF Live, Visible, Value, SameData
<1>4. \A x, y \in Live : Before(rk, x, y)' <=> Before(rk, x, y)
  BY <1>3 DEF SameRings, Before
<1>5. \A x \in Live : Value(x) \in Nat
  BY <1>3, BlockFacts DEF BlocksOK, Value
<1>6. \A n \in DOMAIN received : received[n] \in Nat
  BY DEF TypeOK
<1>7. Kept' = Kept
  BY <1>2, <1>3 DEF Kept
<1>8. \A x, y \in Live' : Before(rk, x, y)' => Value(x)' < Value(y)'
  BY <1>2, <1>3, <1>4 DEF OrderOK
<1>9. \A x \in Live' : Older(Value(x))' /\ \A n \in DOMAIN received : received[n] < Value(x)'
  BY <1>2, <1>3, <1>5 DEF OrderOK, StayOlder, Older
<1>10. \A n \in DOMAIN received : Older(received[n])'
  BY <1>6 DEF OrderOK, StayOlder, Older
<1> QED BY <1>7, <1>8, <1>9, <1>10 DEF OrderOK, AtHand, InOrder

\* A step of the producer that changes no slot and shows nothing.
LEMMA QuietProducer ==
    ASSUME NEW rk, QueueOK(rk), SameRings, SameData, BlocksOK', TypeOK', SemaphoreOK', ProducerOK(rk)',
           producer.pc \notin {"publish", "reuseTail", "link", "advance"},
           producer'.pc \notin {"publish", "reuseTail", "link", "advance"},
           UNCHANGED <<blocking, consumer, received, frontBlock, tailBlock>>,
           \A b \in DOMAIN blocks : blocks'[b].localTail = blocks[b].localTail,
           StayOlder, Tickets' = Tickets
    PROVE  QueueOK(rk)' /\ Kept' = Kept
<1>1. SameHidden
  BY DEF SameHidden, Hidden
<1>2. SameTaken
  BY DEF SameTaken, Taken, SameRings
<1>3. SameStored
  BY DEF SameStored, Stored
<1>4. AtHand'
  BY DEF AtHand
<1>5. Linked' = Linked /\ Linked \subseteq DOMAIN blocks /\ DOMAIN blocks' = DOMAIN blocks
  BY DEF Linked, SameRings
<1>6. DataOK' /\ RingOK(rk)' /\ OrderOK(rk)' /\ Kept' = Kept
  BY <1>1, <1>2, <1>3, <1>4, <1>5, SameDataOK, SameRingOK, SameOrder DEF QueueOK
<1>7. CountOK'
  BY <1>1, SameVisible DEF CountOK, QueueOK
<1>8. ConsumerOK'
  <2>1. frontBlock \in DOMAIN blocks /\ blocks[frontBlock].next \in DOMAIN blocks
    BY DEF QueueOK, TypeOK, BlocksOK
  <2>2. /\ blocks'[frontBlock].front = blocks[frontBlock].front
        /\ blocks'[frontBlock].tail = blocks[frontBlock].tail
        /\ blocks'[frontBlock].next = blocks[frontBlock].next
        /\ blocks'[frontBlock].localTail = blocks[frontBlock].localTail
    BY <2>1 DEF SameRings
  <2>3. PICK n : n = blocks[frontBlock].next
    OBVIOUS
  <2>4. blocks'[n].front = blocks[n].front /\ blocks'[n].localTail = blocks[n].localTail
    BY <2>1, <2>3 DEF SameRings
  <2> QED BY <2>2, <2>3, <2>4 DEF ConsumerOK, QueueOK, HasElement, IsEmpty
<1> QED BY <1>6, <1>7, <1>8 DEF QueueOK

\* A step of the consumer that changes no slot.
LEMMA QuietConsumer ==
    ASSUME NEW rk, QueueOK(rk), SameRings, SameData, BlocksOK', TypeOK', SemaphoreOK', ConsumerOK',
           consumer.pc # "release", consumer'.pc # "release",
           UNCHANGED <<blocking, producer, sent, received, frontBlock, tailBlock>>,
           \A b \in DOMAIN blocks : blocks'[b].localFront = blocks[b].localFront,
           blocking => Tickets' = Tickets
    PROVE  QueueOK(rk)' /\ Kept' = Kept
<1>0. DOMAIN blocks' = DOMAIN blocks
  BY DEF SameRings
<1>1. SameHidden
  BY DEF SameHidden, Hidden
<1>2. SameTaken
  BY DEF SameTaken, Taken
<1>3. SameStored
  BY DEF SameStored, Stored, SameRings
<1>9. /\ tailBlock \in DOMAIN blocks
      /\ producer.pc \in Busy => producer.block \in DOMAIN blocks
  BY DEF QueueOK, TypeOK, ProducerOK, BlocksOK, Busy
<1>4. AtHand' /\ StayOlder
  <2>1. producer.pc \in Busy => SameAt(producer.block)
    BY <1>9 DEF SameAt, SameRings, SameData
  <2> QED BY <2>1 DEF AtHand, StayOlder, Older, QueueOK, OrderOK, SameAt, Busy
<1>5. Linked' = Linked /\ Linked \subseteq DOMAIN blocks
  BY <1>0 DEF Linked
<1>6. DataOK' /\ RingOK(rk)' /\ OrderOK(rk)' /\ Kept' = Kept
  BY <1>1, <1>2, <1>3, <1>4, <1>5, SameDataOK, SameRingOK, SameOrder DEF QueueOK
<1>7. CountOK'
  BY <1>1, SameVisible DEF CountOK, QueueOK
<1>8. ProducerOK(rk)'
  <2>1. SameAt(tailBlock) /\ (producer.pc \in Busy => SameAt(producer.block))
    BY <1>9 DEF SameAt, SameRings, SameData
  <2> QED BY <1>0, <2>1 DEF ProducerOK, QueueOK, SameAt, HasRoom, Busy
<1> QED BY <1>6, <1>7, <1>8 DEF QueueOK

-----------------------------------------------------------------------------
(***************************************************************************)
(* The steps of the producer.                                              *)
(***************************************************************************)
\* Nothing is written.
LEMMA SameBlocks ==
    ASSUME blocks' = blocks
    PROVE  /\ SameRings /\ SameData /\ (BlocksOK => BlocksOK')
           /\ \A b \in DOMAIN blocks : /\ blocks'[b].localFront = blocks[b].localFront
                                       /\ blocks'[b].localTail = blocks[b].localTail
BY DEF SameRings, SameData, BlocksOK

\* enqueue looks for room in the tail block, if need be in a fresh copy of front.
LEMMA EnqueueOK ==
    ASSUME NEW rk, QueueOK(rk), Enqueue
    PROVE  QueueOK(rk)' /\ Kept' = Kept
<1> DEFINE k == blocks[tailBlock]
<1>1. tailBlock \in DOMAIN blocks /\ BlocksOK /\ BlockOK(k) /\ TypeOK /\ SemaphoreOK
  BY DEF QueueOK, TypeOK, BlocksOK
<1>2. After(tailBlock, k.tail) = Succ(k.size, k.tail)
  BY <1>1, BlockFacts, Masks DEF After
<1>3. /\ sent' = sent + 1
      /\ producer.pc = "idle"
      /\ UNCHANGED <<blocking, consumer, received, destroyed, frontBlock, tailBlock, largestBlockSize>>
      /\ UNCHANGED <<m_count, m_sema, waiter, oldCount>>
      /\ producer' = [pc |-> producer'.pc, block |-> tailBlock]
      /\ \/ /\ Succ(k.size, k.tail) # k.localFront /\ producer'.pc = "store" /\ blocks' = blocks
         \/ /\ blocks' = [blocks EXCEPT ![tailBlock].localFront = k.front]
            /\ \/ Succ(k.size, k.tail) # k.front /\ producer'.pc = "store"
               \/ Succ(k.size, k.tail) = k.front /\ producer'.pc = "full"
  <2>1. ~(Succ(k.size, k.tail) # k.localFront) \/ Succ(k.size, k.tail) # k.localFront
    OBVIOUS
  <2> QED BY <1>2, <2>1 DEF Enqueue, ProducerStep, semaphoreVars
<1>4. /\ SameRings /\ SameData /\ BlocksOK'
      /\ \A b \in DOMAIN blocks : blocks'[b].localTail = blocks[b].localTail
      /\ producer'.pc = "store" => HasRoom(blocks'[tailBlock])
  <2>0. /\ Succ(k.size, k.tail) # k.localFront => Gap(k.size, k.localFront, k.tail) <= k.size - 2
        /\ Succ(k.size, k.tail) # k.front => Gap(k.size, k.front, k.tail) <= k.size - 2
    BY <1>1, BlockFacts, RingRefresh
  <2>1. CASE Succ(k.size, k.tail) # k.localFront /\ producer'.pc = "store" /\ blocks' = blocks
    BY <1>1, <2>0, <2>1, SameBlocks DEF HasRoom
  <2>2. CASE /\ blocks' = [blocks EXCEPT ![tailBlock].localFront = k.front]
             /\ \/ Succ(k.size, k.tail) # k.front /\ producer'.pc = "store"
                \/ Succ(k.size, k.tail) = k.front /\ producer'.pc = "full"
    <3>1. /\ BlocksOK' /\ DOMAIN blocks' = DOMAIN blocks
          /\ blocks'[tailBlock] = [k EXCEPT !.localFront = k.front]
          /\ \A c \in DOMAIN blocks : c # tailBlock => blocks'[c] = blocks[c]
      BY <1>1, <2>2, SetLocalFront
    <3>2. k \in Block
      BY <1>1, BlockFacts
    <3> HIDE DEF k
    <3>3. /\ blocks'[tailBlock].front = k.front /\ blocks'[tailBlock].tail = k.tail
          /\ blocks'[tailBlock].size = k.size /\ blocks'[tailBlock].next = k.next
          /\ blocks'[tailBlock].data = k.data /\ blocks'[tailBlock].localTail = k.localTail
          /\ blocks'[tailBlock].localFront = k.front
      BY <3>1, <3>2 DEF Block
    <3>4. SameRings /\ SameData /\ \A b \in DOMAIN blocks : blocks'[b].localTail = blocks[b].localTail
      BY <3>1, <3>3 DEF SameRings, SameData, k
    <3>5. producer'.pc = "store" => HasRoom(blocks'[tailBlock])
      BY <2>0, <2>2, <3>3 DEF HasRoom
    <3> QED BY <3>1, <3>4, <3>5
  <2> QED BY <1>3, <2>1, <2>2
<1> HIDE DEF k
<1>5. producer'.pc \in {"store", "full"} /\ producer'.block = tailBlock /\ DOMAIN blocks' = DOMAIN blocks
  BY <1>3, <1>4 DEF SameRings
<1>6. TypeOK'
  <2>1. producer' \in [pc : Busy \cup {"idle", "signal", "post"}, block : Nat]
    BY <1>1, <1>3, <1>5 DEF BlocksOK, Busy
  <2>2. sent' \in Nat /\ sent' > 0
    BY <1>1, <1>3 DEF TypeOK
  <2> QED BY <1>1, <1>3, <1>5, <2>1, <2>2 DEF TypeOK
<1>7. SemaphoreOK'
  BY <1>1, <1>3, <1>5 DEF SemaphoreOK
<1>8. ProducerOK(rk)'
  BY <1>3, <1>4, <1>5 DEF ProducerOK
<1>9. StayOlder /\ Tickets' = Tickets
  BY <1>1, <1>3, <1>5 DEF StayOlder, Older, Busy, Tickets, TypeOK
<1>10. /\ producer.pc \notin {"publish", "reuseTail", "link", "advance"}
       /\ producer'.pc \notin {"publish", "reuseTail", "link", "advance"}
  BY <1>3, <1>5
<1> QED BY <1>3, <1>4, <1>6, <1>7, <1>8, <1>9, <1>10, QuietProducer

\* The tail block is full: the next block, if it is not the consumer's, is empty.
LEMMA FullOK ==
    ASSUME NEW rk, QueueOK(rk), Full
    PROVE  QueueOK(rk)' /\ Kept' = Kept
<1>1. TypeOK /\ SemaphoreOK /\ BlocksOK /\ RingOK(rk) /\ ProducerOK(rk) /\ tailBlock \in DOMAIN blocks
  BY DEF QueueOK, TypeOK
<1>2. /\ producer.pc = "full" /\ producer.block = tailBlock
      /\ UNCHANGED <<blocking, consumer, received, destroyed, frontBlock, tailBlock, largestBlockSize, sent>>
      /\ UNCHANGED <<m_count, m_sema, waiter, oldCount>> /\ blocks' = blocks
  BY <1>1 DEF Full, ProducerStep, semaphoreVars, queueVars, ProducerOK
<1> DEFINE n == blocks[tailBlock].next
<1>3. \/ n # frontBlock /\ producer' = [pc |-> "reuse", block |-> n]
      \/ n = frontBlock /\ producer' = [pc |-> "allocate", block |-> tailBlock]
  BY <1>2 DEF Full, ProducerStep
<1>4. n # frontBlock => rk[n] > rk[frontBlock]
  <2>1. Linked = DOMAIN blocks
    BY <1>2 DEF Linked
  <2>2. n \in DOMAIN blocks /\ frontBlock \in DOMAIN blocks
    BY <1>1 DEF BlocksOK, TypeOK
  <2>3. /\ rk[n] \in Nat /\ rk[frontBlock] \in Nat /\ rk[frontBlock] <= rk[n]
        /\ rk[n] = rk[frontBlock] => n = frontBlock
    BY <1>1, <2>1, <2>2 DEF RingOK, Ranked, Nexts
  <2> QED BY <2>3
<1>5. TypeOK'
  <2>1. n \in Nat /\ tailBlock \in Nat
    BY <1>1 DEF BlocksOK
  <2>2. producer' \in [pc : Busy \cup {"idle", "signal", "post"}, block : Nat]
    BY <1>3, <2>1 DEF Busy
  <2>3. sent > 0
    BY <1>1, <1>2 DEF TypeOK, Busy
  <2> QED BY <1>1, <1>2, <2>2, <2>3 DEF TypeOK
<1>6. producer'.pc \in {"reuse", "allocate"} /\ producer'.pc \in Busy /\ producer.pc \in Busy
  BY <1>2, <1>3 DEF Busy
<1>7. SemaphoreOK'
  BY <1>1, <1>2, <1>6 DEF SemaphoreOK
<1>8. ProducerOK(rk)'
  BY <1>2, <1>3, <1>4 DEF ProducerOK
<1>9. StayOlder /\ Tickets' = Tickets
  BY <1>2, <1>6 DEF StayOlder, Older, Tickets
<1> QED BY <1>1, <1>2, <1>5, <1>6, <1>7, <1>8, <1>9, SameBlocks, QuietProducer

\* make_block failed: the item is dropped and nothing else is lost.
LEMMA AllocateFailsOK ==
    ASSUME NEW rk, QueueOK(rk), AllocateFails
    PROVE  QueueOK(rk)' /\ Kept' = Kept
<1>1. TypeOK /\ SemaphoreOK /\ BlocksOK
  BY DEF QueueOK
<1>2. /\ producer.pc = "allocate" /\ producer' = [pc |-> "idle", block |-> 0]
      /\ UNCHANGED <<blocking, consumer, received, destroyed, frontBlock, tailBlock, largestBlockSize, sent>>
      /\ UNCHANGED <<m_count, m_sema, waiter, oldCount>> /\ blocks' = blocks
  BY DEF AllocateFails, ProducerStep, semaphoreVars, queueVars
<1>3. TypeOK'
  BY <1>1, <1>2 DEF TypeOK, Busy
<1>4. SemaphoreOK' /\ ProducerOK(rk)'
  BY <1>1, <1>2 DEF SemaphoreOK, ProducerOK
<1>5. StayOlder /\ Tickets' = Tickets
  BY <1>1, <1>2 DEF StayOlder, Older, Tickets, Busy, TypeOK
<1> QED BY <1>1, <1>2, <1>3, <1>4, <1>5, SameBlocks, QuietProducer

\* The producer counts the element it has made visible.
LEMMA SignalOK ==
    ASSUME NEW rk, QueueOK(rk), Signal
    PROVE  QueueOK(rk)' /\ Kept' = Kept
<1>1. TypeOK /\ SemaphoreOK /\ BlocksOK
  BY DEF QueueOK
<1>2. /\ producer.pc = "signal"
      /\ producer' = [pc |-> IF m_count < 0 THEN "post" ELSE "idle", block |-> 0]
      /\ UNCHANGED <<blocking, consumer, received, destroyed, frontBlock, tailBlock, largestBlockSize, sent>>
      /\ m_count' = m_count + 1 /\ UNCHANGED <<m_sema, waiter, oldCount>> /\ blocks' = blocks
  BY DEF Signal, SignalCount, MustPost, ProducerStep, queueVars
<1>3. TypeOK'
  BY <1>1, <1>2 DEF TypeOK, Busy
<1>4. SemaphoreOK'
  BY <1>1, <1>2 DEF SemaphoreOK, TypeOK
<1>5. ProducerOK(rk)'
  BY <1>2 DEF ProducerOK
<1>6. StayOlder /\ Tickets' = Tickets
  <2>1. StayOlder
    BY <1>1, <1>2 DEF StayOlder, Older, Busy, TypeOK
  <2>2. One(producer.pc = "signal") = 1 /\ One(producer'.pc = "signal") = 0
    BY <1>2 DEF One
  <2>3. Tickets' = m_count' + One(producer'.pc = "signal") + One(waiter' \in {"sleep", "got"})
                     + One(consumer'.pc # "idle")
    BY DEF Tickets
  <2>4. Tickets = m_count + One(producer.pc = "signal") + One(waiter \in {"sleep", "got"})
                     + One(consumer.pc # "idle")
    BY DEF Tickets
  <2>5. One(waiter \in {"sleep", "got"}) \in Int /\ One(consumer.pc # "idle") \in Int /\ m_count \in Int
    BY <1>1 DEF One, TypeOK
  <2> QED BY <1>2, <2>1, <2>2, <2>3, <2>4, <2>5
<1>7. producer'.pc \notin {"publish", "reuseTail", "link", "advance"}
  BY <1>2
<1> QED BY <1>1, <1>2, <1>3, <1>4, <1>5, <1>6, <1>7, SameBlocks, QuietProducer

\* The producer wakes the consumer whose count it took.
LEMMA PostOK ==
    ASSUME NEW rk, QueueOK(rk), Post
    PROVE  QueueOK(rk)' /\ Kept' = Kept
<1>1. TypeOK /\ SemaphoreOK /\ BlocksOK
  BY DEF QueueOK
<1>2. /\ producer.pc = "post" /\ producer' = [pc |-> "idle", block |-> 0]
      /\ UNCHANGED <<blocking, consumer, received, destroyed, frontBlock, tailBlock, largestBlockSize, sent>>
      /\ m_sema' = m_sema + 1 /\ UNCHANGED <<m_count, waiter, oldCount>> /\ blocks' = blocks
  BY DEF Post, PostSemaphore, ProducerStep, queueVars
<1>3. TypeOK'
  BY <1>1, <1>2 DEF TypeOK, Busy
<1>4. SemaphoreOK' /\ ProducerOK(rk)'
  BY <1>1, <1>2 DEF SemaphoreOK, ProducerOK, TypeOK
<1>5. StayOlder /\ Tickets' = Tickets
  BY <1>1, <1>2 DEF StayOlder, Older, Tickets, Busy, TypeOK
<1> QED BY <1>1, <1>2, <1>3, <1>4, <1>5, SameBlocks, QuietProducer

-----------------------------------------------------------------------------
(***************************************************************************)
(* The steps of the consumer that take nothing.                            *)
(***************************************************************************)
LEMMA WaitOK ==
    ASSUME NEW rk, QueueOK(rk), Wait
    PROVE  QueueOK(rk)' /\ Kept' = Kept
<1>1. TypeOK /\ SemaphoreOK /\ BlocksOK /\ ConsumerOK
  BY DEF QueueOK
<1>2. /\ consumer.pc = "idle" /\ blocking
      /\ UNCHANGED <<blocking, producer, consumer, sent, received, destroyed>>
      /\ UNCHANGED <<frontBlock, tailBlock, largestBlockSize>> /\ blocks' = blocks
  BY DEF Wait, queueVars
<1>3. /\ m_count' \in Int /\ m_sema' \in Nat /\ oldCount' \in Int
      /\ waiter' \in {"out", "take", "decrement", "sleep", "got"}
      /\ SemaphoreOK'
      /\ m_count' + One(waiter' \in {"sleep", "got"}) = m_count + One(waiter \in {"sleep", "got"})
  <2>1. CASE LoadCount
    BY <1>1, <1>2, <2>1 DEF LoadCount, SemaphoreOK, TypeOK, One
  <2>2. CASE TakeCount
    <3>1. /\ waiter = "take" /\ m_sema' = m_sema /\ oldCount' = oldCount
          /\ \/ m_count' = m_count - 1 /\ waiter' = "got"
             \/ m_count' = m_count /\ waiter' = "out"
      BY <2>2 DEF TakeCount
    <3> QED BY <1>1, <1>2, <3>1 DEF SemaphoreOK, TypeOK, One
  <2>3. CASE DecrementCount
    BY <1>1, <1>2, <2>3 DEF DecrementCount, SemaphoreOK, TypeOK, One
  <2>4. CASE Sleep
    BY <1>1, <1>2, <2>4 DEF Sleep, SemaphoreOK, TypeOK, One
  <2> QED BY <2>1, <2>2, <2>3, <2>4 DEF Wait
<1>4. TypeOK' /\ ConsumerOK'
  BY <1>1, <1>2, <1>3 DEF TypeOK, ConsumerOK
<1>5. Tickets' = Tickets
  <2>1. /\ One(producer.pc = "signal") \in Int /\ One(consumer.pc # "idle") \in Int
        /\ One(waiter \in {"sleep", "got"}) \in Int /\ One(waiter' \in {"sleep", "got"}) \in Int
    BY DEF One
  <2>2. Tickets' = m_count' + One(producer.pc = "signal") + One(waiter' \in {"sleep", "got"})
                     + One(consumer.pc # "idle")
    BY <1>2 DEF Tickets
  <2>3. Tickets = m_count + One(producer.pc = "signal") + One(waiter \in {"sleep", "got"})
                     + One(consumer.pc # "idle")
    BY DEF Tickets
  <2>4. m_count \in Int
    BY <1>1 DEF TypeOK
  <2> QED BY <1>3, <2>1, <2>2, <2>3, <2>4
<1>6. consumer.pc # "release" /\ consumer'.pc # "release"
  BY <1>2
<1> QED BY <1>1, <1>2, <1>3, <1>4, <1>5, <1>6, SameBlocks, QuietConsumer

\* The consumer's copy of tail is refreshed.
LEMMA RefreshedTail ==
    ASSUME BlocksOK, NEW b \in DOMAIN blocks, blocks' = [blocks EXCEPT ![b].localTail = blocks[b].tail]
    PROVE  /\ SameRings /\ SameData /\ BlocksOK' /\ DOMAIN blocks' = DOMAIN blocks
           /\ \A c \in DOMAIN blocks : blocks'[c].localFront = blocks[c].localFront
           /\ blocks'[b].localTail = blocks[b].tail /\ blocks'[b].front = blocks[b].front
           /\ blocks'[b].tail = blocks[b].tail
<1> DEFINE k == blocks[b]
<1>1. /\ BlocksOK' /\ DOMAIN blocks' = DOMAIN blocks
      /\ blocks'[b] = [k EXCEPT !.localTail = k.tail]
      /\ \A c \in DOMAIN blocks : c # b => blocks'[c] = blocks[c]
  BY SetLocalTail
<1>2. k \in Block
  BY BlockFacts DEF BlocksOK
<1> HIDE DEF k
<1>3. /\ blocks'[b].front = k.front /\ blocks'[b].tail = k.tail
      /\ blocks'[b].size = k.size /\ blocks'[b].next = k.next
      /\ blocks'[b].data = k.data /\ blocks'[b].localFront = k.localFront
      /\ blocks'[b].localTail = k.tail
  BY <1>1, <1>2 DEF Block
<1> QED BY <1>1, <1>3 DEF SameRings, SameData, k

\* An element that is in sight lies in a block between the consumer's and the producer's.
LEMMA VisibleBlock ==
    ASSUME NEW rk, QueueOK(rk), Visible # {}, IsEmpty(blocks[frontBlock])
    PROVE  frontBlock # tailBlock
<1>1. PICK x \in Visible : TRUE
  OBVIOUS
<1>2. x[1] \in DOMAIN blocks /\ x[2] \in Filled(blocks[x[1]]) /\ ~Hidden(x[1])
  BY DEF Visible
<1>3. ~IsEmpty(blocks[x[1]])
  BY <1>2, BlockFacts DEF QueueOK, BlocksOK
<1>4. x[1] \in Linked
  BY <1>2 DEF Linked, Hidden
<1>5. ~(rk[x[1]] > rk[frontBlock])
  BY <1>2, <1>3, <1>4 DEF QueueOK, RingOK, Hidden
<1>6. x[1] # frontBlock
  BY <1>3
<1>7. frontBlock \in Linked /\ Ranked(rk, Linked, Nexts, tailBlock)
  BY DEF QueueOK, RingOK
<1>8. rk[x[1]] \in Nat /\ rk[frontBlock] \in Nat /\ rk[x[1]] # rk[frontBlock] /\ rk[tailBlock] = 0
  BY <1>4, <1>6, <1>7 DEF Ranked
<1> QED BY <1>5, <1>8

\* try_dequeue looks into the front block, if need be at a fresh copy of tail.
LEMMA DequeueOK ==
    ASSUME NEW rk, QueueOK(rk), Dequeue
    PROVE  QueueOK(rk)' /\ Kept' = Kept
<1> DEFINE k == blocks[frontBlock]
<1>1. TypeOK /\ SemaphoreOK /\ BlocksOK /\ ConsumerOK /\ CountOK /\ frontBlock \in DOMAIN blocks
  BY DEF QueueOK, TypeOK
<1>2. /\ consumer.pc = "idle" /\ (blocking => waiter = "got") /\ waiter' = "out"
      /\ consumer' = [pc |-> consumer'.pc, block |-> frontBlock, front |-> k.front]
      /\ \/ k.front # k.localTail /\ consumer'.pc = "move" /\ blocks' = blocks
         \/ /\ blocks' = [blocks EXCEPT ![frontBlock].localTail = k.tail]
            /\ \/ k.front # k.tail /\ consumer'.pc = "move"
               \/ k.front = k.tail /\ consumer'.pc = "empty"
      /\ UNCHANGED <<blocking, producer, sent, received, destroyed>>
      /\ UNCHANGED <<frontBlock, tailBlock, largestBlockSize, m_count, m_sema, oldCount>>
  <2>1. k.front # k.localTail \/ ~(k.front # k.localTail)
    OBVIOUS
  <2> QED BY <2>1 DEF Dequeue, ConsumerStep
<1>3. /\ SameRings /\ SameData /\ BlocksOK' /\ DOMAIN blocks' = DOMAIN blocks
      /\ \A c \in DOMAIN blocks : blocks'[c].localFront = blocks[c].localFront
      /\ consumer'.pc = "move" => HasElement(blocks'[frontBlock])
      /\ blocks'[frontBlock].front = k.front
      /\ consumer'.pc = "empty" => IsEmpty(k)
  <2>1. CASE k.front # k.localTail /\ consumer'.pc = "move" /\ blocks' = blocks
    BY <1>1, <2>1, SameBlocks DEF HasElement, SameRings
  <2>2. CASE /\ blocks' = [blocks EXCEPT ![frontBlock].localTail = k.tail]
             /\ \/ k.front # k.tail /\ consumer'.pc = "move"
                \/ k.front = k.tail /\ consumer'.pc = "empty"
    BY <1>1, <2>2, RefreshedTail DEF HasElement, IsEmpty
  <2> QED BY <1>2, <2>1, <2>2
<1>4. consumer'.pc \in {"move", "empty"} /\ consumer'.block = frontBlock /\ consumer'.front = k.front
  BY <1>2
<1>5. k.front \in Nat /\ frontBlock \in Nat
  BY <1>1, BlockFacts DEF BlocksOK
<1>6. blocking => Cardinality(Visible) >= 1
  <2>1. SUFFICES ASSUME blocking PROVE Cardinality(Visible) >= 1
    OBVIOUS
  <2>2. m_count >= 0 /\ m_count \in Int /\ waiter = "got" /\ consumer.pc = "idle"
    BY <1>1, <1>2, <2>1 DEF SemaphoreOK, TypeOK
  <2>3. One(waiter \in {"sleep", "got"}) = 1 /\ One(consumer.pc # "idle") = 0
        /\ One(producer.pc = "signal") \in Nat
    BY <2>2 DEF One
  <2>4. Tickets = m_count + One(producer.pc = "signal") + One(waiter \in {"sleep", "got"})
                     + One(consumer.pc # "idle")
    BY DEF Tickets
  <2>5. Cardinality(Visible) = Tickets
    BY <1>1, <2>1 DEF CountOK
  <2> QED BY <2>2, <2>3, <2>4, <2>5
<1>7. consumer'.pc = "empty" /\ blocking => frontBlock # tailBlock
  <2>1. Visible = {} => Cardinality(Visible) = 0
    BY FS_EmptySet
  <2> QED BY <1>3, <1>6, <2>1, VisibleBlock
<1>8. TypeOK'
  <2>1. consumer' \in [pc : {"idle", "empty", "recheck", "next", "hop", "move", "release"},
                       block : Nat, front : Nat]
    <3> HIDE DEF k
    <3> QED BY <1>2, <1>4, <1>5
  <2> QED BY <1>1, <1>2, <1>3, <2>1 DEF TypeOK
<1>9. SemaphoreOK'
  BY <1>1, <1>2 DEF SemaphoreOK, TypeOK
<1>10. ConsumerOK'
  BY <1>2, <1>3, <1>4, <1>7 DEF ConsumerOK
<1>11. blocking => Tickets' = Tickets
  <2>1. SUFFICES ASSUME blocking PROVE Tickets' = Tickets
    OBVIOUS
  <2>2. One(waiter \in {"sleep", "got"}) = 1 /\ One(consumer.pc # "idle") = 0
        /\ One(waiter' \in {"sleep", "got"}) = 0 /\ One(consumer'.pc # "idle") = 1
        /\ One(producer.pc = "signal") \in Int
    BY <1>2, <1>4, <2>1 DEF One
  <2>3. Tickets = m_count + One(producer.pc = "signal") + One(waiter \in {"sleep", "got"})
                     + One(consumer.pc # "idle")
    BY DEF Tickets
  <2>4. Tickets' = m_count + One(producer.pc = "signal") + One(waiter' \in {"sleep", "got"})
                     + One(consumer'.pc # "idle")
    BY <1>2 DEF Tickets
  <2>5. m_count \in Int
    BY <1>1 DEF TypeOK
  <2> QED BY <2>2, <2>3, <2>4, <2>5
<1>12. consumer.pc # "release" /\ consumer'.pc # "release"
  BY <1>2, <1>4
<1> QED BY <1>2, <1>3, <1>8, <1>9, <1>10, <1>11, <1>12, QuietConsumer

\* The front block looked empty; a consumer with a ticket is not at the tail block.
LEMMA EmptyOK ==
    ASSUME NEW rk, QueueOK(rk), Empty
    PROVE  QueueOK(rk)' /\ Kept' = Kept
<1>1. TypeOK /\ SemaphoreOK /\ BlocksOK /\ ConsumerOK
  BY DEF QueueOK
<1>2. /\ consumer.pc = "empty" /\ consumer.block = frontBlock
      /\ \/ /\ frontBlock # tailBlock
            /\ consumer' = [pc |-> "recheck", block |-> frontBlock, front |-> consumer.front]
         \/ ~blocking /\ consumer' = [pc |-> "idle", block |-> 0, front |-> 0]
      /\ UNCHANGED <<blocking, producer, sent, received, destroyed>>
      /\ UNCHANGED <<frontBlock, tailBlock, largestBlockSize, m_count, m_sema, oldCount, waiter>>
      /\ blocks' = blocks
  BY <1>1 DEF Empty, ConsumerStep, queueVars, semaphoreVars, ConsumerOK
<1>3. TypeOK'
  <2>1. frontBlock \in Nat /\ consumer.front \in Nat
    BY <1>1 DEF TypeOK, BlocksOK
  <2>2. consumer' \in [pc : {"idle", "empty", "recheck", "next", "hop", "move", "release"},
                       block : Nat, front : Nat]
    BY <1>2, <2>1
  <2> QED BY <1>1, <1>2, <2>2 DEF TypeOK
<1>4. SemaphoreOK' /\ ConsumerOK'
  BY <1>1, <1>2 DEF SemaphoreOK, ConsumerOK
<1>5. blocking => Tickets' = Tickets
  BY <1>2 DEF Tickets, One
<1>6. consumer.pc # "release" /\ consumer'.pc # "release"
  BY <1>2
<1> QED BY <1>1, <1>2, <1>3, <1>4, <1>5, <1>6, SameBlocks, QuietConsumer

\* A front block that is not the tail block does not fill any more.
LEMMA RecheckOK ==
    ASSUME NEW rk, QueueOK(rk), Recheck
    PROVE  QueueOK(rk)' /\ Kept' = Kept
<1> DEFINE k == blocks[frontBlock]
<1>1. TypeOK /\ SemaphoreOK /\ BlocksOK /\ ConsumerOK /\ frontBlock \in DOMAIN blocks
  BY DEF QueueOK, TypeOK
<1>2. /\ consumer.pc = "recheck"
      /\ consumer' = [pc |-> consumer'.pc, block |-> frontBlock, front |-> k.front]
      /\ \/ k.front # k.tail /\ consumer'.pc = "move"
         \/ k.front = k.tail /\ consumer'.pc = "next"
      /\ blocks' = [blocks EXCEPT ![frontBlock].localTail = k.tail]
      /\ UNCHANGED <<blocking, producer, sent, received, destroyed>>
      /\ UNCHANGED <<frontBlock, tailBlock, largestBlockSize, m_count, m_sema, oldCount, waiter>>
  BY DEF Recheck, ConsumerStep, semaphoreVars
<1>3. /\ SameRings /\ SameData /\ BlocksOK' /\ DOMAIN blocks' = DOMAIN blocks
      /\ \A c \in DOMAIN blocks : blocks'[c].localFront = blocks[c].localFront
      /\ blocks'[frontBlock].localTail = k.tail /\ blocks'[frontBlock].front = k.front
      /\ blocks'[frontBlock].tail = k.tail
  BY <1>1, <1>2, RefreshedTail
<1>4. k.front \in Nat /\ frontBlock \in Nat
  BY <1>1, BlockFacts DEF BlocksOK
<1> HIDE DEF k
<1>5. TypeOK'
  <2>1. consumer' \in [pc : {"idle", "empty", "recheck", "next", "hop", "move", "release"},
                       block : Nat, front : Nat]
    BY <1>2, <1>4
  <2> QED BY <1>1, <1>2, <1>3, <2>1 DEF TypeOK
<1>6. consumer'.pc \in {"move", "next"} /\ consumer'.block = frontBlock /\ consumer'.front = k.front
  BY <1>2
<1>7. SemaphoreOK' /\ ConsumerOK'
  <2>1. waiter = "out" /\ frontBlock # tailBlock
    BY <1>1, <1>2 DEF SemaphoreOK, ConsumerOK
  <2> QED BY <1>1, <1>2, <1>3, <1>6, <2>1 DEF SemaphoreOK, ConsumerOK, HasElement, IsEmpty
<1>8. blocking => Tickets' = Tickets
  BY <1>2, <1>6 DEF Tickets, One
<1>9. consumer.pc # "release" /\ consumer'.pc # "release"
  BY <1>2
<1> QED BY <1>2, <1>3, <1>5, <1>7, <1>8, <1>9, QuietConsumer

\* The next block has an element: the assert of the code holds.
LEMMA NextBlockOK ==
    ASSUME NEW rk, QueueOK(rk), NextBlock
    PROVE  QueueOK(rk)' /\ Kept' = Kept
<1> DEFINE n == blocks[frontBlock].next
           k == blocks[n]
<1>1. /\ TypeOK /\ SemaphoreOK /\ BlocksOK /\ ConsumerOK /\ RingOK(rk)
      /\ frontBlock \in DOMAIN blocks /\ n \in DOMAIN blocks
  BY DEF QueueOK, TypeOK, BlocksOK
<1>2. /\ consumer.pc = "next" /\ consumer.block = frontBlock
      /\ consumer' = [pc |-> IF k.front # k.tail THEN "hop" ELSE "failed", block |-> n, front |-> k.front]
      /\ blocks' = [blocks EXCEPT ![n].localTail = k.tail]
      /\ UNCHANGED <<blocking, producer, sent, received, destroyed>>
      /\ UNCHANGED <<frontBlock, tailBlock, largestBlockSize, m_count, m_sema, oldCount, waiter>>
  BY <1>1 DEF NextBlock, ConsumerStep, semaphoreVars, ConsumerOK
<1>3. /\ SameRings /\ SameData /\ BlocksOK' /\ DOMAIN blocks' = DOMAIN blocks
      /\ \A c \in DOMAIN blocks : blocks'[c].localFront = blocks[c].localFront
      /\ blocks'[n].localTail = k.tail /\ blocks'[n].front = k.front
  BY <1>1, <1>2, RefreshedTail
<1>4. frontBlock # tailBlock /\ k.front # k.tail
  <2>1. frontBlock # tailBlock
    BY <1>1, <1>2 DEF ConsumerOK
  <2>2. Ranked(rk, Linked, Nexts, tailBlock) /\ frontBlock \in Linked /\ Nexts[frontBlock] = n
    BY <1>1 DEF RingOK, Nexts
  <2>3. n \in Linked /\ rk[n] \in Nat /\ rk[frontBlock] = rk[n] + 1
    BY <2>1, <2>2 DEF Ranked
  <2>4. ~IsEmpty(k)
    BY <1>1, <2>3 DEF RingOK
  <2> QED BY <2>1, <2>4 DEF IsEmpty
<1>5. k.front \in Nat /\ n \in Nat
  BY <1>1, BlockFacts DEF BlocksOK
<1>6. blocks'[frontBlock].next = n /\ blocks'[frontBlock].front = blocks[frontBlock].front
      /\ blocks'[frontBlock].tail = blocks[frontBlock].tail
  BY <1>1, <1>3 DEF SameRings
<1>7. consumer' = [pc |-> "hop", block |-> n, front |-> k.front]
  BY <1>2, <1>4
<1> HIDE DEF k, n
<1>8. TypeOK'
  BY <1>1, <1>2, <1>3, <1>5, <1>7 DEF TypeOK
<1>9. SemaphoreOK' /\ ConsumerOK'
  <2>1. waiter = "out" /\ IsEmpty(blocks[frontBlock])
    BY <1>1, <1>2 DEF SemaphoreOK, ConsumerOK
  <2> QED BY <1>1, <1>2, <1>3, <1>4, <1>6, <1>7, <2>1 DEF SemaphoreOK, ConsumerOK, HasElement, IsEmpty
<1>10. blocking => Tickets' = Tickets
  BY <1>2, <1>7 DEF Tickets, One
<1>11. consumer.pc # "release" /\ consumer'.pc # "release"
  BY <1>2, <1>7
<1> QED BY <1>2, <1>3, <1>8, <1>9, <1>10, <1>11, QuietConsumer

\* The block the consumer leaves is free for the producer.
LEMMA HopOK ==
    ASSUME NEW rk, QueueOK(rk), Hop
    PROVE  QueueOK(rk)' /\ Kept' = Kept
<1> DEFINE n == blocks[frontBlock].next
<1>1. /\ TypeOK /\ SemaphoreOK /\ BlocksOK /\ ConsumerOK /\ RingOK(rk) /\ ProducerOK(rk)
      /\ frontBlock \in DOMAIN blocks /\ n \in DOMAIN blocks
  BY DEF QueueOK, TypeOK, BlocksOK
<1>2. /\ consumer.pc = "hop" /\ consumer.block = n
      /\ frontBlock # tailBlock /\ IsEmpty(blocks[frontBlock])
      /\ HasElement(blocks[n]) /\ consumer.front = blocks[n].front
  BY <1>1 DEF Hop, ConsumerOK
<1>3. /\ consumer' = [pc |-> "move", block |-> n, front |-> consumer.front]
      /\ frontBlock' = n /\ blocks' = blocks
      /\ UNCHANGED <<blocking, producer, sent, received, destroyed>>
      /\ UNCHANGED <<tailBlock, largestBlockSize, m_count, m_sema, oldCount, waiter>>
  BY <1>2 DEF Hop, ConsumerStep, semaphoreVars
<1>4. /\ Ranked(rk, Linked, Nexts, tailBlock) /\ frontBlock \in Linked /\ Nexts[frontBlock] = n
  BY <1>1 DEF RingOK, Nexts
<1>5. n \in Linked /\ rk[n] \in Nat /\ rk[frontBlock] = rk[n] + 1
      /\ \A b \in Linked : rk[b] \in Nat /\ (rk[b] = rk[frontBlock] => b = frontBlock)
  BY <1>2, <1>4 DEF Ranked
<1> HIDE DEF n
<1>6. Linked' = Linked /\ Nexts' = Nexts
  BY <1>3 DEF Linked, Nexts
<1>7. RingOK(rk)'
  <2>1. ASSUME NEW b \in Linked
        PROVE  /\ rk[b] < rk[n] => ~IsEmpty(blocks[b])
               /\ rk[b] > rk[n] => IsEmpty(blocks[b]) \/ (producer.pc = "advance" /\ producer.block = b)
    <3>1. rk[b] < rk[n] => rk[b] < rk[frontBlock]
      BY <1>5
    <3>2. rk[b] > rk[n] => rk[b] > rk[frontBlock] \/ b = frontBlock
      BY <1>5
    <3> QED BY <1>1, <1>2, <3>1, <3>2 DEF RingOK
  <2> QED BY <1>3, <1>4, <1>5, <1>6, <2>1 DEF RingOK
<1>8. ProducerOK(rk)'
  <2>1. producer.pc \in {"reuse", "reuseTail", "advance"} => rk[producer.block] > rk[n]
    <3>1. SUFFICES ASSUME producer.pc \in {"reuse", "reuseTail", "advance"} PROVE rk[producer.block] > rk[n]
      OBVIOUS
    <3>2. producer.block \in Linked
      BY <1>1, <1>4, <3>1 DEF ProducerOK, Ranked, Nexts, TypeOK
    <3>3. rk[producer.block] > rk[frontBlock]
      BY <1>1, <3>1 DEF ProducerOK
    <3> QED BY <1>5, <3>2, <3>3
  <2> QED BY <1>1, <1>3, <2>1 DEF ProducerOK
<1>9. /\ SameRings /\ SameData /\ BlocksOK' /\ SameHidden /\ SameTaken /\ SameStored /\ StayOlder /\ AtHand'
  <2>1. SameRings /\ SameData /\ BlocksOK'
    BY <1>1, <1>3, SameBlocks
  <2>2. SameHidden /\ SameStored
    BY <1>3 DEF SameHidden, Hidden, SameStored, Stored
  <2>3. SameTaken
    BY <1>2, <1>3 DEF SameTaken, Taken
  <2>4. StayOlder
    BY <1>3 DEF StayOlder, Older
  <2>5. AtHand'
    BY <1>3 DEF AtHand, QueueOK, OrderOK
  <2> QED BY <2>1, <2>2, <2>3, <2>4, <2>5
<1>10. DataOK' /\ OrderOK(rk)' /\ Kept' = Kept
  BY <1>3, <1>9, SameDataOK, SameOrder DEF QueueOK
<1>11. CountOK'
  <2>1. Tickets' = Tickets
    BY <1>2, <1>3 DEF Tickets, One
  <2> QED BY <1>3, <1>9, <2>1, SameVisible DEF CountOK, QueueOK
<1>12. TypeOK'
  <2>1. n \in Nat
    BY <1>1 DEF BlocksOK
  <2> QED BY <1>1, <1>3, <2>1 DEF TypeOK
<1>13. SemaphoreOK' /\ ConsumerOK'
  BY <1>1, <1>2, <1>3 DEF SemaphoreOK, ConsumerOK
<1> QED BY <1>7, <1>8, <1>9, <1>10, <1>11, <1>12, <1>13 DEF QueueOK

\* The producer constructs its item in the free slot at the tail of a block.
LEMMA Construct ==
    ASSUME NEW rk, QueueOK(rk), NEW b \in DOMAIN blocks, NEW t,
           t = blocks[b].tail, producer.block = b, producer'.block = b,
           producer.pc \in {"store", "reuse"}, producer'.pc \in {"publish", "reuseTail"},
           producer' = [pc |-> producer'.pc, block |-> b],
           BlocksOK', SameRings, ProducerOK(rk)',
           blocks'[b].data = [blocks[b].data EXCEPT ![t] = sent],
           \A c \in DOMAIN blocks : c # b => blocks'[c].data = blocks[c].data,
           \A c \in DOMAIN blocks : blocks'[c].localTail = blocks[c].localTail,
           UNCHANGED <<blocking, consumer, received, destroyed, frontBlock, tailBlock>>,
           UNCHANGED <<largestBlockSize, sent, m_count, m_sema, oldCount, waiter>>
    PROVE  QueueOK(rk)' /\ Kept' = Kept
<1>1. TypeOK /\ SemaphoreOK /\ BlocksOK /\ DataOK /\ OrderOK(rk) /\ RingOK(rk) /\ CountOK
  BY DEF QueueOK
<1>2. DOMAIN blocks' = DOMAIN blocks /\ BlockOK(blocks[b]) /\ blocks'[b].tail = t /\ b \in Nat
  BY <1>1 DEF SameRings, BlocksOK
<1>3. sent \in Nat /\ sent > 0 /\ producer.pc \in Busy /\ producer'.pc \in Busy
  BY <1>1 DEF TypeOK, Busy
<1>4. /\ t \in 0..blocks[b].size - 1 /\ t \notin Filled(blocks[b])
      /\ blocks[b].data \in [0..blocks[b].size - 1 -> Nat]
  BY <1>2, BlockFacts
<1>0. blocks'[b].data[t] = sent /\ sent # Raw
  <2>1. blocks'[b].data[t] = sent
    BY <1>4
  <2>2. sent # Raw
    BY ONLY <1>3 DEF Raw
  <2> QED BY <2>1, <2>2
<1>5. SameHidden /\ SameTaken
  BY DEF SameHidden, SameTaken, Hidden, Taken, SameRings
<1>6. Visible' = Visible /\ \A c \in DOMAIN blocks : Filled(blocks'[c]) = Filled(blocks[c])
  BY <1>5, SameVisible
<1>7. \A c \in DOMAIN blocks : /\ Stored(c) = {} /\ Stored(c)' = IF c = b THEN {t} ELSE {}
                               /\ Taken(c)' = Taken(c)
  BY <1>2, <1>5 DEF Stored, SameTaken
<1>8. DataOK'
  <2>1. ASSUME NEW c \in DOMAIN blocks, NEW i \in 0..blocks'[c].size - 1
        PROVE  blocks'[c].data[i] # Raw
                 <=> i \in (Filled(blocks'[c]) \ Taken(c)') \cup Stored(c)'
    <3>1. /\ i \in 0..blocks[c].size - 1 /\ Filled(blocks'[c]) = Filled(blocks[c])
          /\ Taken(c)' = Taken(c) /\ Stored(c) = {} /\ Stored(c)' = IF c = b THEN {t} ELSE {}
      BY <1>6, <1>7 DEF SameRings
    <3>2. blocks[c].data[i] # Raw <=> i \in Filled(blocks[c]) \ Taken(c)
      BY <1>1, <3>1 DEF DataOK
    <3>3. CASE c = b /\ i = t
      <4>1. blocks'[c].data[i] = sent /\ sent # Raw
        BY <1>0, <3>3
      <4>2. i \in Stored(c)'
        BY <3>1, <3>3
      <4> QED BY <4>1, <4>2
    <3>4. CASE ~(c = b /\ i = t)
      <4>1. blocks'[c].data[i] = blocks[c].data[i]
        BY <1>4, <3>1, <3>4
      <4> QED BY <3>1, <3>2, <3>4, <4>1
    <3> QED BY <3>3, <3>4
  <2> QED BY <1>2, <2>1 DEF DataOK
<1>9. Live' = Live /\ \A x \in Live : x[1] \in DOMAIN blocks /\ x[2] \in Filled(blocks[x[1]])
  BY <1>6, <1>7 DEF Live, Visible
<1>10. ASSUME NEW x \in Live PROVE Value(x)' = Value(x)
  <2>1. PICK c, i : c = x[1] /\ i = x[2] /\ c \in DOMAIN blocks /\ i \in Filled(blocks[c])
    BY <1>9
  <2>2. i \in 0..blocks[c].size - 1
    BY <1>1, <2>1, BlockFacts DEF BlocksOK
  <2>3. blocks'[c].data[i] = blocks[c].data[i]
    BY <1>4, <2>1, <2>2
  <2> QED BY <2>1, <2>3 DEF Value
<1>11. Kept' = Kept
  BY <1>9, <1>10 DEF Kept
<1>12. OrderOK(rk)'
  <2>1. \A x, y \in Live : Before(rk, x, y)' <=> Before(rk, x, y)
    BY <1>9 DEF SameRings, Before
  <2>2. \A v \in Nat : Older(v)' <=> Older(v)
    BY <1>3 DEF Older
  <2>3. /\ \A x \in Live : Older(Value(x))' <=> Older(Value(x))
        /\ \A n \in DOMAIN received : Older(received[n])' <=> Older(received[n])
    BY <1>3, <1>10 DEF Older
  <2>4. blocks'[b].data[t] = sent
    BY <1>4
  <2> QED BY <1>1, <1>2, <1>9, <1>10, <2>1, <2>3, <2>4 DEF OrderOK, InOrder
<1>13. CountOK' /\ SemaphoreOK'
  <2>1. Tickets' = Tickets
    BY DEF Tickets, One
  <2> QED BY <1>1, <1>6, <2>1 DEF CountOK, SemaphoreOK
<1>14. RingOK(rk)'
  <2>1. Linked' = Linked /\ Linked \subseteq DOMAIN blocks
    BY <1>2 DEF Linked
  <2> QED BY <1>1, <2>1, SameRingOK
<1>15. TypeOK'
  <2>1. producer' \in [pc : Busy \cup {"idle", "signal", "post"}, block : Nat]
    BY <1>2 DEF Busy
  <2> QED BY <1>1, <1>2, <1>3, <2>1 DEF TypeOK
<1>16. ConsumerOK'
  <2>1. frontBlock \in DOMAIN blocks /\ blocks[frontBlock].next \in DOMAIN blocks
    BY <1>1 DEF TypeOK, BlocksOK
  <2>2. /\ blocks'[frontBlock].front = blocks[frontBlock].front
        /\ blocks'[frontBlock].tail = blocks[frontBlock].tail
        /\ blocks'[frontBlock].next = blocks[frontBlock].next
        /\ blocks'[frontBlock].localTail = blocks[frontBlock].localTail
    BY <2>1 DEF SameRings
  <2>3. PICK n : n = blocks[frontBlock].next
    OBVIOUS
  <2>4. blocks'[n].front = blocks[n].front /\ blocks'[n].localTail = blocks[n].localTail
    BY <2>1, <2>3 DEF SameRings
  <2> QED BY <2>2, <2>3, <2>4 DEF ConsumerOK, QueueOK, HasElement, IsEmpty
<1> QED BY <1>8, <1>11, <1>12, <1>13, <1>14, <1>15, <1>16 DEF QueueOK

\* The element is constructed in the slot that stays free, ...
LEMMA StoreOK ==
    ASSUME NEW rk, QueueOK(rk), Store
    PROVE  QueueOK(rk)' /\ Kept' = Kept
<1> DEFINE b == tailBlock
           k == blocks[b]
<1>1. TypeOK /\ BlocksOK /\ ProducerOK(rk) /\ b \in DOMAIN blocks /\ BlockOK(k) /\ k \in Block /\ sent \in Nat
  BY DEF QueueOK, TypeOK, BlocksOK, BlockOK
<1>2. /\ producer.pc = "store" /\ producer.block = b /\ HasRoom(k)
  BY <1>1 DEF Store, ProducerOK
<1>3. /\ blocks' = [blocks EXCEPT ![b].data[k.tail] = sent]
      /\ producer' = [pc |-> "publish", block |-> b]
      /\ UNCHANGED <<blocking, consumer, received, destroyed, frontBlock, tailBlock>>
      /\ UNCHANGED <<largestBlockSize, sent, m_count, m_sema, oldCount, waiter>>
  BY <1>2 DEF Store, ProducerStep, semaphoreVars
<1>4. k.tail \in 0..k.size - 1
  BY <1>1, BlockFacts
<1>5. /\ BlocksOK' /\ DOMAIN blocks' = DOMAIN blocks
      /\ blocks'[b] = [k EXCEPT !.data = [k.data EXCEPT ![k.tail] = sent]]
      /\ \A c \in DOMAIN blocks : c # b => blocks'[c] = blocks[c]
  BY <1>1, <1>3, <1>4, SetData
<1> HIDE DEF k, b
<1>6. /\ blocks'[b].front = k.front /\ blocks'[b].tail = k.tail
      /\ blocks'[b].size = k.size /\ blocks'[b].next = k.next
      /\ blocks'[b].localFront = k.localFront /\ blocks'[b].localTail = k.localTail
      /\ blocks'[b].data = [k.data EXCEPT ![k.tail] = sent]
  BY <1>1, <1>5 DEF Block
<1>7. /\ SameRings
      /\ \A c \in DOMAIN blocks : blocks'[c].localTail = blocks[c].localTail
      /\ \A c \in DOMAIN blocks : c # b => blocks'[c].data = blocks[c].data
  BY <1>5, <1>6 DEF SameRings, k
<1>8. ProducerOK(rk)'
  BY <1>2, <1>3, <1>6 DEF ProducerOK, HasRoom, b
<1>9. producer.pc \in {"store", "reuse"} /\ producer'.pc \in {"publish", "reuseTail"} /\ producer'.block = b
      /\ producer' = [pc |-> producer'.pc, block |-> b]
  BY <1>2, <1>3
<1> QED BY <1>1, <1>2, <1>3, <1>5, <1>6, <1>7, <1>8, <1>9, Construct DEF k

\* ... also in a block that is used again.
LEMMA ReuseOK ==
    ASSUME NEW rk, QueueOK(rk), Reuse
    PROVE  QueueOK(rk)' /\ Kept' = Kept
<1> DEFINE b == blocks[tailBlock].next
           k == blocks[b]
<1>1. /\ TypeOK /\ BlocksOK /\ ProducerOK(rk) /\ RingOK(rk)
      /\ tailBlock \in DOMAIN blocks /\ b \in DOMAIN blocks /\ BlockOK(k) /\ k \in Block /\ sent \in Nat
  BY DEF QueueOK, TypeOK, BlocksOK, BlockOK
<1>2. producer.pc = "reuse" /\ producer.block = b /\ rk[b] > rk[frontBlock]
  BY <1>1 DEF Reuse, ProducerOK
<1>3. /\ blocks' = [blocks EXCEPT ![b].localFront = k.front, ![b].data[k.tail] = sent]
      /\ producer' = [pc |-> "reuseTail", block |-> b]
      /\ UNCHANGED <<blocking, consumer, received, destroyed, frontBlock, tailBlock>>
      /\ UNCHANGED <<largestBlockSize, sent, m_count, m_sema, oldCount, waiter>>
  BY <1>2 DEF Reuse, ProducerStep, semaphoreVars
<1>4. k.front = k.tail /\ Gap(k.size, k.front, k.tail) <= k.size - 2
  <2>1. b \in Linked
    BY <1>1, <1>2 DEF Linked
  <2>2. IsEmpty(k)
    BY <1>1, <1>2, <2>1 DEF RingOK
  <2>3. k.front = k.tail /\ k.size \in Nat /\ k.size >= 2 /\ k.front \in Nat
    BY <1>1, <2>2, BlockFacts DEF IsEmpty
  <2> HIDE DEF k
  <2> QED BY <2>3 DEF Gap
<1>5. /\ BlocksOK' /\ DOMAIN blocks' = DOMAIN blocks
      /\ blocks'[b] = [k EXCEPT !.localFront = k.front, !.data = [k.data EXCEPT ![k.tail] = sent]]
      /\ \A c \in DOMAIN blocks : c # b => blocks'[c] = blocks[c]
  BY <1>1, <1>3, SetReused
<1> HIDE DEF k, b
<1>6. /\ blocks'[b].front = k.front /\ blocks'[b].tail = k.tail
      /\ blocks'[b].size = k.size /\ blocks'[b].next = k.next
      /\ blocks'[b].localFront = k.front /\ blocks'[b].localTail = k.localTail
      /\ blocks'[b].data = [k.data EXCEPT ![k.tail] = sent]
  BY <1>1, <1>5 DEF Block
<1>7. /\ SameRings
      /\ \A c \in DOMAIN blocks : blocks'[c].localTail = blocks[c].localTail
      /\ \A c \in DOMAIN blocks : c # b => blocks'[c].data = blocks[c].data
  BY <1>5, <1>6 DEF SameRings, k
<1>8. ProducerOK(rk)'
  <2>1. blocks'[tailBlock].next = b
    BY <1>1, <1>7 DEF SameRings, b
  <2> QED BY <1>2, <1>3, <1>4, <1>6, <2>1 DEF ProducerOK, HasRoom
<1>9. producer.pc \in {"store", "reuse"} /\ producer'.pc \in {"publish", "reuseTail"} /\ producer'.block = b
      /\ producer' = [pc |-> producer'.pc, block |-> b]
  BY <1>2, <1>3
<1>10. /\ b \in DOMAIN blocks /\ producer.block = b /\ BlocksOK' /\ k = blocks[b]
       /\ UNCHANGED <<blocking, consumer, received, destroyed, frontBlock, tailBlock>>
       /\ UNCHANGED <<largestBlockSize, sent, m_count, m_sema, oldCount, waiter>>
  BY <1>1, <1>2, <1>3, <1>5 DEF k
<1> QED BY ONLY QueueOK(rk), <1>6, <1>7, <1>8, <1>9, <1>10, Construct

\* A block the producer works on beyond the tail is not the consumer's, and is linked but when it is new.
LEMMA ProducerBlock ==
    ASSUME NEW rk, QueueOK(rk), producer.pc \in {"reuse", "reuseTail", "link", "advance"}
    PROVE  /\ producer.block \in DOMAIN blocks
           /\ producer.block # frontBlock /\ producer.block # tailBlock
           /\ producer.pc # "link" => /\ producer.block = blocks[tailBlock].next
                                      /\ producer.block \in Linked
                                      /\ rk[producer.block] > rk[frontBlock]
<1>1. TypeOK /\ BlocksOK /\ RingOK(rk) /\ ProducerOK(rk) /\ tailBlock \in DOMAIN blocks
  BY DEF QueueOK, TypeOK
<1>2. frontBlock \in Linked /\ tailBlock \in Linked /\ rk \in [Linked -> Nat] /\ rk[tailBlock] = 0
  BY <1>1 DEF RingOK, Ranked
<1>3. CASE producer.pc = "link"
  BY <1>1, <1>2, <1>3 DEF ProducerOK, Linked
<1>4. CASE producer.pc # "link"
  <2>1. producer.block = blocks[tailBlock].next /\ rk[producer.block] > rk[frontBlock]
    BY <1>1, <1>4 DEF ProducerOK
  <2>2. producer.block \in DOMAIN blocks /\ Linked = DOMAIN blocks
    BY <1>1, <1>4, <2>1 DEF BlocksOK, Linked
  <2>3. rk[frontBlock] \in Nat /\ rk[producer.block] \in Nat
    BY <1>2, <2>2
  <2> QED BY <1>2, <1>4, <2>1, <2>2, <2>3
<1> QED BY <1>3, <1>4

\* What the consumer has in hand is at the front of its block.
LEMMA ConsumerBlock ==
    ASSUME NEW rk, QueueOK(rk), consumer.pc \in {"move", "release"}
    PROVE  /\ consumer.block = frontBlock /\ consumer.front = blocks[frontBlock].front
           /\ HasElement(blocks[frontBlock]) /\ ~IsEmpty(blocks[frontBlock])
           /\ blocks[frontBlock].front \in Filled(blocks[frontBlock])
<1>1. /\ consumer.block = frontBlock /\ consumer.front = blocks[frontBlock].front
      /\ HasElement(blocks[frontBlock]) /\ BlockOK(blocks[frontBlock])
  BY DEF QueueOK, ConsumerOK, TypeOK, BlocksOK
<1>2. PICK k : k = blocks[frontBlock]
  OBVIOUS
<1>3. k.front # k.localTail /\ BlockOK(k)
  BY <1>1, <1>2 DEF HasElement
<1>4. k.front # k.tail
  <2>1. /\ k.size \in Nat /\ k.front \in Nat /\ k.tail \in Nat /\ k.localFront \in Nat /\ k.localTail \in Nat
        /\ Ring(k.size, k.front, k.localTail, k.tail, k.localFront)
    BY <1>3, BlockFacts
  <2>2. /\ k.front < k.size /\ k.tail < k.size /\ k.localTail < k.size
        /\ Gap(k.size, k.front, k.localTail) <= Gap(k.size, k.front, k.tail)
    BY ONLY <2>1 DEF Ring
  <2> QED BY ONLY <1>3, <2>1, <2>2 DEF Gap
<1> QED BY <1>1, <1>2, <1>3, <1>4, BlockFacts DEF IsEmpty

\* A step of the producer beyond the slots that are in sight: what the consumer knows stays.
LEMMA ConsumerUndisturbed ==
    ASSUME NEW rk, QueueOK(rk), UNCHANGED <<blocking, consumer, frontBlock>>,
           frontBlock # tailBlock => frontBlock # tailBlock',
           blocks'[frontBlock].front = blocks[frontBlock].front,
           blocks'[frontBlock].localTail = blocks[frontBlock].localTail,
           frontBlock # tailBlock => /\ blocks'[frontBlock].tail = blocks[frontBlock].tail
                                     /\ blocks'[frontBlock].next = blocks[frontBlock].next,
           \A b \in DOMAIN blocks : /\ blocks'[b].front = blocks[b].front
                                    /\ blocks'[b].localTail = blocks[b].localTail
    PROVE  ConsumerOK'
<1>1. frontBlock \in DOMAIN blocks /\ blocks[frontBlock].next \in DOMAIN blocks
  BY DEF QueueOK, TypeOK, BlocksOK
<1>3. PICK n : n = blocks[frontBlock].next
  OBVIOUS
<1>4. blocks'[n].front = blocks[n].front /\ blocks'[n].localTail = blocks[n].localTail
  BY <1>1, <1>3
<1> QED BY <1>3, <1>4 DEF ConsumerOK, QueueOK, HasElement, IsEmpty

\* The element in the block that is used again is published before the block is.
LEMMA ReuseTailOK ==
    ASSUME NEW rk, QueueOK(rk), ReuseTail
    PROVE  QueueOK(rk)' /\ Kept' = Kept
<1> DEFINE b == producer.block
           k == blocks[b]
<1>1. /\ TypeOK /\ BlocksOK /\ SemaphoreOK /\ ProducerOK(rk) /\ RingOK(rk) /\ DataOK /\ CountOK /\ OrderOK(rk)
      /\ ConsumerOK /\ tailBlock \in DOMAIN blocks /\ frontBlock \in DOMAIN blocks
  BY DEF QueueOK, TypeOK
<1>2. /\ producer.pc = "reuseTail"
      /\ blocks' = [blocks EXCEPT ![b].tail = After(b, k.tail)]
      /\ producer' = [pc |-> "advance", block |-> b]
      /\ UNCHANGED <<blocking, consumer, received, destroyed, frontBlock, tailBlock>>
      /\ UNCHANGED <<largestBlockSize, sent, m_count, m_sema, oldCount, waiter>>
  BY DEF ReuseTail, ProducerStep, semaphoreVars
<1>3. /\ b \in DOMAIN blocks /\ b # frontBlock /\ b # tailBlock /\ b = blocks[tailBlock].next
      /\ b \in Linked /\ rk[b] > rk[frontBlock]
  BY <1>2, ProducerBlock
<1>4. BlockOK(k) /\ k \in Block /\ HasRoom(k) /\ IsEmpty(k)
  BY <1>1, <1>2, <1>3 DEF BlocksOK, BlockOK, ProducerOK, RingOK
<1>5. /\ BlocksOK' /\ DOMAIN blocks' = DOMAIN blocks
      /\ blocks'[b] = [k EXCEPT !.tail = Succ(k.size, k.tail)]
      /\ \A c \in DOMAIN blocks : c # b => blocks'[c] = blocks[c]
      /\ Filled(blocks'[b]) = Filled(k) \cup {k.tail}
      /\ Gap(k.size, k.front, blocks'[b].tail) = Gap(k.size, k.front, k.tail) + 1
  BY <1>1, <1>2, <1>3, <1>4, SetTail
<1>6. k.front = k.tail /\ Filled(k) = {} /\ Gap(k.size, k.front, k.tail) = 0
      /\ k.tail \in 0..k.size - 1 /\ k.size \in Nat
  <2>1. k.size \in Nat /\ k.front \in Nat /\ k.tail \in 0..k.size - 1 /\ k.front = k.tail /\ Filled(k) = {}
    BY <1>4, BlockFacts DEF IsEmpty
  <2> HIDE DEF k
  <2> QED BY <2>1 DEF Gap
<1> HIDE DEF k, b
<1>7. /\ blocks'[b].front = k.front /\ blocks'[b].size = k.size /\ blocks'[b].next = k.next
      /\ blocks'[b].localFront = k.localFront /\ blocks'[b].localTail = k.localTail
      /\ blocks'[b].data = k.data
  BY <1>4, <1>5 DEF Block
<1>8. TypeOK' /\ SemaphoreOK'
  <2>0. b \in Nat /\ sent > 0
    <3>1. b \in Nat
      BY <1>1, <1>3 DEF BlocksOK
    <3>2. sent > 0
      BY <1>1, <1>2 DEF Busy, TypeOK
    <3> QED BY <3>1, <3>2
  <2>1. producer' \in [pc : Busy \cup {"idle", "signal", "post"}, block : Nat]
    BY <1>2, <2>0 DEF Busy
  <2>2. TypeOK'
    BY <1>1, <1>2, <1>5, <2>0, <2>1 DEF TypeOK
  <2>3. SemaphoreOK'
    BY <1>1, <1>2 DEF SemaphoreOK
  <2> QED BY <2>2, <2>3
<1>9. ConsumerOK'
  <2>1. \A c \in DOMAIN blocks : /\ blocks'[c].front = blocks[c].front
                                 /\ blocks'[c].localTail = blocks[c].localTail
    BY <1>5, <1>7 DEF k
  <2>2. blocks'[frontBlock] = blocks[frontBlock]
    BY <1>1, <1>3, <1>5
  <2> QED BY <1>2, <2>1, <2>2, ConsumerUndisturbed
<1>10. ProducerOK(rk)'
  <2>1. blocks'[tailBlock] = blocks[tailBlock]
    BY <1>1, <1>3, <1>5
  <2> QED BY <1>2, <1>3, <1>5, <1>6, <1>7, <2>1 DEF ProducerOK
<1>11. RingOK(rk)'
  <2>1. Linked' = Linked /\ Linked \subseteq DOMAIN blocks
    BY <1>2, <1>5 DEF Linked
  <2>2. Nexts' = Nexts
    BY <1>5, <1>7 DEF Nexts, k
  <2>3. \A c \in Linked : c # b => blocks'[c] = blocks[c]
    BY <1>5, <2>1
  <2>4. rk[b] \in Nat /\ rk[frontBlock] \in Nat
    BY <1>1, <1>3 DEF RingOK, Ranked
  <2>5. ~(rk[b] < rk[frontBlock])
    BY <1>3, <2>4
  <2> QED BY <1>1, <1>2, <2>1, <2>2, <2>3, <2>5 DEF RingOK, b
<1>12. \A c \in DOMAIN blocks : Taken(c)' = Taken(c) /\ (c # b => Filled(blocks'[c]) = Filled(blocks[c]))
                                /\ (c = b => Taken(c) = {})
                                /\ Stored(c)' = {} /\ Stored(c) = IF c = b THEN {k.tail} ELSE {}
  <2>1. \A c \in DOMAIN blocks : blocks'[c].front = blocks[c].front
    BY <1>5, <1>7 DEF k
  <2>2. consumer.pc = "release" => consumer.block = frontBlock
    BY <1>1 DEF ConsumerOK
  <2>3. \A c \in DOMAIN blocks : Taken(c)' = Taken(c) /\ (c = b => Taken(c) = {})
    BY <1>2, <1>3, <2>1, <2>2 DEF Taken
  <2>4. \A c \in DOMAIN blocks : Stored(c)' = {} /\ Stored(c) = IF c = b THEN {k.tail} ELSE {}
    BY <1>2 DEF Stored, k, b
  <2> QED BY <1>5, <2>3, <2>4
<1>13. DataOK'
  <2>1. ASSUME NEW c \in DOMAIN blocks, NEW i \in 0..blocks'[c].size - 1
        PROVE  blocks'[c].data[i] # Raw <=> i \in (Filled(blocks'[c]) \ Taken(c)') \cup Stored(c)'
    <3>1. blocks'[c].data = blocks[c].data /\ blocks'[c].size = blocks[c].size
      BY <1>5, <1>7 DEF k
    <3>2. blocks[c].data[i] # Raw <=> i \in (Filled(blocks[c]) \ Taken(c)) \cup Stored(c)
      BY <1>1, <3>1 DEF DataOK
    <3>3. (Filled(blocks'[c]) \ Taken(c)') \cup Stored(c)' = (Filled(blocks[c]) \ Taken(c)) \cup Stored(c)
      <4>1. CASE c = b
        <5>1. Filled(blocks'[c]) = {k.tail} /\ Filled(blocks[c]) = {} /\ Taken(c) = {}
          BY <1>5, <1>6, <1>12, <4>1 DEF k
        <5> QED BY <1>12, <4>1, <5>1
      <4>2. CASE c # b
        BY <1>12, <4>2
      <4> QED BY <4>1, <4>2
    <3> QED BY <3>1, <3>2, <3>3
  <2> QED BY <1>5, <2>1 DEF DataOK
<1>14. Visible' = Visible
  <2>1. \A c \in DOMAIN blocks : (Hidden(c)' <=> c = b) /\ ~Hidden(c)
    BY <1>2 DEF Hidden
  <2>2. \A c \in DOMAIN blocks : \A i :
          i \in Filled(blocks'[c]) /\ ~Hidden(c)' <=> i \in Filled(blocks[c]) /\ ~Hidden(c)
    BY <1>6, <1>12, <2>1 DEF k
  <2>3. Visible' = {x \in (DOMAIN blocks) \X Index : x[2] \in Filled(blocks'[x[1]]) /\ ~Hidden(x[1])'}
    BY <1>5 DEF Visible, Index
  <2> QED BY <2>2, <2>3 DEF Visible
<1>15. CountOK'
  <2>1. Tickets' = Tickets
    BY <1>2 DEF Tickets, One
  <2> QED BY <1>1, <1>2, <1>14, <2>1 DEF CountOK
<1>16. Live' = Live /\ \A x \in Live : x[1] \in DOMAIN blocks
  BY <1>12, <1>14 DEF Live, Visible
<1>17. \A x \in Live : Value(x)' = Value(x)
  <2>1. \A c \in DOMAIN blocks : blocks'[c].data = blocks[c].data
    BY <1>5, <1>7 DEF k
  <2> QED BY <1>16, <2>1 DEF Value
<1>18. Kept' = Kept
  BY <1>16, <1>17 DEF Kept
<1>19. OrderOK(rk)'
  <2>1. \A c \in DOMAIN blocks : blocks'[c].front = blocks[c].front /\ blocks'[c].size = blocks[c].size
    BY <1>5, <1>7 DEF k
  <2>2. \A x, y \in Live : Before(rk, x, y)' <=> Before(rk, x, y)
    BY <1>16, <2>1 DEF Before
  <2>3. producer.pc \in Busy /\ producer'.pc \in Busy /\ sent' = sent /\ received' = received
    BY <1>2 DEF Busy
  <2>4. /\ \A x \in Live : Older(Value(x))' <=> Older(Value(x))
        /\ \A n \in DOMAIN received : Older(received[n])' <=> Older(received[n])
    BY <1>17, <2>3 DEF Older
  <2>5. blocks'[b].data[blocks'[b].front] = sent
    BY <1>1, <1>2, <1>6, <1>7 DEF OrderOK, b, k
  <2>6. producer'.pc = "advance" /\ producer'.block = b
    BY <1>2
  <2> QED BY <1>1, <1>16, <1>17, <2>2, <2>3, <2>4, <2>5, <2>6 DEF OrderOK, InOrder
<1> QED BY <1>5, <1>8, <1>9, <1>10, <1>11, <1>13, <1>15, <1>18, <1>19 DEF QueueOK

\* A new block holds the item in its first slot.
NewBlockOf(size, v, n) == [make_block(size) EXCEPT !.data[0] = v, !.tail = 1, !.localTail = 1, !.next = n]

\* Such a block is a block, with one element.
LEMMA NewBlock ==
    ASSUME NEW size \in Nat, size >= 2, NEW v \in Nat, NEW n \in Nat,
           NEW new, new = NewBlockOf(size, v, n)
    PROVE  /\ BlockOK(new) /\ new.next = n /\ new.front = 0 /\ new.tail = 1 /\ new.size = size
           /\ Filled(new) = {0}
           /\ Gap(new.size, new.front, new.tail) = 1
           /\ \A i \in 0..size - 1 : new.data[i] = IF i = 0 THEN v ELSE Raw
<1> DEFINE d0 == [i \in 0..size - 1 |-> Raw]
           d == [d0 EXCEPT ![0] = v]
<1>1. d \in [0..size - 1 -> Nat] /\ \A i \in 0..size - 1 : d[i] = IF i = 0 THEN v ELSE Raw
  BY DEF Raw
<1>2. make_block(size) = [front |-> 0, localTail |-> 0, tail |-> 0, localFront |-> 0, next |-> 0,
                          size |-> size, data |-> d0]
  BY DEF make_block
<1>3. new = [front |-> 0, localTail |-> 1, tail |-> 1, localFront |-> 0, next |-> n,
             size |-> size, data |-> d]
  <2>1. PICK k0 : k0 = make_block(size)
    OBVIOUS
  <2>2. k0.data = d0
    BY <1>2, <2>1
  <2>3. PICK k1 : k1 = [k0 EXCEPT !.data = d]
    OBVIOUS
  <2>4. k1 = [k0 EXCEPT !.data[0] = v]
    BY <2>2, <2>3
  <2> HIDE DEF d, d0
  <2>5. k1 = [front |-> 0, localTail |-> 0, tail |-> 0, localFront |-> 0, next |-> 0,
              size |-> size, data |-> d]
    BY <1>2, <2>1, <2>3
  <2>6. PICK k2 : k2 = [k1 EXCEPT !.tail = 1]
    OBVIOUS
  <2>7. PICK k3 : k3 = [k2 EXCEPT !.localTail = 1]
    OBVIOUS
  <2>8. new = [k3 EXCEPT !.next = n]
    BY <2>1, <2>4, <2>6, <2>7 DEF NewBlockOf
  <2>9. k3 = [front |-> 0, localTail |-> 1, tail |-> 1, localFront |-> 0, next |-> 0,
              size |-> size, data |-> d]
    BY <2>5, <2>6, <2>7
  <2> QED BY <2>8, <2>9
<1> HIDE DEF d, d0
<1>4. /\ Ring(size, 0, 1, 1, 0) /\ Slots(size, 0, 1) = {0} /\ Gap(size, 0, 1) = 1
  BY DEF Ring, Slots, Gap
<1>5. BlockOK(new)
  BY <1>1, <1>3, <1>4, MakeBlock
<1> QED BY <1>1, <1>3, <1>4, <1>5 DEF Filled

\* A new block is not in the circle, and nothing that is changes.
LEMMA AllocateOK ==
    ASSUME NEW rk, QueueOK(rk), Allocate
    PROVE  QueueOK(rk)' /\ Kept' = Kept
<1>0. PICK N : N = Len(blocks) + 1
  OBVIOUS
<1>1. /\ TypeOK /\ BlocksOK /\ SemaphoreOK /\ ProducerOK(rk) /\ RingOK(rk) /\ DataOK /\ CountOK /\ OrderOK(rk)
      /\ ConsumerOK /\ tailBlock \in DOMAIN blocks /\ frontBlock \in DOMAIN blocks
      /\ blocks[tailBlock].next \in DOMAIN blocks /\ blocks[tailBlock].next \in Nat
      /\ sent \in Nat /\ blocks \in Seq(Block)
  BY BlockFacts DEF QueueOK, TypeOK, BlocksOK
<1>2. /\ producer.pc = "allocate" /\ producer.block = tailBlock /\ sent > 0
      /\ UNCHANGED <<blocking, consumer, received, destroyed, frontBlock, tailBlock>>
      /\ UNCHANGED <<sent, m_count, m_sema, oldCount, waiter>>
      /\ producer' = [pc |-> "link", block |-> N]
  BY <1>0, <1>1 DEF Allocate, ProducerStep, semaphoreVars, ProducerOK, TypeOK, Busy
<1>3. PICK size, new :
        /\ size \in Nat /\ size >= 2 /\ largestBlockSize' = size /\ blocks' = Append(blocks, new)
        /\ new = NewBlockOf(size, sent, blocks[tailBlock].next)
  <2>1. PICK size : size = IF largestBlockSize >= MaxBlockSize THEN largestBlockSize ELSE 2 * largestBlockSize
    OBVIOUS
  <2>2. size \in Nat /\ size >= 2
    BY <1>1, <2>1 DEF TypeOK
  <2> QED BY <1>2, <2>1, <2>2 DEF Allocate, NewBlockOf
<1>4. /\ BlockOK(new) /\ new.next = blocks[tailBlock].next /\ new.front = 0 /\ new.tail = 1 /\ new.size = size
      /\ Filled(new) = {0}
      /\ Gap(new.size, new.front, new.tail) = 1
      /\ \A i \in 0..size - 1 : new.data[i] = IF i = 0 THEN sent ELSE Raw
  BY <1>1, <1>3, NewBlock
<1>5. /\ blocks' \in Seq(Block) /\ DOMAIN blocks' = DOMAIN blocks \cup {N} /\ N \notin DOMAIN blocks
      /\ N \in Nat /\ blocks'[N] = new /\ \A c \in DOMAIN blocks : blocks'[c] = blocks[c]
  <2>1. new \in Block
    BY <1>4 DEF BlockOK
  <2> QED BY <1>0, <1>1, <1>3, <2>1
<1>6. BlocksOK'
  <2>1. ASSUME NEW c \in DOMAIN blocks' PROVE BlockOK(blocks'[c]) /\ blocks'[c].next \in DOMAIN blocks'
    BY <1>1, <1>4, <1>5 DEF BlocksOK
  <2> QED BY <1>5, <2>1 DEF BlocksOK
<1>7. TypeOK' /\ SemaphoreOK'
  <2>1. producer' \in [pc : Busy \cup {"idle", "signal", "post"}, block : Nat]
    BY <1>2, <1>5 DEF Busy
  <2>2. frontBlock \in DOMAIN blocks' /\ tailBlock \in DOMAIN blocks'
    BY <1>1, <1>5
  <2>3. TypeOK'
    BY <1>1, <1>2, <1>3, <2>1, <2>2 DEF TypeOK
  <2>4. SemaphoreOK'
    BY <1>1, <1>2 DEF SemaphoreOK
  <2> QED BY <2>3, <2>4
<1>8. ConsumerOK'
  BY <1>1, <1>2, <1>5, ConsumerUndisturbed
<1>9. ProducerOK(rk)'
  <2>1. blocks'[tailBlock] = blocks[tailBlock]
    BY <1>1, <1>5
  <2> QED BY <1>2, <1>4, <1>5, <2>1 DEF ProducerOK
<1>10. RingOK(rk)'
  <2>1. Linked = DOMAIN blocks /\ Linked' = DOMAIN blocks
    BY <1>2, <1>5 DEF Linked
  <2>2. \A c \in DOMAIN blocks : Nexts'[c] = Nexts[c] /\ blocks'[c] = blocks[c]
    BY <1>5 DEF Nexts
  <2>3. Ranked(rk, DOMAIN blocks, Nexts, tailBlock) /\ frontBlock \in DOMAIN blocks
    BY <1>1, <2>1 DEF RingOK
  <2>4. Ranked(rk, DOMAIN blocks, Nexts', tailBlock)
    BY <1>1, <2>2, <2>3 DEF Ranked
  <2>5. producer.pc # "advance"
    BY <1>2
  <2>6. \A b \in DOMAIN blocks :
         /\ rk[b] < rk[frontBlock] => ~IsEmpty(blocks[b])
         /\ rk[b] > rk[frontBlock] => IsEmpty(blocks[b])
    BY <1>1, <2>1, <2>5 DEF RingOK
  <2> QED BY <1>2, <2>1, <2>2, <2>3, <2>4, <2>6 DEF RingOK
<1>11. /\ \A c \in DOMAIN blocks : Taken(c)' = Taken(c) /\ Stored(c)' = Stored(c)
       /\ Taken(N)' = {} /\ Stored(N)' = {}
  <2>1. consumer.pc = "release" => consumer.block = frontBlock
    BY <1>1 DEF ConsumerOK
  <2>2. \A c \in DOMAIN blocks : Taken(c)' = Taken(c)
    BY <1>2, <1>5 DEF Taken
  <2>3. Taken(N)' = {}
    BY <1>1, <1>2, <1>5, <2>1 DEF Taken
  <2> QED BY <1>2, <2>2, <2>3 DEF Stored
<1>12. DataOK'
  <2>1. ASSUME NEW c \in DOMAIN blocks', NEW i \in 0..blocks'[c].size - 1
        PROVE  blocks'[c].data[i] # Raw <=> i \in (Filled(blocks'[c]) \ Taken(c)') \cup Stored(c)'
    <3>1. CASE c \in DOMAIN blocks
      BY <1>1, <1>5, <1>11, <3>1 DEF DataOK
    <3>2. CASE c = N
      <4>1. i \in 0..size - 1 /\ (Filled(blocks'[c]) \ Taken(c)') \cup Stored(c)' = {0}
        BY <1>4, <1>5, <1>11, <3>2
      <4>2. blocks'[c].data[i] = IF i = 0 THEN sent ELSE Raw
        BY <1>4, <1>5, <3>2, <4>1
      <4>3. sent # Raw
        BY <1>1, <1>2 DEF Raw
      <4> QED BY <4>1, <4>2, <4>3
    <3> QED BY <1>5, <3>1, <3>2
  <2> QED BY <2>1 DEF DataOK
<1>13. Visible' = Visible
  <2>1. Hidden(N)' /\ \A c \in DOMAIN blocks : ~Hidden(c)' /\ ~Hidden(c)
    BY <1>2, <1>5 DEF Hidden
  <2>2. Visible' = {x \in (DOMAIN blocks \cup {N}) \X Index :
                      x[2] \in Filled(blocks'[x[1]]) /\ ~Hidden(x[1])'}
    BY <1>5 DEF Visible, Index
  <2>3. \A c \in DOMAIN blocks \cup {N} : \A i :
          i \in Filled(blocks'[c]) /\ ~Hidden(c)' 
            <=> c \in DOMAIN blocks /\ i \in Filled(blocks[c]) /\ ~Hidden(c)
    BY <1>5, <2>1
  <2> QED BY <2>2, <2>3 DEF Visible
<1>14. CountOK'
  <2>1. Tickets' = Tickets
    BY <1>2 DEF Tickets, One
  <2> QED BY <1>1, <1>2, <1>13, <2>1 DEF CountOK
<1>15. Live' = Live /\ \A x \in Live : x[1] \in DOMAIN blocks /\ Value(x)' = Value(x)
  BY <1>5, <1>11, <1>13 DEF Live, Visible, Value
<1>16. Kept' = Kept
  BY <1>15 DEF Kept
<1>17. OrderOK(rk)'
  <2>1. \A x, y \in Live : Before(rk, x, y)' <=> Before(rk, x, y)
    BY <1>5, <1>15 DEF Before
  <2>2. producer.pc \in Busy /\ producer'.pc \in Busy /\ sent' = sent /\ received' = received
    BY <1>2 DEF Busy
  <2>3. /\ \A x \in Live : Older(Value(x))' <=> Older(Value(x))
        /\ \A n \in DOMAIN received : Older(received[n])' <=> Older(received[n])
    BY <1>15, <2>2 DEF Older
  <2>4. blocks'[N].data[blocks'[N].front] = sent
    <3>1. 0 \in 0..size - 1
      BY <1>3
    <3> QED BY <1>4, <1>5, <3>1
  <2>5. producer'.pc = "link" /\ producer'.block = N
    BY <1>2
  <2> QED BY <1>1, <1>15, <2>1, <2>2, <2>3, <2>4, <2>5 DEF OrderOK, InOrder
<1> QED BY <1>6, <1>7, <1>8, <1>9, <1>10, <1>12, <1>14, <1>16, <1>17 DEF QueueOK

\* A new block after the tail block has the highest rank.
LEMMA RankLink ==
    ASSUME NEW rk, NEW B, NEW nx, NEW tail, Ranked(rk, B, nx, tail), NEW N, N \notin B, NEW nx2,
           \A b \in B : b # tail => nx2[b] = nx[b], nx2[tail] = N, nx2[N] = nx[tail],
           NEW rk2, rk2 = [b \in B \cup {N} |-> IF b = N THEN rk[nx[tail]] + 1 ELSE rk[b]]
    PROVE  /\ Ranked(rk2, B \cup {N}, nx2, tail)
           /\ \A b \in B : rk2[b] = rk[b] /\ rk2[N] > rk2[b] /\ rk2[b] \in Nat
<1>1. /\ tail \in B /\ nx[tail] \in B /\ rk[tail] = 0
      /\ \A b \in B : rk[b] \in Nat /\ nx[b] \in B /\ rk[b] <= rk[nx[tail]]
      /\ \A b \in B : b # tail => rk[b] = rk[nx[b]] + 1
      /\ \A b, c \in B : rk[b] = rk[c] => b = c
  BY DEF Ranked
<1>2. PICK top \in Nat : top = rk[nx[tail]]
  BY <1>1
<1>3. rk2[N] = top + 1 /\ \A b \in B : rk2[b] = rk[b] /\ b # N
  BY <1>2
<1>4. rk2 \in [B \cup {N} -> Nat]
  BY <1>1, <1>2
<1>5. \A b \in B : rk[b] <= top /\ rk[b] \in Nat
  BY <1>1, <1>2
<1>6. \A b \in B \cup {N} : nx2[b] \in B \cup {N} /\ rk2[b] <= rk2[nx2[tail]]
  BY <1>1, <1>3, <1>5
<1>7. \A b \in B \cup {N} : b # tail => rk2[b] = rk2[nx2[b]] + 1
  <2>1. ASSUME NEW b \in B, b # tail PROVE rk2[b] = rk2[nx2[b]] + 1
    BY <1>1, <1>3, <2>1
  <2>2. rk2[N] = rk2[nx2[N]] + 1
    BY <1>1, <1>2, <1>3
  <2> QED BY <2>1, <2>2
<1>8. \A b, c \in B \cup {N} : rk2[b] = rk2[c] => b = c
  <2>1. ASSUME NEW b \in B \cup {N}, NEW c \in B \cup {N}, rk2[b] = rk2[c] PROVE b = c
    <3>1. CASE b \in B /\ c \in B
      BY <1>1, <1>3, <2>1, <3>1
    <3>2. CASE b = N \/ c = N
      <4>1. \A x \in B : rk2[x] # rk2[N]
        BY <1>3, <1>5
      <4> QED BY <2>1, <3>2, <4>1
    <3> QED BY <3>1, <3>2
  <2> QED BY <2>1
<1>9. Ranked(rk2, B \cup {N}, nx2, tail)
  BY <1>1, <1>3, <1>4, <1>6, <1>7, <1>8 DEF Ranked
<1>10. \A b \in B : rk2[b] = rk[b] /\ rk2[N] > rk2[b] /\ rk2[b] \in Nat
  BY <1>3, <1>5
<1> QED BY <1>9, <1>10

\* When the tail moves on, the block it reaches has rank 0 and all others are one hop farther.
LEMMA RankAdvance ==
    ASSUME NEW rk, NEW B, NEW nx, NEW tail, Ranked(rk, B, nx, tail), NEW t, t = nx[tail], t # tail,
           NEW rk2, rk2 = [c \in B |-> IF c = t THEN 0 ELSE rk[c] + 1]
    PROVE  /\ Ranked(rk2, B, nx, t)
           /\ \A c \in B : rk[c] \in Nat /\ rk2[c] = IF c = t THEN 0 ELSE rk[c] + 1
<1>1. /\ tail \in B /\ t \in B /\ rk[tail] = 0
      /\ \A b \in B : rk[b] \in Nat /\ nx[b] \in B /\ rk[b] <= rk[t]
      /\ \A b \in B : b # tail => rk[b] = rk[nx[b]] + 1
      /\ \A b, c \in B : rk[b] = rk[c] => b = c
  BY DEF Ranked
<1>2. /\ rk2 \in [B -> Nat] /\ rk2[t] = 0
      /\ \A c \in B : rk[c] \in Nat /\ rk2[c] = IF c = t THEN 0 ELSE rk[c] + 1
  BY <1>1
<1>3. nx[t] \in B /\ nx[t] # t /\ rk[t] = rk[nx[t]] + 1 /\ rk2[nx[t]] = rk[t]
  BY <1>1, <1>2
<1>4. \A c \in B : c # t => rk[c] < rk[t]
  <2>1. \A c \in B : c # t => rk[c] # rk[t] /\ rk[c] <= rk[t] /\ rk[c] \in Nat /\ rk[t] \in Nat
    BY <1>1
  <2> QED BY <2>1
<1>5. \A c \in B : rk2[c] <= rk2[nx[t]]
  <2>1. ASSUME NEW c \in B PROVE rk2[c] <= rk[t]
    <3>1. rk[c] \in Nat /\ rk[t] \in Nat
      BY <1>1
    <3> QED BY <1>2, <1>4, <3>1
  <2> QED BY <1>3, <2>1
<1>6. ASSUME NEW c \in B, c # t PROVE rk2[c] = rk2[nx[c]] + 1
  <2>1. CASE c = tail
    BY <1>1, <1>2, <1>6, <2>1
  <2>2. CASE c # tail
    <3>1. rk[c] = rk[nx[c]] + 1 /\ nx[c] \in B /\ rk[nx[c]] \in Nat /\ rk[c] \in Nat
      BY <1>1, <2>2
    <3>2. nx[c] # t
      BY <1>1, <1>4, <1>6, <3>1
    <3> QED BY <1>2, <1>6, <3>1, <3>2
  <2> QED BY <2>1, <2>2
<1>7. ASSUME NEW b \in B, NEW c \in B, rk2[b] = rk2[c] PROVE b = c
  <2>1. rk[b] \in Nat /\ rk[c] \in Nat
    BY <1>1
  <2>2. b = t <=> c = t
    BY <1>2, <1>7, <2>1
  <2>3. b # t /\ c # t => rk[b] = rk[c]
    BY <1>2, <1>7, <2>1
  <2> QED BY <1>1, <2>2, <2>3
<1>8. Ranked(rk2, B, nx, t)
  BY <1>1, <1>2, <1>5, <1>6, <1>7 DEF Ranked
<1> QED BY <1>2, <1>8

\* The new block comes into the circle after the tail block, with the highest rank.
LEMMA LinkOK ==
    ASSUME NEW rk, QueueOK(rk), Link
    PROVE  (\E rk2 \in Rankings' : QueueOK(rk2)') /\ Kept' = Kept
<1>0. PICK N : N = producer.block
  OBVIOUS
<1> DEFINE k == blocks[tailBlock]
<1>1. /\ TypeOK /\ BlocksOK /\ SemaphoreOK /\ ProducerOK(rk) /\ RingOK(rk) /\ DataOK /\ CountOK /\ OrderOK(rk)
      /\ ConsumerOK /\ tailBlock \in DOMAIN blocks /\ frontBlock \in DOMAIN blocks
      /\ BlockOK(k) /\ k \in Block
  BY DEF QueueOK, TypeOK, BlocksOK, BlockOK
<1>2. /\ producer.pc = "link"
      /\ UNCHANGED <<blocking, consumer, received, destroyed, frontBlock, tailBlock, largestBlockSize>>
      /\ UNCHANGED <<sent, m_count, m_sema, oldCount, waiter>>
      /\ producer' = [pc |-> "advance", block |-> N]
      /\ blocks' = [blocks EXCEPT ![tailBlock].next = N]
  BY <1>0 DEF Link, ProducerStep, semaphoreVars
<1>3. /\ N \in DOMAIN blocks /\ N # frontBlock /\ N # tailBlock /\ N \in Nat
      /\ blocks[N].next = k.next /\ Gap(blocks[N].size, blocks[N].front, blocks[N].tail) = 1
  <2>1. N \in DOMAIN blocks /\ N # frontBlock /\ N # tailBlock
    BY <1>0, <1>2, ProducerBlock
  <2>2. blocks[N].next = k.next /\ Gap(blocks[N].size, blocks[N].front, blocks[N].tail) = 1
    BY <1>0, <1>1, <1>2 DEF ProducerOK
  <2> QED BY <1>1, <2>1, <2>2 DEF BlocksOK
<1>4. PICK k2 : k2 = [k EXCEPT !.next = N]
  OBVIOUS
<1>5. /\ k2.front = k.front /\ k2.tail = k.tail /\ k2.size = k.size /\ k2.data = k.data
      /\ k2.localTail = k.localTail /\ k2.localFront = k.localFront /\ k2.next = N /\ BlockOK(k2)
  <2>1. k2 = [front |-> k.front, localTail |-> k.localTail, tail |-> k.tail,
              localFront |-> k.localFront, next |-> N, size |-> k.size, data |-> k.data]
    BY <1>1, <1>4, BlockRecord
  <2> HIDE DEF k
  <2>2. BlockOK(k2)
    BY <1>1, <1>3, <2>1, BlockFacts, MakeBlock
  <2> QED BY <2>1, <2>2
<1>6. /\ BlocksOK' /\ DOMAIN blocks' = DOMAIN blocks /\ blocks'[tailBlock] = k2
      /\ \A c \in DOMAIN blocks : c # tailBlock => blocks'[c] = blocks[c]
  <2>1. blocks' = [blocks EXCEPT ![tailBlock] = k2]
    BY <1>2, <1>4
  <2> QED BY <1>1, <1>3, <1>5, <2>1, Replace
<1> HIDE DEF k
<1>7. \A c \in DOMAIN blocks : /\ blocks'[c].front = blocks[c].front /\ blocks'[c].tail = blocks[c].tail
                               /\ blocks'[c].size = blocks[c].size /\ blocks'[c].data = blocks[c].data
                               /\ blocks'[c].localTail = blocks[c].localTail
                               /\ Filled(blocks'[c]) = Filled(blocks[c])
                               /\ IsEmpty(blocks'[c]) <=> IsEmpty(blocks[c])
  <2>1. \A c \in DOMAIN blocks : /\ blocks'[c].front = blocks[c].front /\ blocks'[c].tail = blocks[c].tail
                                 /\ blocks'[c].size = blocks[c].size /\ blocks'[c].data = blocks[c].data
                                 /\ blocks'[c].localTail = blocks[c].localTail
    BY <1>5, <1>6 DEF k
  <2> QED BY <2>1 DEF Filled, IsEmpty
<1>8. TypeOK' /\ SemaphoreOK'
  <2>1. producer' \in [pc : Busy \cup {"idle", "signal", "post"}, block : Nat]
    BY <1>2, <1>3 DEF Busy
  <2>2. sent > 0
    BY <1>1, <1>2 DEF TypeOK, Busy
  <2>3. TypeOK'
    BY <1>1, <1>2, <1>6, <2>1, <2>2 DEF TypeOK
  <2>4. SemaphoreOK'
    BY <1>1, <1>2 DEF SemaphoreOK
  <2> QED BY <2>3, <2>4
<1>9. ConsumerOK'
  <2>1. frontBlock # tailBlock => blocks'[frontBlock].next = blocks[frontBlock].next
    BY <1>1, <1>6
  <2> QED BY <1>1, <1>2, <1>7, <2>1, ConsumerUndisturbed
<1>10. /\ Linked = (DOMAIN blocks) \ {N} /\ Linked' = Linked \cup {N} /\ Linked' = DOMAIN blocks
       /\ N \notin Linked
  BY <1>0, <1>2, <1>3, <1>6 DEF Linked
<1>11. Ranked(rk, Linked, Nexts, tailBlock) /\ frontBlock \in Linked
  BY <1>1 DEF RingOK
<1>12. /\ \A c \in DOMAIN blocks : c # tailBlock => Nexts'[c] = Nexts[c]
       /\ Nexts'[tailBlock] = N /\ Nexts'[N] = Nexts[tailBlock]
  BY <1>1, <1>3, <1>5, <1>6 DEF Nexts, k
<1>13. PICK rk2 : rk2 = [b \in Linked \cup {N} |-> IF b = N THEN rk[Nexts[tailBlock]] + 1 ELSE rk[b]]
  OBVIOUS
<1>14. /\ Ranked(rk2, Linked \cup {N}, Nexts', tailBlock)
       /\ \A b \in Linked : rk2[b] = rk[b] /\ rk2[N] > rk2[b] /\ rk2[b] \in Nat
  <2>1. PICK nx, nx2, tb, L : nx = Nexts /\ nx2 = Nexts' /\ tb = tailBlock /\ L = Linked
    OBVIOUS
  <2>2. /\ Ranked(rk, L, nx, tb) /\ N \notin L /\ (\A c \in L : c # tb => nx2[c] = nx[c])
        /\ nx2[tb] = N /\ nx2[N] = nx[tb]
        /\ rk2 = [b \in L \cup {N} |-> IF b = N THEN rk[nx[tb]] + 1 ELSE rk[b]]
    BY <1>10, <1>11, <1>12, <1>13, <2>1
  <2>3. /\ Ranked(rk2, L \cup {N}, nx2, tb)
        /\ \A b \in L : rk2[b] = rk[b] /\ rk2[N] > rk2[b] /\ rk2[b] \in Nat
    BY ONLY <2>2, RankLink
  <2> QED BY <2>1, <2>3
<1>15. RingOK(rk2)'
  <2>1. ASSUME NEW b \in DOMAIN blocks
        PROVE  /\ rk2[b] < rk2[frontBlock] => ~IsEmpty(blocks'[b])
               /\ rk2[b] > rk2[frontBlock] => IsEmpty(blocks'[b]) \/ b = N
    <3>1. CASE b = N
      <4>1. ~(rk2[N] < rk2[frontBlock])
        <5>1. rk2[N] > rk2[frontBlock] /\ rk2[frontBlock] \in Nat /\ rk2[N] \in Nat
          BY <1>11, <1>14 DEF Ranked
        <5> QED BY <5>1
      <4> QED BY <3>1, <4>1
    <3>2. CASE b \in Linked
      <4>1. rk2[b] = rk[b] /\ rk2[frontBlock] = rk[frontBlock]
        BY <1>11, <1>14, <3>2
      <4>2. /\ rk[b] < rk[frontBlock] => ~IsEmpty(blocks[b])
            /\ rk[b] > rk[frontBlock] => IsEmpty(blocks[b])
        BY <1>1, <1>2, <3>2 DEF RingOK
      <4> QED BY <1>7, <4>1, <4>2
    <3> QED BY <1>10, <3>1, <3>2
  <2> QED BY <1>2, <1>10, <1>11, <1>14, <2>1 DEF RingOK
<1>16. ProducerOK(rk2)'
  <2>1. rk2[N] > rk2[frontBlock] /\ blocks'[tailBlock].next = N
    BY <1>5, <1>6, <1>11, <1>14
  <2> QED BY <1>2, <1>3, <1>7, <2>1 DEF ProducerOK
<1>17. \A c \in DOMAIN blocks : /\ Taken(c)' = Taken(c) /\ Stored(c)' = {} /\ Stored(c) = {}
                                /\ Hidden(c)' <=> Hidden(c)
  BY <1>0, <1>2, <1>7 DEF Taken, Stored, Hidden
<1>18. DataOK'
  BY <1>1, <1>6, <1>7, <1>17 DEF DataOK
<1>19. Visible' = Visible
  <2>1. Visible' = {x \in (DOMAIN blocks) \X Index : x[2] \in Filled(blocks'[x[1]]) /\ ~Hidden(x[1])'}
    BY <1>6 DEF Visible, Index
  <2> QED BY <1>7, <1>17, <2>1 DEF Visible
<1>20. CountOK'
  <2>1. Tickets' = Tickets
    BY <1>2 DEF Tickets, One
  <2> QED BY <1>1, <1>2, <1>19, <2>1 DEF CountOK
<1>21. Live' = Live /\ \A x \in Live : x[1] \in DOMAIN blocks /\ Value(x)' = Value(x) /\ x[1] # N
  <2>1. Hidden(N)
    BY <1>0, <1>2 DEF Hidden
  <2> QED BY <1>7, <1>17, <1>19, <2>1 DEF Live, Visible, Value
<1>22. Kept' = Kept
  BY <1>21 DEF Kept
<1>23. OrderOK(rk2)'
  <2>1. \A x, y \in Live : Before(rk2, x, y)' <=> Before(rk, x, y)
    <3>1. \A x \in Live : rk2[x[1]] = rk[x[1]]
      BY <1>10, <1>14, <1>21
    <3> QED BY <1>7, <1>21, <3>1 DEF Before
  <2>2. producer.pc \in Busy /\ producer'.pc \in Busy /\ sent' = sent /\ received' = received
    BY <1>2 DEF Busy
  <2>3. /\ \A x \in Live : Older(Value(x))' <=> Older(Value(x))
        /\ \A n \in DOMAIN received : Older(received[n])' <=> Older(received[n])
    BY <1>21, <2>2 DEF Older
  <2>4. blocks'[N].data[blocks'[N].front] = sent
    BY <1>0, <1>1, <1>2, <1>3, <1>7 DEF OrderOK, InOrder
  <2>5. producer'.pc = "advance" /\ producer'.block = N
    BY <1>2
  <2> QED BY <1>1, <1>21, <2>1, <2>2, <2>3, <2>4, <2>5 DEF OrderOK, InOrder
<1>24. rk2 \in Rankings'
  BY <1>10, <1>14 DEF Ranked, Rankings
<1>25. QueueOK(rk2)'
  BY <1>6, <1>8, <1>9, <1>15, <1>16, <1>18, <1>20, <1>23 DEF QueueOK
<1> QED BY <1>22, <1>24, <1>25

-----------------------------------------------------------------------------
(***************************************************************************)
(* An element comes into sight: Publish and Advance.                       *)
(***************************************************************************)
\* In either way the newest item becomes the last one, and there is one ticket more.
LEMMA Show ==
    ASSUME NEW rk, NEW rk2, QueueOK(rk), producer.pc \in Busy, producer' = [pc |-> Enqueued, block |-> 0],
           UNCHANGED <<blocking, consumer, received, sent, m_count, waiter>>,
           NEW b \in DOMAIN blocks, NEW i, <<b, i>> \notin Visible, Visible' = Visible \cup {<<b, i>>},
           i \notin Taken(b), blocks'[b].data[i] = sent,
           \A c \in DOMAIN blocks : Taken(c)' = Taken(c) /\ blocks'[c].data = blocks[c].data,
           \A x, y \in Live : Before(rk2, x, y)' => Before(rk, x, y),
           \A y \in Live : ~Before(rk2, <<b, i>>, y)',
           ~Before(rk2, <<b, i>>, <<b, i>>)'
    PROVE  CountOK' /\ OrderOK(rk2)' /\ Kept' = Kept \cup {sent} /\ \A v \in Kept : v < sent
<1>1. TypeOK /\ CountOK /\ OrderOK(rk) /\ BlocksOK /\ sent \in Nat /\ blocking \in BOOLEAN
  BY DEF QueueOK, TypeOK
<1>2. producer'.pc = Enqueued /\ producer'.pc \notin Busy
      /\ producer'.pc \notin {"publish", "reuseTail", "link", "advance"}
  BY DEF Busy, Enqueued
<1>3. PICK new : new = <<b, i>>
  OBVIOUS
<1>4. CountOK'
  <2>1. /\ IsFiniteSet(Visible') /\ Cardinality(Visible') = Cardinality(Visible) + 1
        /\ Cardinality(Visible) \in Nat
    BY <1>1, FS_AddElement, FS_CardinalityType DEF CountOK
  <2>2. blocking => Tickets' = Tickets + 1
    <3>1. SUFFICES ASSUME blocking PROVE Tickets' = Tickets + 1
      OBVIOUS
    <3>2. producer'.pc = "signal" /\ producer.pc # "signal"
      BY <1>2, <3>1 DEF Enqueued, Busy
    <3>3. One(producer'.pc = "signal") = 1 /\ One(producer.pc = "signal") = 0
      BY <3>2 DEF One
    <3>4. Tickets = m_count + One(producer.pc = "signal") + One(waiter \in {"sleep", "got"})
                     + One(consumer.pc # "idle")
      BY DEF Tickets
    <3>5. Tickets' = m_count + One(producer'.pc = "signal") + One(waiter \in {"sleep", "got"})
                     + One(consumer.pc # "idle")
      BY DEF Tickets
    <3>6. One(waiter \in {"sleep", "got"}) \in Int /\ One(consumer.pc # "idle") \in Int /\ m_count \in Int
      BY <1>1 DEF One, TypeOK
    <3> QED BY <3>3, <3>4, <3>5, <3>6
  <2> QED BY <1>1, <2>1, <2>2 DEF CountOK
<1>5. new \notin Live /\ Live' = Live \cup {new} /\ new[1] = b /\ new[2] = i
  <2>1. \A x \in Visible : x[1] \in DOMAIN blocks
    BY DEF Visible
  <2>2. new \notin Visible /\ Visible' = Visible \cup {new} /\ new[1] = b /\ new[2] = i
    BY <1>3
  <2>3. Live' = {x \in Visible' : x[2] \notin Taken(x[1])'}
    BY DEF Live
  <2>4. \A x \in Visible' : Taken(x[1])' = Taken(x[1])
    BY <2>1, <2>2
  <2>5. new[2] \notin Taken(new[1])
    BY <2>2
  <2>6. Live' = {x \in Visible : x[2] \notin Taken(x[1])} \cup {new}
    BY <2>2, <2>3, <2>4, <2>5
  <2> QED BY <2>2, <2>6 DEF Live
<1>6. Value(new)' = sent
  BY <1>5 DEF Value
<1>7. \A x \in Live : /\ Value(x)' = Value(x) /\ Value(x) \in Nat /\ Older(Value(x))
                      /\ \A n \in DOMAIN received : received[n] < Value(x)
  <2>1. ASSUME NEW x \in Live PROVE Value(x)' = Value(x) /\ Value(x) \in Nat
    <3>1. x[1] \in DOMAIN blocks /\ x[2] \in Filled(blocks[x[1]])
      BY DEF Live, Visible
    <3>2. x[2] \in 0..blocks[x[1]].size - 1 /\ blocks[x[1]].data \in [0..blocks[x[1]].size - 1 -> Nat]
      BY <1>1, <3>1, BlockFacts DEF BlocksOK
    <3> QED BY <3>1, <3>2 DEF Value
  <2> QED BY <1>1, <2>1 DEF OrderOK, InOrder
<1>8. \A v : Older(v) => v < sent
  BY DEF Older
<1>9. \A n \in DOMAIN received : received[n] < sent /\ received[n] \in Nat
  <2>1. \A n \in DOMAIN received : Older(received[n]) /\ received[n] \in Nat
    BY <1>1 DEF OrderOK, TypeOK
  <2> QED BY <1>8, <2>1
<1>10. \A x \in Live : Value(x) < sent /\ Value(x)' = Value(x) /\ Value(x) \in Nat
  BY <1>7, <1>8
<1>11. \A x, y \in Live' : Before(rk2, x, y)' => Value(x)' < Value(y)'
  <2>1. SUFFICES ASSUME NEW x \in Live', NEW y \in Live', Before(rk2, x, y)' PROVE Value(x)' < Value(y)'
    OBVIOUS
  <2>2. x # new
    BY <1>3, <1>5, <2>1
  <2>3. x \in Live
    BY <1>5, <2>2
  <2>4. CASE y = new
    BY <1>6, <1>10, <2>3, <2>4
  <2>5. CASE y # new
    <3>1. y \in Live
      BY <1>5, <2>5
    <3>2. Value(x) < Value(y)
      BY <1>1, <2>1, <2>3, <3>1 DEF OrderOK, InOrder
    <3> QED BY <1>10, <2>3, <3>1, <3>2
  <2> QED BY <2>4, <2>5
<1>12. \A x \in Live' : Older(Value(x))' /\ \A n \in DOMAIN received : received[n] < Value(x)'
  <2>1. ASSUME NEW x \in Live' PROVE Value(x)' <= sent /\ \A n \in DOMAIN received : received[n] < Value(x)'
    <3>1. CASE x = new
      BY <1>1, <1>6, <1>9, <3>1
    <3>2. CASE x \in Live
      BY <1>1, <1>7, <1>10, <3>2
    <3> QED BY <1>5, <3>1, <3>2
  <2> QED BY <1>2, <2>1 DEF Older
<1>13. \A n \in DOMAIN received : Older(received[n])'
  BY <1>1, <1>2, <1>9 DEF Older
<1>14. OrderOK(rk2)'
  BY <1>1, <1>2, <1>11, <1>12, <1>13 DEF OrderOK, InOrder
<1>15. Kept' = Kept \cup {sent}
  <2>1. Kept' = {Value(x)' : x \in Live'}
    BY DEF Kept
  <2> QED BY <1>5, <1>6, <1>10, <2>1 DEF Kept
<1>16. \A v \in Kept : v < sent
  BY <1>10 DEF Kept
<1> QED BY <1>4, <1>14, <1>15, <1>16

\* The element in the tail block comes into sight.
LEMMA PublishOK ==
    ASSUME NEW rk, QueueOK(rk), Publish
    PROVE  QueueOK(rk)' /\ Kept' = Kept \cup {sent} /\ (\A v \in Kept : v < sent) /\ received' = received
<1>0. PICK b : b = tailBlock
  OBVIOUS
<1>00. PICK k : k = blocks[b]
  OBVIOUS
<1>1. /\ TypeOK /\ BlocksOK /\ SemaphoreOK /\ ProducerOK(rk) /\ RingOK(rk) /\ DataOK /\ CountOK /\ OrderOK(rk)
      /\ ConsumerOK /\ b \in DOMAIN blocks /\ frontBlock \in DOMAIN blocks
      /\ BlockOK(k) /\ k \in Block
  BY <1>0, <1>00 DEF QueueOK, TypeOK, BlocksOK, BlockOK
<1>2. producer.pc = "publish" /\ producer.block = b /\ HasRoom(k) /\ producer.pc \in Busy
  BY <1>0, <1>00, <1>1 DEF Publish, ProducerOK, Busy
<1>3. /\ UNCHANGED <<blocking, consumer, received, destroyed, frontBlock, tailBlock, largestBlockSize>>
      /\ UNCHANGED <<sent, m_count, m_sema, oldCount, waiter>>
      /\ producer' = [pc |-> Enqueued, block |-> 0]
      /\ blocks' = [blocks EXCEPT ![b].tail = After(b, blocks[b].tail)]
  BY <1>2 DEF Publish, ProducerStep, semaphoreVars
<1>4. /\ BlocksOK' /\ DOMAIN blocks' = DOMAIN blocks
      /\ blocks'[b] = [k EXCEPT !.tail = Succ(k.size, k.tail)]
      /\ \A c \in DOMAIN blocks : c # b => blocks'[c] = blocks[c]
      /\ Filled(blocks'[b]) = Filled(k) \cup {k.tail}
      /\ Gap(k.size, k.front, blocks'[b].tail) = Gap(k.size, k.front, k.tail) + 1
  BY <1>00, <1>1, <1>2, <1>3, SetTail
<1>5. /\ blocks'[b].front = k.front /\ blocks'[b].size = k.size /\ blocks'[b].next = k.next
      /\ blocks'[b].localFront = k.localFront /\ blocks'[b].localTail = k.localTail
      /\ blocks'[b].data = k.data
  BY <1>1, <1>4 DEF Block
<1>6. \A c \in DOMAIN blocks : /\ blocks'[c].front = blocks[c].front /\ blocks'[c].size = blocks[c].size
                               /\ blocks'[c].next = blocks[c].next /\ blocks'[c].data = blocks[c].data
                               /\ blocks'[c].localTail = blocks[c].localTail
  BY <1>00, <1>4, <1>5
<1>7. TypeOK' /\ SemaphoreOK' /\ ProducerOK(rk)' /\ ConsumerOK'
  <2>1. producer' \in [pc : Busy \cup {"idle", "signal", "post"}, block : Nat]
        /\ producer'.pc \in {"signal", "idle"} /\ (~blocking => producer'.pc = "idle")
    BY <1>3 DEF Enqueued
  <2>2. TypeOK'
    BY <1>1, <1>3, <1>4, <2>1 DEF TypeOK, Busy
  <2>3. SemaphoreOK'
    BY <1>1, <1>2, <1>3, <2>1 DEF SemaphoreOK
  <2>4. ProducerOK(rk)'
    BY <2>1 DEF ProducerOK
  <2>5. ConsumerOK'
    BY <1>0, <1>1, <1>3, <1>4, <1>6, ConsumerUndisturbed
  <2> QED BY <2>2, <2>3, <2>4, <2>5
<1>8. /\ k.size \in Nat /\ k.front \in 0..k.size - 1 /\ k.tail \in 0..k.size - 1 /\ k.tail \notin Filled(k)
      /\ Filled(k) \subseteq 0..k.size - 1 /\ k.tail \in Nat
  BY <1>1, BlockFacts
<1>9. ~IsEmpty(blocks'[b])
  <2>1. Gap(k.size, k.front, k.tail) \in Nat /\ Gap(k.size, k.front, k.front) = 0
    BY <1>8, GapFacts
  <2>2. blocks'[b].tail # k.front
    BY <1>4, <2>1
  <2> QED BY <1>5, <2>2 DEF IsEmpty
<1>10. RingOK(rk)'
  <2>1. Linked = DOMAIN blocks /\ Linked' = DOMAIN blocks
    BY <1>2, <1>3, <1>4 DEF Linked, Enqueued
  <2>2. Nexts' = Nexts
    BY <1>4, <1>6 DEF Nexts
  <2>3. rk[b] = 0 /\ frontBlock \in DOMAIN blocks /\ rk[frontBlock] \in Nat
    BY <1>0, <1>1, <2>1 DEF RingOK, Ranked
  <2>4. ~(rk[b] > rk[frontBlock])
    BY <2>3
  <2>5. producer.pc # "advance" /\ producer'.pc # "advance"
    BY <1>2, <1>3 DEF Enqueued
  <2>6. \A c \in DOMAIN blocks :
         /\ rk[c] < rk[frontBlock] => ~IsEmpty(blocks'[c])
         /\ rk[c] > rk[frontBlock] => IsEmpty(blocks'[c])
    BY <1>1, <1>4, <1>9, <2>1, <2>4, <2>5 DEF RingOK
  <2> QED BY <1>1, <1>3, <2>1, <2>2, <2>6 DEF RingOK
<1>11. /\ \A c \in DOMAIN blocks : Taken(c)' = Taken(c)
       /\ \A c \in DOMAIN blocks : Stored(c)' = {} /\ Stored(c) = IF c = b THEN {k.tail} ELSE {}
       /\ \A c \in DOMAIN blocks : ~Hidden(c)' /\ ~Hidden(c)
       /\ k.tail \notin Taken(b)
  <2>1. \A c \in DOMAIN blocks : Taken(c)' = Taken(c)
    BY <1>3, <1>6 DEF Taken
  <2>2. \A c \in DOMAIN blocks : Stored(c)' = {} /\ Stored(c) = IF c = b THEN {k.tail} ELSE {}
    BY <1>00, <1>2, <1>3 DEF Stored, Enqueued
  <2>3. \A c \in DOMAIN blocks : ~Hidden(c)' /\ ~Hidden(c)
    BY <1>2, <1>3 DEF Hidden, Enqueued
  <2>4. k.tail \notin Taken(b)
    <3>1. CASE consumer.pc = "release" /\ consumer.block = b
      <4>1. b = frontBlock /\ k.front \in Filled(k)
        BY <1>00, <3>1, ConsumerBlock
      <4> QED BY <1>00, <1>8, <3>1, <4>1 DEF Taken
    <3>2. CASE ~(consumer.pc = "release" /\ consumer.block = b)
      BY <3>2 DEF Taken
    <3> QED BY <3>1, <3>2
  <2> QED BY <2>1, <2>2, <2>3, <2>4
<1>12. DataOK'
  <2>1. ASSUME NEW c \in DOMAIN blocks, NEW i \in 0..blocks'[c].size - 1
        PROVE  blocks'[c].data[i] # Raw <=> i \in (Filled(blocks'[c]) \ Taken(c)') \cup Stored(c)'
    <3>1. blocks[c].data[i] # Raw <=> i \in (Filled(blocks[c]) \ Taken(c)) \cup Stored(c)
      BY <1>1, <1>6 DEF DataOK
    <3>2. (Filled(blocks'[c]) \ Taken(c)') \cup Stored(c)' = (Filled(blocks[c]) \ Taken(c)) \cup Stored(c)
      <4>1. CASE c = b
        BY <1>00, <1>4, <1>11, <4>1
      <4>2. CASE c # b
        BY <1>4, <1>11, <4>2
      <4> QED BY <4>1, <4>2
    <3> QED BY <1>6, <3>1, <3>2
  <2> QED BY <1>4, <2>1 DEF DataOK
<1>13. <<b, k.tail>> \notin Visible /\ Visible' = Visible \cup {<<b, k.tail>>}
  <2>1. Visible = {x \in (DOMAIN blocks) \X Index : x[2] \in Filled(blocks[x[1]])}
    BY <1>11 DEF Visible
  <2>2. Visible' = {x \in (DOMAIN blocks) \X Index : x[2] \in Filled(blocks'[x[1]])}
    BY <1>4, <1>11 DEF Visible, Index
  <2>3. <<b, k.tail>> \in (DOMAIN blocks) \X Index
    BY <1>1, <1>8 DEF Index
  <2>4. \A x \in (DOMAIN blocks) \X Index :
          x[2] \in Filled(blocks'[x[1]]) <=> x[2] \in Filled(blocks[x[1]]) \/ x = <<b, k.tail>>
    <3>1. ASSUME NEW c \in DOMAIN blocks, NEW i \in Index
          PROVE  i \in Filled(blocks'[c]) <=> i \in Filled(blocks[c]) \/ (c = b /\ i = k.tail)
      BY <1>00, <1>4
    <3> QED BY <3>1
  <2>5. k.tail \notin Filled(blocks[b])
    BY <1>00, <1>8
  <2> QED BY <2>1, <2>2, <2>3, <2>4, <2>5
<1>14. blocks'[b].data[k.tail] = sent
  BY <1>00, <1>1, <1>2, <1>5 DEF OrderOK, InOrder
<1>15. \A x, y \in Live : Before(rk, x, y)' => Before(rk, x, y)
  <2>1. \A x \in Live : x[1] \in DOMAIN blocks
    BY DEF Live, Visible
  <2> QED BY <1>6, <2>1 DEF Before
<1>16. /\ \A y \in Live : ~Before(rk, <<b, k.tail>>, y)'
       /\ ~Before(rk, <<b, k.tail>>, <<b, k.tail>>)'
  <2>1. rk[b] = 0 /\ \A c \in DOMAIN blocks : rk[c] \in Nat
    <3>1. Linked = DOMAIN blocks
      BY <1>2 DEF Linked
    <3> QED BY <1>0, <1>1, <3>1 DEF RingOK, Ranked
  <2>2. ASSUME NEW y \in Live PROVE ~Before(rk, <<b, k.tail>>, y)'
    <3>1. y[1] \in DOMAIN blocks /\ y[2] \in Filled(blocks[y[1]])
      BY DEF Live, Visible
    <3>2. ~(rk[b] > rk[y[1]])
      BY <2>1, <3>1
    <3>3. ASSUME y[1] = b PROVE ~(Gap(k.size, k.front, k.tail) < Gap(k.size, k.front, y[2]))
      <4>1. y[2] \in Filled(k)
        BY <1>00, <3>1, <3>3
      <4>2. Gap(k.size, k.front, y[2]) < Gap(k.size, k.front, k.tail) /\ y[2] \in 0..k.size - 1
        BY <4>1 DEF Filled, Slots
      <4>3. Gap(k.size, k.front, y[2]) \in Nat /\ Gap(k.size, k.front, k.tail) \in Nat
        BY <1>8, <4>2, GapFacts
      <4> QED BY <4>2, <4>3
    <3> QED BY <1>5, <3>2, <3>3 DEF Before
  <2>3. ~Before(rk, <<b, k.tail>>, <<b, k.tail>>)'
    <3>1. Gap(k.size, k.front, k.tail) \in Nat
      BY <1>8, GapFacts
    <3> QED BY <1>5, <2>1, <3>1 DEF Before
  <2> QED BY <2>2, <2>3
<1>17. CountOK' /\ OrderOK(rk)' /\ Kept' = Kept \cup {sent} /\ \A v \in Kept : v < sent
  <2>1. PICK i : i = k.tail
    OBVIOUS
  <2>2. /\ <<b, i>> \notin Visible /\ Visible' = Visible \cup {<<b, i>>} /\ i \notin Taken(b)
        /\ blocks'[b].data[i] = sent
        /\ \A c \in DOMAIN blocks : Taken(c)' = Taken(c) /\ blocks'[c].data = blocks[c].data
        /\ \A x, y \in Live : Before(rk, x, y)' => Before(rk, x, y)
        /\ \A y \in Live : ~Before(rk, <<b, i>>, y)'
        /\ ~Before(rk, <<b, i>>, <<b, i>>)'
    BY <1>6, <1>11, <1>13, <1>14, <1>15, <1>16, <2>1
  <2>3. /\ producer' = [pc |-> Enqueued, block |-> 0] /\ producer.pc \in Busy /\ b \in DOMAIN blocks
        /\ UNCHANGED <<blocking, consumer, received, sent, m_count, waiter>>
    BY <1>1, <1>2, <1>3
  <2> QED BY ONLY QueueOK(rk), <2>2, <2>3, Show
<1> QED BY <1>3, <1>4, <1>7, <1>10, <1>12, <1>17 DEF QueueOK

\* The tail block moves on to the block with the element: all ranks change.
LEMMA AdvanceOK ==
    ASSUME NEW rk, QueueOK(rk), Advance
    PROVE  /\ \E rk2 \in Rankings' : QueueOK(rk2)'
           /\ Kept' = Kept \cup {sent} /\ (\A v \in Kept : v < sent) /\ received' = received
<1>0. PICK b : b = producer.block
  OBVIOUS
<1>00. PICK k : k = blocks[b]
  OBVIOUS
<1>1. /\ TypeOK /\ BlocksOK /\ SemaphoreOK /\ ProducerOK(rk) /\ RingOK(rk) /\ DataOK /\ CountOK /\ OrderOK(rk)
      /\ ConsumerOK /\ tailBlock \in DOMAIN blocks /\ frontBlock \in DOMAIN blocks
  BY DEF QueueOK, TypeOK
<1>2. producer.pc = "advance" /\ producer.pc \in Busy
  BY DEF Advance, Busy
<1>3. /\ UNCHANGED <<blocking, consumer, received, destroyed, frontBlock, largestBlockSize>>
      /\ UNCHANGED <<sent, m_count, m_sema, oldCount, waiter>>
      /\ producer' = [pc |-> Enqueued, block |-> 0]
      /\ blocks' = blocks /\ tailBlock' = b
  BY <1>0 DEF Advance, ProducerStep, semaphoreVars
<1>4. /\ b \in DOMAIN blocks /\ b # frontBlock /\ b # tailBlock /\ b = blocks[tailBlock].next
      /\ b \in Linked /\ rk[b] > rk[frontBlock]
  BY <1>0, <1>2, ProducerBlock
<1>5. /\ BlockOK(k) /\ Gap(k.size, k.front, k.tail) = 1 /\ k.data[k.front] = sent
  BY <1>0, <1>00, <1>1, <1>2, <1>4 DEF BlocksOK, ProducerOK, OrderOK
<1>6. /\ k.size \in Nat /\ k.front \in 0..k.size - 1 /\ k.tail \in 0..k.size - 1 /\ k.front \in Nat
  BY <1>5, BlockFacts
<1>7. Filled(k) = {k.front} /\ ~IsEmpty(k)
  <2>1. \A i \in 0..k.size - 1 : /\ Gap(k.size, k.front, i) \in Nat
                                 /\ (Gap(k.size, k.front, i) = 0 <=> i = k.front)
    BY <1>6, GapFacts
  <2>2. \A i \in 0..k.size - 1 : Gap(k.size, k.front, i) < 1 <=> i = k.front
    BY <2>1
  <2>3. Filled(k) = {i \in 0..k.size - 1 : Gap(k.size, k.front, i) < 1}
    BY <1>5 DEF Filled, Slots
  <2> QED BY <1>5, <1>6, <2>1, <2>2, <2>3 DEF IsEmpty
<1>8. TypeOK' /\ SemaphoreOK' /\ ConsumerOK' /\ BlocksOK'
  <2>1. producer' \in [pc : Busy \cup {"idle", "signal", "post"}, block : Nat]
        /\ producer'.pc \in {"signal", "idle"} /\ (~blocking => producer'.pc = "idle")
    BY <1>3 DEF Enqueued
  <2>2. TypeOK'
    BY <1>1, <1>3, <1>4, <2>1 DEF TypeOK, Busy
  <2>3. SemaphoreOK'
    BY <1>1, <1>2, <1>3, <2>1 DEF SemaphoreOK
  <2>4. ConsumerOK'
    BY <1>3, <1>4, ConsumerUndisturbed
  <2> QED BY <1>1, <1>3, <2>2, <2>3, <2>4 DEF BlocksOK
<1>9. Linked = DOMAIN blocks /\ Linked' = DOMAIN blocks /\ Nexts' = Nexts /\ Nexts[tailBlock] = b
  BY <1>1, <1>2, <1>3, <1>4 DEF Linked, Enqueued, Nexts
<1>10. PICK rk2 : rk2 = [c \in DOMAIN blocks |-> IF c = b THEN 0 ELSE rk[c] + 1]
  OBVIOUS
<1>11. /\ Ranked(rk2, DOMAIN blocks, Nexts, b)
       /\ \A c \in DOMAIN blocks : rk[c] \in Nat /\ rk2[c] = IF c = b THEN 0 ELSE rk[c] + 1
  <2>1. PICK nx, tb, B : nx = Nexts /\ tb = tailBlock /\ B = DOMAIN blocks
    OBVIOUS
  <2>2. Ranked(rk, B, nx, tb) /\ b = nx[tb] /\ b # tb /\ rk2 = [c \in B |-> IF c = b THEN 0 ELSE rk[c] + 1]
    BY <1>1, <1>4, <1>9, <1>10, <2>1 DEF RingOK
  <2>3. /\ Ranked(rk2, B, nx, b)
        /\ \A c \in B : rk[c] \in Nat /\ rk2[c] = IF c = b THEN 0 ELSE rk[c] + 1
    BY ONLY <2>2, RankAdvance
  <2> QED BY <2>1, <2>3
<1>12. rk2[frontBlock] = rk[frontBlock] + 1 /\ rk[frontBlock] \in Nat
  BY <1>1, <1>4, <1>11
<1>13. RingOK(rk2)'
  <2>1. ASSUME NEW c \in DOMAIN blocks
        PROVE  /\ rk2[c] < rk2[frontBlock] => ~IsEmpty(blocks[c])
               /\ rk2[c] > rk2[frontBlock] => IsEmpty(blocks[c])
    <3>1. CASE c = b
      <4>1. ~(rk2[c] > rk2[frontBlock])
        BY <1>11, <1>12, <3>1
      <4> QED BY <1>00, <1>7, <3>1, <4>1
    <3>2. CASE c # b
      <4>1. rk2[c] = rk[c] + 1 /\ rk[c] \in Nat
        BY <1>11, <3>2
      <4>2. /\ rk2[c] < rk2[frontBlock] => rk[c] < rk[frontBlock]
            /\ rk2[c] > rk2[frontBlock] => rk[c] > rk[frontBlock]
        BY <1>12, <4>1
      <4>3. /\ rk[c] < rk[frontBlock] => ~IsEmpty(blocks[c])
            /\ rk[c] > rk[frontBlock] => IsEmpty(blocks[c])
        BY <1>0, <1>1, <1>9, <3>2 DEF RingOK
      <4> QED BY <4>2, <4>3
    <3> QED BY <3>1, <3>2
  <2> QED BY <1>1, <1>3, <1>9, <1>11, <2>1 DEF RingOK
<1>14. ProducerOK(rk2)'
  BY <1>3 DEF ProducerOK, Enqueued
<1>15. /\ \A c \in DOMAIN blocks : /\ Taken(c)' = Taken(c) /\ Stored(c)' = Stored(c)
                                   /\ ~Hidden(c)' /\ (Hidden(c) <=> c = b)
       /\ Taken(b) = {}
  <2>1. consumer.pc = "release" => consumer.block = frontBlock
    BY <1>1 DEF ConsumerOK
  <2>2. \A c \in DOMAIN blocks : Taken(c)' = Taken(c)
    BY <1>3 DEF Taken
  <2>3. \A c \in DOMAIN blocks : Stored(c)' = Stored(c)
    BY <1>2, <1>3 DEF Stored, Enqueued
  <2>4. \A c \in DOMAIN blocks : ~Hidden(c)' /\ (Hidden(c) <=> c = b)
    BY <1>0, <1>2, <1>3 DEF Hidden, Enqueued
  <2> QED BY <1>4, <2>1, <2>2, <2>3, <2>4 DEF Taken
<1>16. DataOK'
  BY <1>1, <1>3, <1>15 DEF DataOK
<1>17. <<b, k.front>> \notin Visible /\ Visible' = Visible \cup {<<b, k.front>>}
  <2>1. Visible = {x \in (DOMAIN blocks) \X Index : x[2] \in Filled(blocks[x[1]]) /\ x[1] # b}
    BY <1>15 DEF Visible
  <2>2. Visible' = {x \in (DOMAIN blocks) \X Index : x[2] \in Filled(blocks[x[1]])}
    BY <1>3, <1>15 DEF Visible, Index
  <2>3. <<b, k.front>> \in (DOMAIN blocks) \X Index
    BY <1>4, <1>6 DEF Index
  <2>4. \A x \in (DOMAIN blocks) \X Index :
          x[2] \in Filled(blocks[x[1]]) <=> (x[2] \in Filled(blocks[x[1]]) /\ x[1] # b) \/ x = <<b, k.front>>
    <3>1. ASSUME NEW c \in DOMAIN blocks, NEW i \in Index
          PROVE  i \in Filled(blocks[c]) <=> (i \in Filled(blocks[c]) /\ c # b) \/ (c = b /\ i = k.front)
      BY <1>00, <1>7
    <3> QED BY <3>1
  <2> QED BY <2>1, <2>2, <2>3, <2>4
<1>18. \A x \in Live : x[1] \in DOMAIN blocks /\ x[1] # b
  BY <1>15 DEF Live, Visible
<1>19. \A x, y \in Live : Before(rk2, x, y)' => Before(rk, x, y)
  <2>1. SUFFICES ASSUME NEW x \in Live, NEW y \in Live, Before(rk2, x, y)' PROVE Before(rk, x, y)
    OBVIOUS
  <2>2. /\ rk2[x[1]] = rk[x[1]] + 1 /\ rk2[y[1]] = rk[y[1]] + 1 /\ rk[x[1]] \in Nat /\ rk[y[1]] \in Nat
    BY <1>11, <1>18
  <2>3. rk2[x[1]] > rk2[y[1]] => rk[x[1]] > rk[y[1]]
    BY <2>2
  <2> QED BY <1>3, <2>1, <2>3 DEF Before
<1>20. /\ \A y \in Live : ~Before(rk2, <<b, k.front>>, y)'
       /\ ~Before(rk2, <<b, k.front>>, <<b, k.front>>)'
  <2>1. rk2[b] = 0 /\ \A c \in DOMAIN blocks : rk2[c] \in Nat
    BY <1>4, <1>11
  <2>2. ASSUME NEW y \in Live PROVE ~Before(rk2, <<b, k.front>>, y)'
    <3>1. ~(rk2[b] > rk2[y[1]]) /\ y[1] # b
      BY <1>18, <2>1
    <3> QED BY <3>1 DEF Before
  <2>3. ~Before(rk2, <<b, k.front>>, <<b, k.front>>)'
    <3>1. Gap(k.size, k.front, k.front) = 0
      BY <1>6, GapFacts
    <3> QED BY <1>00, <1>3, <2>1, <3>1 DEF Before
  <2> QED BY <2>2, <2>3
<1>21. CountOK' /\ OrderOK(rk2)' /\ Kept' = Kept \cup {sent} /\ \A v \in Kept : v < sent
  <2>1. PICK i : i = k.front
    OBVIOUS
  <2>2. /\ <<b, i>> \notin Visible /\ Visible' = Visible \cup {<<b, i>>} /\ i \notin Taken(b)
        /\ blocks'[b].data[i] = sent
        /\ \A c \in DOMAIN blocks : Taken(c)' = Taken(c) /\ blocks'[c].data = blocks[c].data
        /\ \A x, y \in Live : Before(rk2, x, y)' => Before(rk, x, y)
        /\ \A y \in Live : ~Before(rk2, <<b, i>>, y)'
        /\ ~Before(rk2, <<b, i>>, <<b, i>>)'
    BY <1>00, <1>3, <1>5, <1>15, <1>17, <1>19, <1>20, <2>1
  <2>3. /\ producer' = [pc |-> Enqueued, block |-> 0] /\ producer.pc \in Busy /\ b \in DOMAIN blocks
        /\ UNCHANGED <<blocking, consumer, received, sent, m_count, waiter>>
    BY <1>2, <1>3, <1>4
  <2> QED BY ONLY QueueOK(rk), <2>2, <2>3, Show
<1>22. QueueOK(rk2)'
  BY <1>8, <1>13, <1>14, <1>16, <1>21 DEF QueueOK
<1>23. rk2 \in Rankings'
  BY <1>9, <1>11 DEF Ranked, Rankings
<1> QED BY <1>3, <1>21, <1>22, <1>23

-----------------------------------------------------------------------------
(***************************************************************************)
(* An element is taken: Move and Release.                                  *)
(***************************************************************************)
\* The element at the front of the consumer's block is the oldest.
LEMMA Oldest ==
    ASSUME NEW rk, QueueOK(rk), consumer.pc = "move", NEW x, x = <<frontBlock, blocks[frontBlock].front>>
    PROVE  x \in Live /\ \A y \in Live : y # x => Before(rk, x, y)
<1>0. PICK k : k = blocks[frontBlock]
  OBVIOUS
<1>1. TypeOK /\ BlocksOK /\ RingOK(rk) /\ frontBlock \in DOMAIN blocks /\ BlockOK(k)
  BY <1>0 DEF QueueOK, TypeOK, BlocksOK
<1>2. k.front \in Filled(k) /\ k.front \in Nat /\ k.front \in 0..k.size - 1 /\ k.size \in Nat
  BY <1>0, <1>1, ConsumerBlock, BlockFacts
<1>3. ~Hidden(frontBlock) /\ Taken(frontBlock) = {}
  BY ProducerBlock DEF Hidden, Taken
<1>4. x \in Live
  BY <1>0, <1>1, <1>2, <1>3 DEF Live, Visible, Index
<1>5. ASSUME NEW y \in Live, y # x PROVE Before(rk, x, y)
  <2>1. /\ y \in (DOMAIN blocks) \X Index /\ y[1] \in DOMAIN blocks
        /\ y[2] \in Filled(blocks[y[1]]) /\ ~Hidden(y[1])
    BY DEF Live, Visible
  <2>2. CASE y[1] = frontBlock
    <3>1. y[2] # k.front
      BY <1>0, <1>5, <2>1, <2>2
    <3>2. y[2] \in 0..k.size - 1
      BY <1>0, <1>1, <2>1, <2>2, BlockFacts
    <3>3. /\ Gap(k.size, k.front, k.front) = 0
          /\ Gap(k.size, k.front, y[2]) \in Nat /\ Gap(k.size, k.front, y[2]) # 0
      BY <1>2, <3>1, <3>2, GapFacts
    <3>4. Gap(k.size, k.front, k.front) < Gap(k.size, k.front, y[2])
      BY <3>3
    <3>5. x[1] = frontBlock /\ x[2] = k.front
      BY <1>0
    <3> QED BY <1>0, <2>2, <3>4, <3>5 DEF Before
  <2>3. CASE y[1] # frontBlock
    <3>1. y[1] \in Linked /\ frontBlock \in Linked
      BY <1>1, <2>1 DEF Linked, Hidden, RingOK
    <3>2. ~IsEmpty(blocks[y[1]])
      BY <1>1, <2>1, BlockFacts DEF BlocksOK
    <3>3. ~(rk[y[1]] > rk[frontBlock])
      BY <1>1, <2>1, <3>1, <3>2 DEF RingOK, Hidden
    <3>4. rk[y[1]] \in Nat /\ rk[frontBlock] \in Nat /\ rk[y[1]] # rk[frontBlock]
      BY <1>1, <2>3, <3>1 DEF RingOK, Ranked
    <3>5. rk[frontBlock] > rk[y[1]]
      BY <3>3, <3>4
    <3> QED BY <3>5 DEF Before
  <2> QED BY <2>2, <2>3
<1> QED BY <1>4, <1>5

\* The consumer takes the oldest item.
LEMMA MoveOK ==
    ASSUME NEW rk, QueueOK(rk), Move
    PROVE  /\ QueueOK(rk)'
           /\ \E v \in Kept : /\ \A w \in Kept : v <= w
                              /\ Kept' = Kept \ {v}
                              /\ received' = Append(received, v)
<1>0. PICK b, k, f, x : b = frontBlock /\ k = blocks[b] /\ f = k.front /\ x = <<b, f>>
  OBVIOUS
<1>00. PICK v : v = k.data[f]
  OBVIOUS
<1>1. /\ TypeOK /\ BlocksOK /\ SemaphoreOK /\ ProducerOK(rk) /\ RingOK(rk) /\ DataOK /\ CountOK /\ OrderOK(rk)
      /\ ConsumerOK /\ tailBlock \in DOMAIN blocks /\ b \in DOMAIN blocks /\ BlockOK(k) /\ k \in Block
  BY <1>0 DEF QueueOK, TypeOK, BlocksOK, BlockOK
<1>2. /\ consumer.pc = "move" /\ consumer.block = b /\ consumer.front = f /\ HasElement(k) /\ f \in Filled(k)
  BY <1>0, ConsumerBlock DEF Move
<1>3. /\ received' = Append(received, v)
      /\ blocks' = [blocks EXCEPT ![b].data[f] = Raw]
      /\ consumer' = [pc |-> "release", block |-> b, front |-> f]
      /\ UNCHANGED <<blocking, producer, sent, destroyed, frontBlock, tailBlock, largestBlockSize>>
      /\ UNCHANGED <<m_count, m_sema, oldCount, waiter>>
  BY <1>0, <1>00, <1>2 DEF Move, ConsumerStep, semaphoreVars
<1>4. /\ f \in 0..k.size - 1 /\ f \in Nat /\ k.tail \notin Filled(k) /\ k.tail # f
      /\ k.data \in [0..k.size - 1 -> Nat] /\ Filled(k) \subseteq 0..k.size - 1 /\ b \in Nat /\ v \in Nat
      /\ k.tail \in 0..k.size - 1
  <2>1. /\ k.front \in 0..k.size - 1 /\ k.front \in Nat /\ k.tail \notin Filled(k) /\ k.tail \in 0..k.size - 1
        /\ k.data \in [0..k.size - 1 -> Nat] /\ Filled(k) \subseteq 0..k.size - 1
    BY <1>1, BlockFacts
  <2>2. b \in Nat
    BY <1>1 DEF BlocksOK
  <2> QED BY <1>0, <1>00, <1>2, <2>1, <2>2
<1>5. /\ BlocksOK' /\ DOMAIN blocks' = DOMAIN blocks
      /\ blocks'[b] = [k EXCEPT !.data = [k.data EXCEPT ![f] = Raw]]
      /\ \A c \in DOMAIN blocks : c # b => blocks'[c] = blocks[c]
  <2>1. f \in 0..blocks[b].size - 1 /\ Raw \in Nat
    BY <1>0, <1>4 DEF Raw
  <2> QED BY <1>0, <1>1, <1>3, <2>1, SetData
<1>6. /\ blocks'[b].front = k.front /\ blocks'[b].tail = k.tail
      /\ blocks'[b].size = k.size /\ blocks'[b].next = k.next
      /\ blocks'[b].localFront = k.localFront /\ blocks'[b].localTail = k.localTail
      /\ blocks'[b].data = [k.data EXCEPT ![f] = Raw]
  BY <1>1, <1>5 DEF Block
<1>7. /\ SameRings
      /\ \A c \in DOMAIN blocks : /\ blocks'[c].localTail = blocks[c].localTail
                                  /\ blocks'[c].localFront = blocks[c].localFront
  BY <1>0, <1>5, <1>6 DEF SameRings
<1>8. SameHidden /\ SameStored
  BY <1>3, <1>7 DEF SameHidden, SameStored, Hidden, Stored, SameRings
<1>9. Visible' = Visible /\ \A c \in DOMAIN blocks : Filled(blocks'[c]) = Filled(blocks[c])
  BY <1>7, <1>8, SameVisible
<1>10. \A c \in DOMAIN blocks : Taken(c) = {} /\ Taken(c)' = IF c = b THEN {f} ELSE {}
  BY <1>0, <1>2, <1>3, <1>6 DEF Taken
<1>11. \A c \in DOMAIN blocks : \A i \in 0..blocks[c].size - 1 :
         blocks'[c].data[i] = IF c = b /\ i = f THEN Raw ELSE blocks[c].data[i]
  <2>1. \A i \in 0..k.size - 1 : blocks'[b].data[i] = IF i = f THEN Raw ELSE k.data[i]
    BY <1>4, <1>6
  <2>2. ASSUME NEW c \in DOMAIN blocks, NEW i \in 0..blocks[c].size - 1
        PROVE  blocks'[c].data[i] = IF c = b /\ i = f THEN Raw ELSE blocks[c].data[i]
    <3>1. CASE c = b
      BY <1>0, <2>1, <3>1
    <3>2. CASE c # b
      BY <1>5, <3>2
    <3> QED BY <3>1, <3>2
  <2> QED BY <2>2
<1>12. f \notin Stored(b)
  BY <1>0, <1>4 DEF Stored
<1>13. DataOK'
  <2>1. ASSUME NEW c \in DOMAIN blocks, NEW i \in 0..blocks'[c].size - 1
        PROVE  blocks'[c].data[i] # Raw <=> i \in (Filled(blocks'[c]) \ Taken(c)') \cup Stored(c)'
    <3>1. i \in 0..blocks[c].size - 1 /\ Filled(blocks'[c]) = Filled(blocks[c]) /\ Stored(c)' = Stored(c)
      BY <1>7, <1>8, <1>9 DEF SameRings, SameStored
    <3>2. blocks[c].data[i] # Raw <=> i \in Filled(blocks[c]) \cup Stored(c)
      BY <1>1, <1>10, <3>1 DEF DataOK
    <3>3. CASE c = b /\ i = f
      BY <1>10, <1>11, <1>12, <3>1, <3>3
    <3>4. CASE ~(c = b /\ i = f)
      BY <1>10, <1>11, <3>1, <3>2, <3>4
    <3> QED BY <3>3, <3>4
  <2> QED BY <1>5, <2>1 DEF DataOK
<1>14. x \in Live /\ \A y \in Live : y # x => Before(rk, x, y)
  BY <1>0, <1>2, Oldest
<1>15. Live' = Live \ {x}
  <2>1. Live = Visible
    BY <1>10 DEF Live, Visible
  <2>2. Live' = {y \in Visible : y[2] \notin Taken(y[1])'}
    BY <1>9 DEF Live
  <2>3. \A y \in Visible : y[2] \in Taken(y[1])' <=> y = x
    <3>1. ASSUME NEW y \in Visible PROVE y[2] \in Taken(y[1])' <=> y = x
      <4>1. y \in (DOMAIN blocks) \X Index /\ y[1] \in DOMAIN blocks /\ y = <<y[1], y[2]>>
        BY DEF Visible
      <4>2. Taken(y[1])' = IF y[1] = b THEN {f} ELSE {}
        BY <1>10, <4>1
      <4> QED BY <1>0, <4>1, <4>2
    <3> QED BY <3>1
  <2> QED BY <2>1, <2>2, <2>3
<1>16. \A y \in Live : Value(y) \in Nat
  <2>1. ASSUME NEW y \in Live PROVE Value(y) \in Nat
    <3>1. y[1] \in DOMAIN blocks /\ y[2] \in Filled(blocks[y[1]])
      BY DEF Live, Visible
    <3> QED BY <1>1, <3>1, BlockFacts DEF Value, BlocksOK
  <2> QED BY <2>1
<1>17. \A y \in Live' : Value(y)' = Value(y)
  <2>1. ASSUME NEW y \in Live' PROVE Value(y)' = Value(y)
    <3>1. y \in (DOMAIN blocks) \X Index /\ y[1] \in DOMAIN blocks /\ y[2] \in Filled(blocks[y[1]]) /\ y # x
      BY <1>15 DEF Live, Visible
    <3>2. y[2] \in 0..blocks[y[1]].size - 1
      BY <1>1, <3>1, BlockFacts DEF BlocksOK
    <3>3. ~(y[1] = b /\ y[2] = f)
      BY <1>0, <3>1
    <3> QED BY <1>11, <3>1, <3>2, <3>3 DEF Value
  <2> QED BY <2>1
<1>18. Value(x) = v /\ \A y \in Live' : v < Value(y)
  <2>1. Value(x) = v
    BY <1>0, <1>00 DEF Value
  <2>2. ASSUME NEW y \in Live' PROVE v < Value(y)
    <3>1. y \in Live /\ y # x
      BY <1>15
    <3>2. Value(x) < Value(y)
      BY <1>1, <1>14, <3>1 DEF OrderOK, InOrder
    <3> QED BY <2>1, <3>2
  <2> QED BY <2>1, <2>2
<1>19. /\ v \in Kept /\ Kept' = Kept \ {v} /\ \A w \in Kept : v <= w
  <2>1. Kept = {Value(y) : y \in Live} /\ Kept' = {Value(y)' : y \in Live'}
    BY DEF Kept
  <2>2. Kept' = {Value(y) : y \in Live'}
    BY <1>17, <2>1
  <2>3. \A y \in Live : y = x \/ y \in Live'
    BY <1>15
  <2>4. \A y \in Live' : Value(y) # v /\ Value(y) \in Nat /\ y \in Live
    BY <1>4, <1>15, <1>16, <1>18
  <2>5. v \in Kept
    BY <1>14, <1>18, <2>1
  <2>6. \A w \in Kept : v <= w
    <3>1. \A y \in Live : v <= Value(y)
      BY <1>4, <1>16, <1>18, <2>3, <2>4
    <3> QED BY <2>1, <3>1
  <2>7. Kept' = Kept \ {v}
    BY <1>18, <2>1, <2>2, <2>3, <2>4
  <2> QED BY <2>5, <2>6, <2>7
<1>20. PICK N \in Nat : /\ N = Len(received) /\ DOMAIN received = 1..N /\ received' \in Seq(Nat)
                        /\ DOMAIN received' = 1..N + 1 /\ received'[N + 1] = v
                        /\ \A n \in 1..N : received'[n] = received[n] /\ received[n] \in Nat
  <2>1. received \in Seq(Nat)
    BY <1>1 DEF TypeOK
  <2>2. PICK N \in Nat : N = Len(received) /\ DOMAIN received = 1..N
    BY <2>1
  <2>3. received' \in Seq(Nat) /\ DOMAIN received' = 1..N + 1 /\ received'[N + 1] = v
    BY <1>3, <1>4, <2>1, <2>2
  <2>4. \A n \in 1..N : received'[n] = received[n] /\ received[n] \in Nat
    BY <1>3, <1>4, <2>1, <2>2
  <2> QED BY <2>2, <2>3, <2>4
<1>21. OrderOK(rk)'
  <2>1. \A y, z \in Live' : Before(rk, y, z)' => Value(y)' < Value(z)'
    <3>1. \A y \in Live' : y \in Live /\ y[1] \in DOMAIN blocks
      BY <1>15 DEF Live, Visible
    <3>2. \A y, z \in Live' : Before(rk, y, z)' => Before(rk, y, z)
      BY <1>7, <3>1 DEF Before, SameRings
    <3> QED BY <1>1, <1>17, <3>1, <3>2 DEF OrderOK, InOrder
  <2>2. \A n \in 1..N : received[n] < v /\ Older(received[n]) /\ received[n] \in Nat
    BY <1>1, <1>14, <1>18, <1>20 DEF OrderOK, InOrder
  <2>3. \A w : Older(w)' <=> Older(w)
    BY <1>3 DEF Older
  <2>4. \A y \in Live' : Older(Value(y))' /\ \A n \in DOMAIN received' : received'[n] < Value(y)'
    <3>1. ASSUME NEW y \in Live' PROVE Older(Value(y)) /\ \A n \in 1..N + 1 : received'[n] < Value(y)
      <4>1. y \in Live /\ v < Value(y) /\ Value(y) \in Nat
        BY <1>15, <1>16, <1>18
      <4>2. Older(Value(y))
        BY <1>1, <4>1 DEF OrderOK, InOrder
      <4>3. \A n \in 1..N : received'[n] < Value(y)
        BY <1>4, <1>20, <2>2, <4>1
      <4>4. \A n \in 1..N + 1 : n \in 1..N \/ n = N + 1
        OBVIOUS
      <4> QED BY <1>20, <4>1, <4>2, <4>3, <4>4
    <3>2. \A y \in Live' : Older(Value(y))' <=> Older(Value(y))
      BY <1>3, <1>17 DEF Older
    <3> QED BY <1>17, <1>20, <3>1, <3>2
  <2>5. \A n \in DOMAIN received' : Older(received[n])'
    <3>1. Older(v)
      BY <1>1, <1>14, <1>18 DEF OrderOK, InOrder
    <3>2. ASSUME NEW n \in 1..N + 1 PROVE Older(received'[n])
      <4>1. n \in 1..N \/ n = N + 1
        OBVIOUS
      <4> QED BY <1>20, <2>2, <3>1, <4>1
    <3> QED BY <1>3, <1>20, <3>2 DEF Older
  <2>6. \A n, m \in DOMAIN received' : n < m => received'[n] < received'[m]
    <3>1. ASSUME NEW n \in 1..N + 1, NEW m \in 1..N + 1, n < m PROVE received'[n] < received'[m]
      <4>1. CASE m \in 1..N
        <5>1. n \in 1..N
          BY <3>1, <4>1
        <5> QED BY <1>1, <1>20, <3>1, <4>1, <5>1 DEF OrderOK, InOrder
      <4>2. CASE m = N + 1
        <5>1. n \in 1..N
          BY <3>1, <4>2
        <5> QED BY <1>20, <2>2, <4>2, <5>1
      <4> QED BY <4>1, <4>2
    <3> QED BY <1>20, <3>1
  <2>7. AtHand'
    <3>1. CASE producer.pc \in {"publish", "reuseTail"}
      <4>1. PICK c : c = producer.block
        OBVIOUS
      <4>2. c \in DOMAIN blocks
        BY <1>1, <3>1, <4>1, ProducerBlock DEF ProducerOK
      <4>3. blocks[c].tail \in 0..blocks[c].size - 1 /\ blocks'[c].tail = blocks[c].tail
        BY <1>1, <1>7, <4>2, BlockFacts DEF BlocksOK, SameRings
      <4>4. blocks'[c].data[blocks[c].tail] = blocks[c].data[blocks[c].tail]
        BY <1>0, <1>4, <1>11, <4>2, <4>3
      <4> QED BY <1>1, <1>3, <3>1, <4>1, <4>3, <4>4 DEF AtHand, OrderOK
    <3>2. CASE producer.pc \in {"link", "advance"}
      <4>1. producer.block # b /\ producer.block \in DOMAIN blocks
        BY <1>0, <3>2, ProducerBlock
      <4> QED BY <1>1, <1>3, <1>5, <3>2, <4>1 DEF AtHand, OrderOK
    <3>3. CASE producer.pc \notin {"publish", "reuseTail", "link", "advance"}
      BY <1>3, <3>3 DEF AtHand
    <3> QED BY <3>1, <3>2, <3>3
  <2> QED BY <2>1, <2>4, <2>5, <2>6, <2>7 DEF OrderOK, AtHand, InOrder
<1>22. CountOK'
  <2>1. Tickets' = Tickets
    BY <1>2, <1>3 DEF Tickets, One
  <2> QED BY <1>1, <1>3, <1>9, <2>1 DEF CountOK
<1>23. RingOK(rk)'
  <2>1. Linked' = Linked /\ Linked \subseteq DOMAIN blocks
    BY <1>3, <1>5 DEF Linked
  <2> QED BY <1>1, <1>3, <1>7, <2>1, SameRingOK
<1>24. ProducerOK(rk)'
  <2>1. producer.pc \in Busy => producer.block \in DOMAIN blocks
    BY <1>1 DEF ProducerOK, BlocksOK, Busy
  <2>2. \A c \in DOMAIN blocks : HasRoom(blocks'[c]) <=> HasRoom(blocks[c])
    BY <1>7 DEF SameRings, HasRoom
  <2> QED BY <1>1, <1>3, <1>5, <1>7, <2>1, <2>2 DEF ProducerOK, SameRings, Busy
<1>25. TypeOK' /\ SemaphoreOK'
  <2>1. consumer' \in [pc : {"idle", "empty", "recheck", "next", "hop", "move", "release"},
                       block : Nat, front : Nat]
    BY <1>3, <1>4
  <2>2. TypeOK'
    BY <1>1, <1>3, <1>5, <1>20, <2>1 DEF TypeOK
  <2>3. SemaphoreOK'
    BY <1>1, <1>2, <1>3 DEF SemaphoreOK
  <2> QED BY <2>2, <2>3
<1>26. ConsumerOK'
  BY <1>0, <1>2, <1>3, <1>6 DEF ConsumerOK, HasElement
<1>27. QueueOK(rk)'
  BY <1>5, <1>13, <1>21, <1>22, <1>23, <1>24, <1>25, <1>26 DEF QueueOK
<1> QED BY <1>3, <1>19, <1>27

\* The consumer lets the producer have the slot, and its ticket is used up.
LEMMA ReleaseOK ==
    ASSUME NEW rk, QueueOK(rk), Release
    PROVE  QueueOK(rk)' /\ Kept' = Kept /\ received' = received
<1>0. PICK b, k, f : b = frontBlock /\ k = blocks[b] /\ f = k.front
  OBVIOUS
<1>1. /\ TypeOK /\ BlocksOK /\ SemaphoreOK /\ ProducerOK(rk) /\ RingOK(rk) /\ DataOK /\ CountOK /\ OrderOK(rk)
      /\ ConsumerOK /\ tailBlock \in DOMAIN blocks /\ b \in DOMAIN blocks /\ BlockOK(k) /\ k \in Block
  BY <1>0 DEF QueueOK, TypeOK, BlocksOK, BlockOK
<1>2. /\ consumer.pc = "release" /\ consumer.block = b /\ consumer.front = f
      /\ HasElement(k) /\ f \in Filled(k)
  BY <1>0, ConsumerBlock DEF Release
<1>3. /\ received' = received
      /\ blocks' = [blocks EXCEPT ![b].front = After(b, blocks[b].front)]
      /\ consumer' = [pc |-> "idle", block |-> 0, front |-> 0]
      /\ UNCHANGED <<blocking, producer, sent, destroyed, frontBlock, tailBlock, largestBlockSize>>
      /\ UNCHANGED <<m_count, m_sema, oldCount, waiter>>
  BY <1>0, <1>2 DEF Release, ConsumerStep, semaphoreVars
<1>4. /\ BlocksOK' /\ DOMAIN blocks' = DOMAIN blocks
      /\ blocks'[b] = [k EXCEPT !.front = Succ(k.size, k.front)]
      /\ \A c \in DOMAIN blocks : c # b => blocks'[c] = blocks[c]
      /\ Filled(blocks'[b]) = Filled(k) \ {f}
      /\ \A i \in Filled(blocks'[b]) : Gap(k.size, blocks'[b].front, i) = Gap(k.size, k.front, i) - 1
  BY <1>0, <1>1, <1>2, <1>3, SetFront
<1>5. /\ blocks'[b].tail = k.tail /\ blocks'[b].size = k.size /\ blocks'[b].next = k.next
      /\ blocks'[b].localFront = k.localFront /\ blocks'[b].localTail = k.localTail
      /\ blocks'[b].data = k.data
  BY <1>1, <1>4 DEF Block
<1>6. \A c \in DOMAIN blocks : /\ blocks'[c].tail = blocks[c].tail /\ blocks'[c].size = blocks[c].size
                               /\ blocks'[c].next = blocks[c].next /\ blocks'[c].data = blocks[c].data
                               /\ blocks'[c].localFront = blocks[c].localFront
  BY <1>0, <1>4, <1>5
<1>7. /\ k.size \in Nat /\ Filled(k) \subseteq 0..k.size - 1 /\ f \in 0..k.size - 1 /\ f \in Nat /\ k.tail # f
  BY <1>0, <1>1, <1>2, BlockFacts
<1>8. /\ \A c \in DOMAIN blocks : Stored(c)' = Stored(c) /\ (Hidden(c)' <=> Hidden(c))
      /\ \A c \in DOMAIN blocks : Taken(c)' = {} /\ Taken(c) = IF c = b THEN {f} ELSE {}
      /\ f \notin Stored(b) /\ ~Hidden(b)
  <2>1. \A c \in DOMAIN blocks : Stored(c)' = Stored(c) /\ (Hidden(c)' <=> Hidden(c))
    BY <1>3, <1>6 DEF Stored, Hidden
  <2>2. \A c \in DOMAIN blocks : Taken(c)' = {} /\ Taken(c) = IF c = b THEN {f} ELSE {}
    BY <1>0, <1>2, <1>3 DEF Taken
  <2>3. f \notin Stored(b)
    BY <1>0, <1>7 DEF Stored
  <2>4. ~Hidden(b)
    BY <1>0, ProducerBlock DEF Hidden
  <2> QED BY <2>1, <2>2, <2>3, <2>4
<1>9. DataOK'
  <2>1. ASSUME NEW c \in DOMAIN blocks, NEW i \in 0..blocks'[c].size - 1
        PROVE  blocks'[c].data[i] # Raw <=> i \in (Filled(blocks'[c]) \ Taken(c)') \cup Stored(c)'
    <3>1. blocks[c].data[i] # Raw <=> i \in (Filled(blocks[c]) \ Taken(c)) \cup Stored(c)
      BY <1>1, <1>6 DEF DataOK
    <3>2. (Filled(blocks'[c]) \ Taken(c)') \cup Stored(c)' = (Filled(blocks[c]) \ Taken(c)) \cup Stored(c)
      <4>1. CASE c = b
        BY <1>0, <1>4, <1>8, <4>1
      <4>2. CASE c # b
        BY <1>4, <1>8, <4>2
      <4> QED BY <4>1, <4>2
    <3> QED BY <1>6, <3>1, <3>2
  <2> QED BY <1>4, <2>1 DEF DataOK
<1>10. <<b, f>> \in Visible /\ Visible' = Visible \ {<<b, f>>}
  <2>1. Visible' = {y \in (DOMAIN blocks) \X Index : y[2] \in Filled(blocks'[y[1]]) /\ ~Hidden(y[1])'}
    BY <1>4 DEF Visible, Index
  <2>2. \A y \in (DOMAIN blocks) \X Index :
          /\ Hidden(y[1])' <=> Hidden(y[1])
          /\ y[2] \in Filled(blocks'[y[1]]) <=> y[2] \in Filled(blocks[y[1]]) /\ y # <<b, f>>
    <3>1. ASSUME NEW c \in DOMAIN blocks, NEW i \in Index
          PROVE  i \in Filled(blocks'[c]) <=> i \in Filled(blocks[c]) /\ ~(c = b /\ i = f)
      BY <1>0, <1>4
    <3> QED BY <1>8, <3>1
  <2>3. <<b, f>> \in (DOMAIN blocks) \X Index /\ f \in Filled(blocks[b])
    BY <1>0, <1>1, <1>2, <1>7 DEF Index
  <2> QED BY <1>8, <2>1, <2>2, <2>3 DEF Visible
<1>11. Live' = Live /\ \A y \in Live : y[1] \in DOMAIN blocks /\ y[2] \in Filled(blocks[y[1]]) /\ y # <<b, f>>
  <2>1. Live' = Visible'
    BY <1>4, <1>8 DEF Live, Visible
  <2>2. \A y \in Visible : /\ y \in (DOMAIN blocks) \X Index /\ y[1] \in DOMAIN blocks
                           /\ y[2] \in Filled(blocks[y[1]])
                           /\ y[2] \in Taken(y[1]) <=> y = <<b, f>>
    <3>1. ASSUME NEW y \in Visible
          PROVE  /\ y \in (DOMAIN blocks) \X Index /\ y[1] \in DOMAIN blocks
                 /\ y[2] \in Filled(blocks[y[1]])
                 /\ y[2] \in Taken(y[1]) <=> y = <<b, f>>
      <4>1. y \in (DOMAIN blocks) \X Index /\ y[1] \in DOMAIN blocks /\ y[2] \in Filled(blocks[y[1]])
            /\ y = <<y[1], y[2]>>
        BY DEF Visible
      <4>2. Taken(y[1]) = IF y[1] = b THEN {f} ELSE {}
        BY <1>8, <4>1
      <4> QED BY <4>1, <4>2
    <3> QED BY <3>1
  <2>3. Live = Visible \ {<<b, f>>}
    BY <2>2 DEF Live
  <2> QED BY <1>10, <2>1, <2>2, <2>3
<1>12. \A y \in Live : Value(y)' = Value(y)
  BY <1>6, <1>11 DEF Value
<1>13. Kept' = Kept
  BY <1>11, <1>12 DEF Kept
<1>14. \A x, y \in Live : Before(rk, x, y)' => Before(rk, x, y)
  <2>1. SUFFICES ASSUME NEW x \in Live, NEW y \in Live, Before(rk, x, y)', ~(rk[x[1]] > rk[y[1]])
                 PROVE  Before(rk, x, y)
    BY DEF Before
  <2>2. /\ x[1] = y[1] /\ x[1] \in DOMAIN blocks
        /\ Gap(blocks'[x[1]].size, blocks'[x[1]].front, x[2])
             < Gap(blocks'[x[1]].size, blocks'[x[1]].front, y[2])
    BY <1>11, <2>1 DEF Before
  <2>3. CASE x[1] # b
    <3>1. blocks'[x[1]] = blocks[x[1]]
      BY <1>4, <2>2, <2>3
    <3> QED BY <2>2, <3>1 DEF Before
  <2>4. CASE x[1] = b
    <3>1. x \in Visible' /\ y \in Visible'
      BY <1>10, <1>11 DEF Live
    <3>2. x[2] \in Filled(blocks'[b]) /\ y[2] \in Filled(blocks'[b])
      BY <2>2, <2>4, <3>1 DEF Visible
    <3>3. x[2] \in 0..k.size - 1 /\ y[2] \in 0..k.size - 1
      BY <1>4, <1>7, <3>2
    <3>4. /\ Gap(k.size, k.front, x[2]) \in Nat /\ Gap(k.size, k.front, y[2]) \in Nat
      <4>1. k.size \in Nat /\ k.front \in 0..k.size - 1
        BY <1>0, <1>7
      <4>2. \A i \in 0..k.size - 1 : Gap(k.size, k.front, i) \in Nat
        BY <4>1, GapFacts
      <4> QED BY <3>3, <4>2
    <3>5. /\ Gap(k.size, blocks'[b].front, x[2]) = Gap(k.size, k.front, x[2]) - 1
          /\ Gap(k.size, blocks'[b].front, y[2]) = Gap(k.size, k.front, y[2]) - 1
      BY <1>4, <3>2
    <3>6. Gap(k.size, blocks'[b].front, x[2]) < Gap(k.size, blocks'[b].front, y[2])
      BY <1>5, <2>2, <2>4
    <3>7. Gap(k.size, k.front, x[2]) < Gap(k.size, k.front, y[2])
      BY <3>4, <3>5, <3>6
    <3> QED BY <1>0, <2>2, <2>4, <3>7 DEF Before
  <2> QED BY <2>3, <2>4
<1>15. AtHand'
  <2>1. producer.pc \in {"publish", "reuseTail"} => producer.block \in DOMAIN blocks
    BY <1>1, ProducerBlock DEF ProducerOK
  <2>2. producer.pc \in {"link", "advance"} => producer.block # b /\ producer.block \in DOMAIN blocks
    BY <1>0, ProducerBlock
  <2> QED BY <1>1, <1>3, <1>4, <1>6, <2>1, <2>2 DEF AtHand, OrderOK
<1>16. OrderOK(rk)'
  <2>1. /\ \A x \in Live : Older(Value(x))' <=> Older(Value(x))
        /\ \A n \in DOMAIN received : Older(received[n])' <=> Older(received[n])
    BY <1>3, <1>12 DEF Older
  <2>2. \A x, y \in Live' : Before(rk, x, y)' => Value(x)' < Value(y)'
    BY <1>1, <1>11, <1>12, <1>14 DEF OrderOK, InOrder
  <2> QED BY <1>1, <1>3, <1>11, <1>12, <1>15, <2>1, <2>2 DEF OrderOK, AtHand, InOrder
<1>17. CountOK'
  <2>1. IsFiniteSet(Visible') /\ Cardinality(Visible') = Cardinality(Visible) - 1
    BY <1>1, <1>10, FS_RemoveElement DEF CountOK
  <2>2. blocking => Tickets' = Tickets - 1
    <3>1. One(consumer.pc # "idle") = 1 /\ One(consumer'.pc # "idle") = 0
      BY <1>2, <1>3 DEF One
    <3>2. Tickets = m_count + One(producer.pc = "signal") + One(waiter \in {"sleep", "got"})
                     + One(consumer.pc # "idle")
      BY DEF Tickets
    <3>3. Tickets' = m_count + One(producer.pc = "signal") + One(waiter \in {"sleep", "got"})
                     + One(consumer'.pc # "idle")
      BY <1>3 DEF Tickets
    <3>4. /\ One(waiter \in {"sleep", "got"}) \in Int
          /\ One(producer.pc = "signal") \in Int /\ m_count \in Int
      BY <1>1 DEF One, TypeOK
    <3> QED BY <3>1, <3>2, <3>3, <3>4
  <2> QED BY <1>1, <1>3, <2>1, <2>2 DEF CountOK
<1>18. RingOK(rk)'
  <2>1. Linked' = Linked /\ Linked \subseteq DOMAIN blocks /\ Nexts' = Nexts
    BY <1>3, <1>4, <1>6 DEF Linked, Nexts
  <2>2. rk[b] \in Nat
    BY <1>0, <1>1 DEF RingOK, Ranked
  <2>3. ~(rk[b] < rk[b]) /\ ~(rk[b] > rk[b])
    BY <2>2
  <2> QED BY <1>0, <1>1, <1>3, <1>4, <2>1, <2>3 DEF RingOK
<1>19. ProducerOK(rk)'
  <2>1. producer.pc \in Busy => producer.block \in DOMAIN blocks
    BY <1>1 DEF ProducerOK, BlocksOK, Busy
  <2>2. \A c \in DOMAIN blocks : HasRoom(blocks'[c]) <=> HasRoom(blocks[c])
    BY <1>6 DEF HasRoom
  <2>3. producer.pc \in {"link", "advance"} => blocks'[producer.block] = blocks[producer.block]
    BY <1>0, <1>4, ProducerBlock
  <2> QED BY <1>1, <1>3, <1>4, <1>6, <2>1, <2>2, <2>3 DEF ProducerOK, Busy
<1>20. TypeOK' /\ SemaphoreOK' /\ ConsumerOK'
  BY <1>1, <1>2, <1>3, <1>4 DEF TypeOK, SemaphoreOK, ConsumerOK
<1> QED BY <1>3, <1>4, <1>9, <1>13, <1>16, <1>17, <1>18, <1>19, <1>20 DEF QueueOK

-----------------------------------------------------------------------------
(***************************************************************************)
(* The beginning and the end.                                              *)
(***************************************************************************)
\* Used is Filled: the destructor walks from front to tail with the mask.
LEMMA UsedIsFilled ==
    ASSUME BlocksOK, NEW b \in DOMAIN blocks
    PROVE  Used(b) = Filled(blocks[b])
<1>0. PICK k : k = blocks[b]
  OBVIOUS
<1>1. k.size \in Nat /\ k.size >= 2 /\ k.front \in 0..k.size - 1 /\ k.tail \in 0..k.size - 1
  BY <1>0, BlockFacts DEF BlocksOK
<1>2. \A i \in 0..k.size - 1 : (i - k.front) % k.size = Gap(k.size, k.front, i)
  BY <1>1, Masks
<1> QED BY <1>0, <1>1, <1>2 DEF Used, Filled, Slots

\* The destructor destroys the elements that are left, and only those.
LEMMA DestroyOK ==
    ASSUME NEW rk, QueueOK(rk), Destroy
    PROVE  Gone' /\ destroyed' /\ received' = received
<1>1. TypeOK /\ BlocksOK /\ SemaphoreOK /\ DataOK /\ OrderOK(rk)
  BY DEF QueueOK
<1>2. /\ producer.pc = "idle" /\ consumer.pc = "idle" /\ destroyed' = TRUE
      /\ UNCHANGED <<blocking, frontBlock, tailBlock, largestBlockSize, producer, consumer, sent, received>>
      /\ UNCHANGED <<m_count, m_sema, oldCount, waiter>>
      /\ DOMAIN blocks' = DOMAIN blocks
  BY DEF Destroy, semaphoreVars
<1>3. ASSUME NEW b \in DOMAIN blocks, NEW i \in DOMAIN blocks'[b].data PROVE blocks'[b].data[i] = Raw
  <2>0. PICK k : k = blocks[b]
    OBVIOUS
  <2>1. BlockOK(k) /\ k \in Block /\ k.data \in [0..k.size - 1 -> Nat]
    BY <1>1, <2>0 DEF BlocksOK, BlockOK
  <2>2. blocks'[b].data = [j \in DOMAIN k.data |-> IF j \in Used(b) THEN Raw ELSE k.data[j]]
    <3>1. PICK d : d = [j \in DOMAIN k.data |-> IF j \in Used(b) THEN Raw ELSE k.data[j]]
      OBVIOUS
    <3>2. blocks'[b] = [k EXCEPT !.data = d]
      BY <2>0, <3>1 DEF Destroy
    <3> QED BY <2>1, <3>1, <3>2 DEF Block
  <2>3. i \in 0..k.size - 1 /\ blocks'[b].data[i] = IF i \in Used(b) THEN Raw ELSE k.data[i]
    BY <2>1, <2>2
  <2>4. Used(b) = Filled(k) /\ Taken(b) = {} /\ Stored(b) = {}
    BY <1>1, <1>2, <2>0, UsedIsFilled DEF Taken, Stored
  <2>5. k.data[i] # Raw <=> i \in Filled(k)
    BY <1>1, <2>0, <2>3, <2>4 DEF DataOK
  <2> QED BY <2>3, <2>4, <2>5
<1>4. TypeOK' /\ SemaphoreOK' /\ InOrder'
  BY <1>1, <1>2 DEF TypeOK, SemaphoreOK, OrderOK, InOrder
<1> QED BY <1>2, <1>3, <1>4 DEF Gone

\* The constructor makes one empty block.
LEMMA InitOK ==
    ASSUME Init
    PROVE  QInv
<1>0. PICK s, k : s = ceilToPow2(MaxSize + 1) /\ k = [make_block(s) EXCEPT !.next = 1]
  OBVIOUS
<1>1. s \in Nat /\ s >= 2
  BY <1>0, FirstSize
<1>2. /\ blocking \in BOOLEAN /\ blocks = <<k>> /\ frontBlock = 1 /\ tailBlock = 1 /\ largestBlockSize = s
      /\ producer = [pc |-> "idle", block |-> 0] /\ consumer = [pc |-> "idle", block |-> 0, front |-> 0]
      /\ sent = 0 /\ received = <<>> /\ destroyed = FALSE
      /\ m_count = 0 /\ m_sema = 0 /\ waiter = "out" /\ oldCount = 0
  BY <1>0, QueueAssumption DEF Init, InitSemaphore, IdleProducer, IdleConsumer
<1>3. PICK d : d = [i \in 0..s - 1 |-> Raw]
  OBVIOUS
<1>4. k = [front |-> 0, localTail |-> 0, tail |-> 0, localFront |-> 0, next |-> 1, size |-> s, data |-> d]
  <2>1. make_block(s) = [front |-> 0, localTail |-> 0, tail |-> 0, localFront |-> 0, next |-> 0,
                         size |-> s, data |-> d]
    BY <1>3 DEF make_block
  <2> QED BY <1>0, <2>1
<1>5. BlockOK(k) /\ k.next = 1 /\ Filled(k) = {} /\ k.size = s /\ IsEmpty(k)
      /\ \A i \in 0..s - 1 : k.data[i] = Raw
  <2>1. d \in [0..s - 1 -> Nat] /\ \A i \in 0..s - 1 : d[i] = Raw
    BY <1>3 DEF Raw
  <2>2. Ring(s, 0, 0, 0, 0) /\ Slots(s, 0, 0) = {}
    BY <1>1 DEF Ring, Gap, Slots
  <2>3. BlockOK(k)
    BY <1>1, <1>4, <2>1, <2>2, MakeBlock
  <2> QED BY <1>4, <2>1, <2>2, <2>3 DEF Filled, IsEmpty
<1>6. blocks \in Seq(Block) /\ DOMAIN blocks = {1} /\ blocks[1] = k
  <2>1. k \in Block
    BY <1>5 DEF BlockOK
  <2>2. DOMAIN <<k>> = 1..1 /\ 1..1 = {1}
    OBVIOUS
  <2> QED BY <1>2, <2>1, <2>2
<1>7. BlocksOK
  BY <1>5, <1>6 DEF BlocksOK
<1>8. TypeOK /\ SemaphoreOK /\ ConsumerOK
  <2>0. /\ producer \in [pc : Busy \cup {"idle", "signal", "post"}, block : Nat] /\ producer.pc \notin Busy
        /\ consumer \in [pc : {"idle", "empty", "recheck", "next", "hop", "move", "release"},
                         block : Nat, front : Nat]
        /\ received \in Seq(Nat)
    BY <1>2 DEF Busy
  <2>001. blocking \in BOOLEAN /\ destroyed \in BOOLEAN
    BY ONLY <1>2, Zenon
  <2>01. /\ sent \in Nat
         /\ m_count \in Int /\ m_sema \in Nat /\ oldCount \in Int /\ waiter = "out"
    BY <1>2
  <2>02. frontBlock = 1 /\ tailBlock = 1 /\ largestBlockSize = s
    BY ONLY <1>2
  <2>03. /\ frontBlock \in DOMAIN blocks /\ tailBlock \in DOMAIN blocks
         /\ largestBlockSize \in Nat /\ largestBlockSize >= 2
    BY ONLY <1>1, <2>02, <1>6
  <2>1. TypeOK
    BY ONLY <2>0, <2>001, <2>01, <2>03 DEF TypeOK
  <2>2. SemaphoreOK /\ ConsumerOK
    BY <1>2 DEF SemaphoreOK, ConsumerOK
  <2> QED BY <2>1, <2>2
<1>9. DataOK
  BY <1>2, <1>5, <1>6 DEF DataOK, Taken, Stored
<1>10. Visible = {} /\ Live = {}
  BY <1>5, <1>6 DEF Visible, Live
<1>11. CountOK
  BY <1>2, <1>10, FS_EmptySet DEF CountOK, Tickets, One
<1>12. PICK rk : rk = [b \in {1} |-> 0]
  OBVIOUS
<1>13. RingOK(rk) /\ rk \in Rankings
  <2>1. Linked = {1} /\ Nexts[1] = 1
    BY <1>2, <1>5, <1>6 DEF Linked, Nexts
  <2>2. Ranked(rk, {1}, Nexts, 1)
    BY <1>12, <2>1 DEF Ranked
  <2>3. ~(rk[1] < rk[1]) /\ ~(rk[1] > rk[1])
    BY <1>12
  <2> QED BY <1>2, <1>12, <2>1, <2>2, <2>3 DEF RingOK, Rankings
<1>14. ProducerOK(rk)
  BY <1>2 DEF ProducerOK
<1>15. OrderOK(rk)
  BY <1>2, <1>10 DEF OrderOK, InOrder
<1>16. QueueOK(rk)
  BY <1>7, <1>8, <1>9, <1>11, <1>13, <1>14, <1>15 DEF QueueOK
<1> QED BY <1>2, <1>13, <1>16 DEF QInv

-----------------------------------------------------------------------------
(***************************************************************************)
(* The theorems.                                                           *)
(***************************************************************************)
\* Every step of the program keeps the invariant and moves at most one item.
LEMMA StepOK ==
    ASSUME QInv, Next
    PROVE  QInv' /\ FifoStep
<1>1. CASE destroyed
  <2>1. producer.pc = "idle" /\ consumer.pc = "idle"
    BY <1>1 DEF QInv, Gone
  <2> QED BY <1>1, <2>1 DEF Next, Enqueue, ProducerThread, ConsumerThread, Destroy, Store, Publish, Full, Reuse,
            ReuseTail, Allocate, AllocateFails, Link, Advance, Signal, Post, Wait, Dequeue, Empty, Recheck,
            NextBlock, Hop, Move, Release
<1>2. CASE ~destroyed
  <2>0. PICK rk \in Rankings : QueueOK(rk)
    BY <1>2 DEF QInv
  <2>1. CASE Destroy
    <3>1. Gone' /\ destroyed' /\ received' = received
      BY <2>0, <2>1, DestroyOK
    <3> QED BY <3>1 DEF QInv, FifoStep
  <2>2. CASE \/ Enqueue \/ Store \/ Full \/ Reuse \/ ReuseTail \/ Allocate \/ AllocateFails \/ Signal \/ Post
             \/ Wait \/ Dequeue \/ Empty \/ Recheck \/ NextBlock \/ Hop
    <3>1. QueueOK(rk)' /\ Kept' = Kept
      BY <2>0, <2>2, EnqueueOK, StoreOK, FullOK, ReuseOK, ReuseTailOK, AllocateOK, AllocateFailsOK, SignalOK,
         PostOK, WaitOK, DequeueOK, EmptyOK, RecheckOK, NextBlockOK, HopOK
    <3>2. received' = received /\ destroyed' = destroyed
      BY <2>2 DEF Enqueue, Store, Full, Reuse, ReuseTail, Allocate, AllocateFails, Signal, Post, ProducerStep,
         Wait, Dequeue, Empty, Recheck, NextBlock, Hop, ConsumerStep
    <3>3. rk \in Rankings'
      BY <3>1 DEF QueueOK, RingOK, Ranked, Rankings
    <3> QED BY <1>2, <3>1, <3>2, <3>3 DEF QInv, FifoStep
  <2>3. CASE Publish
    <3>1. QueueOK(rk)' /\ Kept' = Kept \cup {sent} /\ (\A v \in Kept : v < sent) /\ received' = received
      BY <2>0, <2>3, PublishOK
    <3>2. destroyed' = destroyed
      BY <2>3 DEF Publish, ProducerStep
    <3>3. rk \in Rankings'
      BY <3>1 DEF QueueOK, RingOK, Ranked, Rankings
    <3> QED BY <1>2, <3>1, <3>2, <3>3 DEF QInv, FifoStep
  <2>4. CASE Link
    <3>1. (\E rk2 \in Rankings' : QueueOK(rk2)') /\ Kept' = Kept
      BY <2>0, <2>4, LinkOK
    <3>2. destroyed' = destroyed /\ received' = received
      BY <2>4 DEF Link, ProducerStep
    <3> QED BY <1>2, <3>1, <3>2 DEF QInv, FifoStep
  <2>5. CASE Advance
    <3>1. /\ \E rk2 \in Rankings' : QueueOK(rk2)'
          /\ Kept' = Kept \cup {sent} /\ (\A v \in Kept : v < sent) /\ received' = received
      BY <2>0, <2>5, AdvanceOK
    <3>2. destroyed' = destroyed
      BY <2>5 DEF Advance, ProducerStep
    <3> QED BY <1>2, <3>1, <3>2 DEF QInv, FifoStep
  <2>6. CASE Move
    <3>1. QueueOK(rk)' /\ \E v \in Kept : /\ \A w \in Kept : v <= w
                                          /\ Kept' = Kept \ {v}
                                          /\ received' = Append(received, v)
      BY <2>0, <2>6, MoveOK
    <3>2. destroyed' = destroyed
      BY <2>6 DEF Move, ConsumerStep
    <3>3. rk \in Rankings'
      BY <3>1 DEF QueueOK, RingOK, Ranked, Rankings
    <3> QED BY <1>2, <3>1, <3>2, <3>3 DEF QInv, FifoStep
  <2>7. CASE Release
    <3>1. QueueOK(rk)' /\ Kept' = Kept /\ received' = received
      BY <2>0, <2>7, ReleaseOK
    <3>2. destroyed' = destroyed
      BY <2>7 DEF Release, ConsumerStep
    <3>3. rk \in Rankings'
      BY <3>1 DEF QueueOK, RingOK, Ranked, Rankings
    <3> QED BY <1>2, <3>1, <3>2, <3>3 DEF QInv, FifoStep
  <2> QED BY <2>1, <2>2, <2>3, <2>4, <2>5, <2>6, <2>7 DEF Next, ProducerThread, ConsumerThread
<1> QED BY <1>1, <1>2 DEF QInv

\* A stuttering step keeps the invariant.
LEMMA StutterOK ==
    ASSUME QInv, UNCHANGED vars
    PROVE  QInv'
<1>1. /\ UNCHANGED <<blocking, blocks, frontBlock, tailBlock, largestBlockSize, producer, consumer>>
      /\ UNCHANGED <<sent, received, destroyed, m_count, m_sema, waiter, oldCount>>
  BY DEF vars, queueVars, semaphoreVars
<1>2. /\ (TypeOK => TypeOK') /\ (SemaphoreOK => SemaphoreOK')
      /\ (BlocksOK => BlocksOK') /\ (ConsumerOK => ConsumerOK')
  BY <1>1 DEF TypeOK, SemaphoreOK, BlocksOK, ConsumerOK
<1>3. CASE destroyed
  BY <1>1, <1>2, <1>3 DEF QInv, Gone, InOrder
<1>4. CASE ~destroyed
  <2>0. PICK rk \in Rankings : QueueOK(rk)
    BY <1>4 DEF QInv
  <2>1. \A b \in DOMAIN blocks : Taken(b)' = Taken(b) /\ Stored(b)' = Stored(b) /\ (Hidden(b)' <=> Hidden(b))
    BY <1>1 DEF Taken, Stored, Hidden
  <2>2. SameRings /\ SameData
    BY <1>1, SameBlocks
  <2>3. SameHidden /\ SameTaken /\ SameStored /\ StayOlder /\ AtHand'
    BY <1>1, <2>0, <2>1 DEF SameHidden, SameTaken, SameStored, StayOlder, Older, AtHand, QueueOK, OrderOK
  <2>4. DataOK' /\ OrderOK(rk)'
    BY <1>1, <2>0, <2>2, <2>3, SameDataOK, SameOrder DEF QueueOK
  <2>5. Linked' = Linked /\ Linked \subseteq DOMAIN blocks
    BY <1>1 DEF Linked
  <2>6. RingOK(rk)'
    BY <1>1, <2>0, <2>2, <2>5, SameRingOK DEF QueueOK
  <2>7. ProducerOK(rk)'
    BY <1>1, <2>0 DEF ProducerOK, QueueOK
  <2>8. CountOK'
    <3>1. Tickets' = Tickets
      BY <1>1 DEF Tickets, One
    <3> QED BY <1>1, <2>0, <2>2, <2>3, <3>1, SameVisible DEF CountOK, QueueOK
  <2>9. QueueOK(rk)' /\ rk \in Rankings'
    BY <1>2, <2>0, <2>4, <2>5, <2>6, <2>7, <2>8 DEF QueueOK, Rankings
  <2> QED BY <1>1, <1>4, <2>9 DEF QInv
<1> QED BY <1>3, <1>4

\* The invariant: rings that are sound with their stale copies, the circle of
\* blocks between the consumer's and the producer's, a slot that holds an object
\* exactly when it should, and a semaphore that counts what is in sight.
THEOREM QueueInductive == Spec => []QInv
<1>1. Init => QInv
  BY InitOK
<1>2. QInv /\ [Next]_vars => QInv'
  BY StepOK, StutterOK
<1> QED BY <1>1, <1>2, PTL DEF Spec

\* An element is constructed only in raw memory and moved only when it was
\* constructed, the destructor leaves none, and the asserts of the code hold:
\* the consumer the semaphore let through finds an element, the block the
\* producer takes again is empty.
THEOREM SlotsOwned == Spec => []SlotsAreOwned
<1>1. QInv => SlotsAreOwned
  <2>1. SUFFICES ASSUME QInv PROVE SlotsAreOwned
    OBVIOUS
  <2>2. CASE destroyed
    BY <2>1, <2>2 DEF QInv, Gone, SlotsAreOwned
  <2>3. CASE ~destroyed
    <3>0. PICK rk \in Rankings : QueueOK(rk)
      BY <2>1, <2>3 DEF QInv
    <3>1. TypeOK /\ BlocksOK /\ DataOK /\ RingOK(rk) /\ ProducerOK(rk)
      BY <3>0 DEF QueueOK
    <3>2. consumer.pc # "failed"
      BY <3>1 DEF TypeOK
    <3>3. ASSUME producer.pc = "reuse" PROVE blocks[producer.block].front = blocks[producer.block].tail
      BY <3>0, <3>1, <3>3, ProducerBlock DEF RingOK, IsEmpty
    <3>4. ASSUME producer.pc \in {"store", "reuse"}
          PROVE  blocks[producer.block].data[blocks[producer.block].tail] = Raw
      <4>1. PICK b, k : b = producer.block /\ k = blocks[b]
        OBVIOUS
      <4>2. b \in DOMAIN blocks
        BY <3>0, <3>1, <3>4, <4>1, ProducerBlock DEF ProducerOK, TypeOK
      <4>3. k.tail \in 0..k.size - 1 /\ k.tail \notin Filled(k)
        BY <3>1, <4>1, <4>2, BlockFacts DEF BlocksOK
      <4>4. Stored(b) = {}
        BY <3>4 DEF Stored
      <4> QED BY <3>1, <4>1, <4>2, <4>3, <4>4 DEF DataOK
    <3>5. ASSUME consumer.pc = "move" PROVE blocks[consumer.block].data[consumer.front] # Raw
      <4>1. PICK b, k : b = frontBlock /\ k = blocks[b]
        OBVIOUS
      <4>2. b \in DOMAIN blocks /\ consumer.block = b /\ consumer.front = k.front /\ k.front \in Filled(k)
        BY <3>0, <3>1, <3>5, <4>1, ConsumerBlock DEF TypeOK
      <4>3. k.front \in 0..k.size - 1
        BY <3>1, <4>1, <4>2, BlockFacts DEF BlocksOK
      <4>4. Taken(b) = {}
        BY <3>5 DEF Taken
      <4> QED BY <3>1, <4>1, <4>2, <4>3, <4>4 DEF DataOK
    <3> QED BY <2>3, <3>2, <3>3, <3>4, <3>5 DEF SlotsAreOwned
  <2> QED BY <2>2, <2>3
<1> QED BY <1>1, QueueInductive, PTL

\* First in, first out, in single steps: a step of the program makes the newest
\* item visible, or takes the oldest one, or leaves the queue as it is; nothing
\* comes out twice or out of order, and only the destructor drops anything.
THEOREM FirstInFirstOut == Spec => []InOrder /\ [][FifoStep]_vars
<1>1. QInv => InOrder
  <2>1. SUFFICES ASSUME QInv PROVE InOrder
    OBVIOUS
  <2>2. CASE destroyed
    BY <2>1, <2>2 DEF QInv, Gone
  <2>3. CASE ~destroyed
    BY <2>1, <2>3 DEF QInv, QueueOK, OrderOK
  <2> QED BY <2>2, <2>3
<1>2. QInv /\ [Next]_vars => [FifoStep]_vars
  BY StepOK
<1> QED BY <1>1, <1>2, QueueInductive, PTL DEF Spec

=============================================================================

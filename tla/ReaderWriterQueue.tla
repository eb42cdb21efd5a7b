-------------------------- MODULE ReaderWriterQueue --------------------------
(***************************************************************************)
(* moodycamel::ReaderWriterQueue and BlockingReaderWriterQueue: one thread *)
(* enqueues, one dequeues, without a lock.  Elements lie in a circle of    *)
(* ring buffers ("blocks"); the producer owns every tail, the consumer     *)
(* every front, and each keeps a copy of the other's index that may be     *)
(* old.  Every access to something the other thread writes is a step of    *)
(* its own; the fences of the code order those steps.                      *)
(*                                                                         *)
(* PollSystem polls the queue (it is woken by its pipe), Resolver waits on *)
(* it.  The queue is built with the default size, one block.               *)
(***************************************************************************)
EXTENDS LightweightSemaphore, Sequences, SequencesExt

CONSTANTS
    MaxSize,        \* maxSize of the constructor
    MaxBlockSize,   \* MAX_BLOCK_SIZE
    Blockings,      \* is the consumer waiting, or polling: the uses to check
    MaxItems        \* bound: items the producer enqueues

\* The sizes of blocks; MAX_BLOCK_SIZE is 512, and a first block may be twice as large.
PowersOf2 == {1, 2, 4, 8, 16, 32, 64, 128, 256, 512, 1024}

ASSUME QueueAssumption ==
    /\ MaxSize \in Nat \ {0}
    /\ MaxBlockSize \in PowersOf2 \ {1, 1024}
    /\ MaxSize < 2 * MaxBlockSize      \* one block is enough
    /\ Blockings \subseteq BOOLEAN
    /\ MaxItems \in Nat

VARIABLES
    blocking,           \* which of the two uses this is
    blocks,             \* the blocks, by address
    frontBlock, tailBlock, largestBlockSize,
    producer,           \* inner_enqueue: where it is, its item and its block
    consumer,           \* try_dequeue: where it is, its block and index
    sent,               \* items given to enqueue so far
    received,           \* what try_dequeue returned
    destroyed

queueVars == <<blocks, frontBlock, tailBlock, largestBlockSize>>
vars == <<blocking, queueVars, producer, consumer, sent, received, destroyed,
          semaphoreVars>>

Item == 1..MaxItems

\* Memory that holds no object.
Raw == 0

ceilToPow2(x) == CHOOSE p \in PowersOf2 : p >= x /\ \A q \in PowersOf2 : q >= x => p <= q

make_block(size) ==
    [front |-> 0, localTail |-> 0, tail |-> 0, localFront |-> 0, next |-> 0,
     size |-> size, data |-> [i \in 0..size - 1 |-> Raw]]

\* An index moved on by one, & sizeMask.
After(b, i) == (i + 1) % blocks[b].size

IdleProducer == [pc |-> "idle", block |-> 0]
IdleConsumer == [pc |-> "idle", block |-> 0, front |-> 0]

Init ==
    /\ blocking \in Blockings
    /\ blocks = <<[make_block(ceilToPow2(MaxSize + 1)) EXCEPT !.next = 1]>>
    /\ frontBlock = 1
    /\ tailBlock = 1
    /\ largestBlockSize = ceilToPow2(MaxSize + 1)
    /\ producer = IdleProducer
    /\ consumer = IdleConsumer
    /\ sent = 0
    /\ received = <<>>
    /\ destroyed = FALSE
    /\ InitSemaphore

-----------------------------------------------------------------------------
(* The producer.  Its item is number sent. *)

ProducerStep(pc, b) ==
    /\ producer' = [pc |-> pc, block |-> b]
    /\ UNCHANGED <<blocking, consumer, received, destroyed>>

\* enqueue: is there room in the tail block?  The copy of front is refreshed at need.
Enqueue ==
    /\ producer.pc = "idle"
    /\ ~destroyed
    /\ sent < MaxItems
    /\ sent' = sent + 1
    /\ LET b == tailBlock
           next == After(b, blocks[b].tail)
       IN  IF next # blocks[b].localFront
           THEN /\ ProducerStep("store", b)
                /\ UNCHANGED blocks
           ELSE /\ blocks' = [blocks EXCEPT ![b].localFront = blocks[b].front]
                /\ ProducerStep(IF next # blocks[b].front THEN "store" ELSE "full", b)
    /\ UNCHANGED <<frontBlock, tailBlock, largestBlockSize, semaphoreVars>>

\* Construct the element, then publish it.
Store ==
    /\ producer.pc = "store"
    /\ blocks' = [blocks EXCEPT ![producer.block].data[blocks[producer.block].tail] = sent]
    /\ ProducerStep("publish", producer.block)
    /\ UNCHANGED <<frontBlock, tailBlock, largestBlockSize, sent, semaphoreVars>>

\* Where the producer goes when the element is in the queue.
Enqueued == IF blocking THEN "signal" ELSE "idle"

Publish ==
    /\ producer.pc = "publish"
    /\ LET b == producer.block IN
         blocks' = [blocks EXCEPT ![b].tail = After(b, blocks[b].tail)]
    /\ ProducerStep(Enqueued, 0)
    /\ UNCHANGED <<frontBlock, tailBlock, largestBlockSize, sent, semaphoreVars>>

\* The tail block is full: is the next one free, or must there be a new one?
Full ==
    /\ producer.pc = "full"
    /\ LET next == blocks[producer.block].next IN
         IF next # frontBlock
         THEN ProducerStep("reuse", next)
         ELSE ProducerStep("allocate", producer.block)
    /\ UNCHANGED <<queueVars, sent, semaphoreVars>>

\* A variant: the tail moves on to a block whose own tail does not show the element.
ReuseWithoutTail ==
    /\ producer.pc = "reuse"
    /\ LET b == producer.block IN
         blocks' = [blocks EXCEPT ![b].localFront = blocks[b].front,
                                  ![b].data[blocks[b].tail] = sent]
    /\ ProducerStep("advance", producer.block)
    /\ UNCHANGED <<frontBlock, tailBlock, largestBlockSize, sent, semaphoreVars>>

\* The block after the tail block is not the consumer's, so it is empty.
Reuse ==
    /\ producer.pc = "reuse"
    /\ LET b == producer.block IN
         blocks' = [blocks EXCEPT ![b].localFront = blocks[b].front,
                                  ![b].data[blocks[b].tail] = sent]
    /\ ProducerStep("reuseTail", producer.block)
    /\ UNCHANGED <<frontBlock, tailBlock, largestBlockSize, sent, semaphoreVars>>

ReuseTail ==
    /\ producer.pc = "reuseTail"
    /\ LET b == producer.block IN
         blocks' = [blocks EXCEPT ![b].tail = After(b, blocks[b].tail)]
    /\ ProducerStep("advance", producer.block)
    /\ UNCHANGED <<frontBlock, tailBlock, largestBlockSize, sent, semaphoreVars>>

\* A new block, which nobody sees before it is linked.
Allocate ==
    /\ producer.pc = "allocate"
    /\ LET size == IF largestBlockSize >= MaxBlockSize
                   THEN largestBlockSize ELSE 2 * largestBlockSize
           new == [make_block(size) EXCEPT !.data[0] = sent, !.tail = 1, !.localTail = 1,
                                           !.next = blocks[producer.block].next]
       IN  /\ blocks' = Append(blocks, new)
           /\ largestBlockSize' = size
    /\ ProducerStep("link", Len(blocks) + 1)
    /\ UNCHANGED <<frontBlock, tailBlock, sent, semaphoreVars>>

\* make_block failed: enqueue returns false and its callers do not look.
AllocateFails ==
    /\ producer.pc = "allocate"
    /\ ProducerStep("idle", 0)
    /\ UNCHANGED <<queueVars, sent, semaphoreVars>>

Link ==
    /\ producer.pc = "link"
    /\ blocks' = [blocks EXCEPT ![tailBlock].next = producer.block]
    /\ ProducerStep("advance", producer.block)
    /\ UNCHANGED <<frontBlock, tailBlock, largestBlockSize, sent, semaphoreVars>>

Advance ==
    /\ producer.pc = "advance"
    /\ tailBlock' = producer.block
    /\ ProducerStep(Enqueued, 0)
    /\ UNCHANGED <<blocks, frontBlock, largestBlockSize, sent, semaphoreVars>>

\* BlockingReaderWriterQueue::enqueue signals after the element is in.
Signal ==
    /\ producer.pc = "signal"
    /\ SignalCount
    /\ ProducerStep(IF MustPost THEN "post" ELSE "idle", 0)
    /\ UNCHANGED <<queueVars, sent>>

Post ==
    /\ producer.pc = "post"
    /\ PostSemaphore
    /\ ProducerStep("idle", 0)
    /\ UNCHANGED <<queueVars, sent>>

ProducerThread ==
    \/ Store \/ Publish \/ Full \/ Reuse \/ ReuseTail
    \/ Allocate \/ AllocateFails \/ Link \/ Advance \/ Signal \/ Post

-----------------------------------------------------------------------------
(* The consumer. *)

ConsumerStep(pc, b, front) ==
    /\ consumer' = [pc |-> pc, block |-> b, front |-> front]
    /\ UNCHANGED <<blocking, producer, sent, destroyed>>

\* wait_dequeue first waits for the semaphore.
Wait ==
    /\ blocking
    /\ ~destroyed
    /\ consumer.pc = "idle"
    /\ \/ LoadCount
       \/ TakeCount
       \/ DecrementCount
       \/ Sleep
    /\ UNCHANGED <<blocking, queueVars, producer, consumer, sent, received, destroyed>>

\* try_dequeue: is there something in the front block?
Dequeue ==
    /\ consumer.pc = "idle"
    /\ ~destroyed
    /\ blocking => waiter = "got"
    /\ waiter' = "out"
    /\ LET b == frontBlock
           front == blocks[b].front
       IN  IF front # blocks[b].localTail
           THEN /\ ConsumerStep("move", b, front)
                /\ UNCHANGED blocks
           ELSE /\ blocks' = [blocks EXCEPT ![b].localTail = blocks[b].tail]
                /\ ConsumerStep(IF front # blocks[b].tail THEN "move" ELSE "empty", b, front)
    /\ UNCHANGED <<frontBlock, tailBlock, largestBlockSize, received, m_count, m_sema, oldCount>>

\* The front block looked empty.  If it is the tail block, so is the queue.
Empty ==
    /\ consumer.pc = "empty"
    /\ IF frontBlock # tailBlock
       THEN ConsumerStep("recheck", consumer.block, consumer.front)
       ELSE ConsumerStep(IF blocking THEN "failed" ELSE "idle", 0, 0)
    /\ UNCHANGED <<queueVars, received, semaphoreVars>>

\* A variant: the front block is not looked at again.
RecheckSkipped ==
    /\ consumer.pc = "recheck"
    /\ ConsumerStep("next", frontBlock, consumer.front)
    /\ UNCHANGED <<queueVars, received, semaphoreVars>>

\* It may have been filled before the tail moved on: look again.
Recheck ==
    /\ consumer.pc = "recheck"
    /\ LET b == frontBlock IN
         /\ blocks' = [blocks EXCEPT ![b].localTail = blocks[b].tail]
         /\ ConsumerStep(IF blocks[b].front # blocks[b].tail THEN "move" ELSE "next",
                         b, blocks[b].front)
    /\ UNCHANGED <<frontBlock, tailBlock, largestBlockSize, received, semaphoreVars>>

\* Go on to the next block, which has an element: the code asserts it.
NextBlock ==
    /\ consumer.pc = "next"
    /\ LET n == blocks[consumer.block].next IN
         /\ blocks' = [blocks EXCEPT ![n].localTail = blocks[n].tail]
         /\ ConsumerStep(IF blocks[n].front # blocks[n].tail THEN "hop" ELSE "failed",
                         n, blocks[n].front)
    /\ UNCHANGED <<frontBlock, tailBlock, largestBlockSize, received, semaphoreVars>>

Hop ==
    /\ consumer.pc = "hop"
    /\ frontBlock' = consumer.block
    /\ ConsumerStep("move", consumer.block, consumer.front)
    /\ UNCHANGED <<blocks, tailBlock, largestBlockSize, received, semaphoreVars>>

\* Take the element and destroy it, then let the producer have the slot.
Move ==
    /\ consumer.pc = "move"
    /\ LET b == consumer.block IN
         /\ received' = Append(received, blocks[b].data[consumer.front])
         /\ blocks' = [blocks EXCEPT ![b].data[consumer.front] = Raw]
         /\ ConsumerStep("release", b, consumer.front)
    /\ UNCHANGED <<frontBlock, tailBlock, largestBlockSize, semaphoreVars>>

Release ==
    /\ consumer.pc = "release"
    /\ LET b == consumer.block IN
         blocks' = [blocks EXCEPT ![b].front = After(b, consumer.front)]
    /\ ConsumerStep("idle", 0, 0)
    /\ UNCHANGED <<frontBlock, tailBlock, largestBlockSize, received, semaphoreVars>>

ConsumerThread ==
    Wait \/ Dequeue \/ Empty \/ Recheck \/ NextBlock \/ Hop \/ Move \/ Release

\* The slots of block b between front and tail.
Used(b) == {i \in 0..blocks[b].size - 1 :
              (i - blocks[b].front) % blocks[b].size <
                (blocks[b].tail - blocks[b].front) % blocks[b].size}

\* The destructor, when the consumer has been joined: the rest is destroyed.
Destroy ==
    /\ ~destroyed
    /\ producer.pc = "idle"
    /\ consumer.pc = "idle"
    /\ waiter = "out"
    /\ destroyed' = TRUE
    /\ blocks' = [b \in DOMAIN blocks |->
                    [blocks[b] EXCEPT !.data =
                       [i \in DOMAIN @ |-> IF i \in Used(b) THEN Raw ELSE @[i]]]]
    /\ UNCHANGED <<blocking, frontBlock, tailBlock, largestBlockSize, producer, consumer,
                   sent, received, semaphoreVars>>

Next == Enqueue \/ ProducerThread \/ ConsumerThread \/ Destroy

\* The threads run; nobody has to enqueue anything or to destroy the queue.
Spec ==
    /\ Init
    /\ [][Next]_vars
    /\ WF_vars(ProducerThread)
    /\ WF_vars(ConsumerThread)

-----------------------------------------------------------------------------
(* Properties *)

\* The blocks from the consumer's to the producer's.
Hops == [k \in 0..Len(blocks) |->
           LET f[i \in 0..Len(blocks)] == IF i = 0 THEN frontBlock ELSE blocks[f[i - 1]].next
           IN  f[k]]

Path == LET last == CHOOSE k \in 0..Len(blocks) :
                      Hops[k] = tailBlock /\ \A j \in 0..k - 1 : Hops[j] # tailBlock
        IN  [k \in 1..last + 1 |-> Hops[k - 1]]

\* The elements of block b that are in the queue, first to last.
Elements(b) ==
    LET from == IF consumer.pc = "release" /\ consumer.block = b
                THEN After(b, blocks[b].front) ELSE blocks[b].front
        n == (blocks[b].tail - from) % blocks[b].size
    IN  [k \in 1..n |-> blocks[b].data[(from + k - 1) % blocks[b].size]]

Contents == FlattenSeq([k \in DOMAIN Path |-> Elements(Path[k])])

ItemChannel == INSTANCE Channel WITH
    Producers <- {"Main"},
    Items <- Item,
    queue <- ("Main" :> IF destroyed THEN <<>> ELSE Contents),
    received <- ("Main" :> received),
    closed <- destroyed

\* The queue implements the channel its users rely on: nothing is lost,
\* doubled or reordered, and a waiting consumer is woken.
ImplementsChannel == ItemChannel!Spec

\* An element is constructed only in raw memory and moved only when it was
\* constructed; when the queue is gone no element is left behind.  The asserts
\* of the code hold: a consumer the semaphore let through finds an element, and
\* a block the producer takes again is empty.
SlotsAreOwned ==
    /\ consumer.pc # "failed"
    /\ producer.pc = "reuse" => blocks[producer.block].front = blocks[producer.block].tail
    /\ producer.pc \in {"store", "reuse"} =>
         blocks[producer.block].data[blocks[producer.block].tail] = Raw
    /\ consumer.pc = "move" => blocks[consumer.block].data[consumer.front] # Raw
    /\ destroyed => \A b \in DOMAIN blocks : \A i \in DOMAIN blocks[b].data :
                       blocks[b].data[i] = Raw

=============================================================================

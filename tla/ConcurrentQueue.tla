--------------------------- MODULE ConcurrentQueue ---------------------------
(***************************************************************************)
(* moodycamel::ConcurrentQueue and BlockingConcurrentQueue, the event      *)
(* queue: any thread enqueues, without a token, and the main thread takes  *)
(* with a consumer token.  Every enqueueing thread has an implicit         *)
(* producer of its own, kept in a lock-free list, whose elements lie in    *)
(* blocks found through a block index; emptied blocks go to a lock-free    *)
(* free list, from which all the producers take.                           *)
(*                                                                         *)
(* Every atomic access that another thread may interfere with is a step.   *)
(* There is one consumer, so dequeueOptimisticCount is headIndex and       *)
(* nothing is ever overcommitted; there are fewer threads than half the    *)
(* initial hash table, so it is never resized, and a thread's entry is its *)
(* own.  Memory allocation does not fail.                                  *)
(***************************************************************************)
EXTENDS LightweightSemaphore, Sequences, FiniteSets

CONSTANTS
    Producers,      \* the threads that dispatch events
    MaxItems,       \* bound: items each of them enqueues
    BLOCK_SIZE, IMPLICIT_INITIAL_INDEX_SIZE, initialBlockPoolSize,
    CONSUMPTION_QUOTA   \* EXPLICIT_CONSUMER_CONSUMPTION_QUOTA_BEFORE_ROTATE

ASSUME ConcurrentQueueAssumption ==
    /\ MaxItems \in [Producers -> Nat]
    /\ BLOCK_SIZE \in {2, 4}
    /\ IMPLICIT_INITIAL_INDEX_SIZE \in {2, 4}
    /\ initialBlockPoolSize \in Nat
    /\ CONSUMPTION_QUOTA \in Nat \ {0}

VARIABLES
    implicit,       \* the implicit producers: indices, tail block, block index
    blocks,         \* the blocks, by address
    producerListTail, nextProd, producerCount,
    initialBlockPoolIndex,
    freeListHead,
    token,          \* the consumer token
    globalExplicitConsumerOffset,
    local,          \* where each thread is, and its local variables
    sent,           \* items each producer began to enqueue
    received,       \* items the consumer took from each producer
    freed,          \* the blocks the destructor gave to the free list
    destroyed

listVars == <<producerListTail, nextProd, producerCount>>
consumerVars == <<token, globalExplicitConsumerOffset, received>>
vars == <<implicit, blocks, listVars, initialBlockPoolIndex, freeListHead, consumerVars,
          local, sent, freed, destroyed, semaphoreVars>>

Consumer == "Consumer"
Threads == Producers \cup {Consumer}
None == "nullptr"
Null == 0
Raw == 0

\* The block base index no block has.
INVALID_BLOCK_BASE == 1

\* The bit of freeListRefs, here above any count of references.
SHOULD_BE_ON_FREELIST == 16

NewBlock == [data |-> [i \in 0..BLOCK_SIZE - 1 |-> Raw], elementsCompletelyDequeued |-> 0,
             freeListRefs |-> 0, freeListNext |-> Null]

\* ImplicitProducer with its first block index.
NewProducer ==
    [tailIndex |-> 0, headIndex |-> 0, tailBlock |-> Null,
     entries |-> [e \in 1..IMPLICIT_INITIAL_INDEX_SIZE |->
                    [key |-> INVALID_BLOCK_BASE, value |-> Null]],
     blockIndex |-> <<[tail |-> IMPLICIT_INITIAL_INDEX_SIZE - 1,
                       index |-> [i \in 0..IMPLICIT_INITIAL_INDEX_SIZE - 1 |-> i + 1]]>>]

Idle == [pc |-> "idle", block |-> Null, head |-> Null, next |-> Null, ptr |-> None,
         tail |-> None]

\* ConsumerToken: no producer yet, and an offset that is never current.
NewToken == [current |-> None, desired |-> None, last |-> -1, consumed |-> 0]

Init ==
    /\ implicit = [p \in Producers |-> NewProducer]
    /\ blocks = [b \in 1..initialBlockPoolSize |-> NewBlock]
    /\ producerListTail = None
    /\ nextProd = [p \in Producers |-> None]
    /\ producerCount = 0
    /\ initialBlockPoolIndex = 0
    /\ freeListHead = Null
    /\ token = NewToken
    /\ globalExplicitConsumerOffset = 0
    /\ local = [t \in Threads |-> Idle]
    /\ sent = [p \in Producers |-> 0]
    /\ received = [p \in Producers |-> <<>>]
    /\ freed = {}
    /\ destroyed = FALSE
    /\ InitSemaphore

At(t, pc) == local[t].pc = pc

Goto(t, pc) == local' = [local EXCEPT ![t] = IF pc = "idle" THEN Idle
                                             ELSE [local[t] EXCEPT !.pc = pc]]

-----------------------------------------------------------------------------
(* FreeList: the thread's node is in block, its copy of the head in head. *)

FreeListStep ==
    UNCHANGED <<implicit, listVars, initialBlockPoolIndex, consumerVars, sent, freed,
                destroyed, semaphoreVars>>

\* add: whoever brings the references to zero puts the node on the list.
Add(t, ret) ==
    /\ At(t, "add")
    /\ LET b == local[t].block IN
         /\ blocks' = [blocks EXCEPT ![b].freeListRefs = @ + SHOULD_BE_ON_FREELIST]
         /\ Goto(t, IF blocks[b].freeListRefs = 0 THEN "addHead" ELSE ret)
    /\ UNCHANGED freeListHead
    /\ FreeListStep

AddHead(t) ==
    /\ At(t, "addHead")
    /\ local' = [local EXCEPT ![t].pc = "addLink", ![t].head = freeListHead]
    /\ UNCHANGED <<freeListHead, blocks>>
    /\ FreeListStep

\* Nobody reads the link before there is a reference again.
AddLink(t) ==
    /\ At(t, "addLink")
    /\ blocks' = [blocks EXCEPT ![local[t].block].freeListNext = local[t].head,
                                ![local[t].block].freeListRefs = 1]
    /\ Goto(t, "addSwap")
    /\ UNCHANGED freeListHead
    /\ FreeListStep

AddSwap(t, ret) ==
    /\ At(t, "addSwap")
    /\ IF freeListHead = local[t].head
       THEN /\ freeListHead' = local[t].block
            /\ Goto(t, ret)
       ELSE /\ local' = [local EXCEPT ![t].pc = "addFailed", ![t].head = freeListHead]
            /\ UNCHANGED freeListHead
    /\ UNCHANGED blocks
    /\ FreeListStep

\* The head changed: try again if nobody else holds the node.
AddFailed(t, ret) ==
    /\ At(t, "addFailed")
    /\ LET b == local[t].block IN
         /\ blocks' = [blocks EXCEPT ![b].freeListRefs = @ + SHOULD_BE_ON_FREELIST - 1]
         /\ Goto(t, IF blocks[b].freeListRefs = 1 THEN "addLink" ELSE ret)
    /\ UNCHANGED freeListHead
    /\ FreeListStep

AddToFreeList(t, ret) ==
    Add(t, ret) \/ AddHead(t) \/ AddLink(t) \/ AddSwap(t, ret) \/ AddFailed(t, ret)

\* try_get: hold the head with a reference, then take it off.
GetHead(t) ==
    /\ At(t, "getHead")
    /\ local' = [local EXCEPT ![t].head = freeListHead,
                              ![t].pc = IF freeListHead = Null THEN "create" ELSE "getHold"]
    /\ UNCHANGED <<freeListHead, blocks>>
    /\ FreeListStep

\* When the exchange fails the head is read again, as if it had been read later.
GetHold(t) ==
    /\ At(t, "getHold")
    /\ LET h == local[t].head IN
         IF blocks[h].freeListRefs % SHOULD_BE_ON_FREELIST # 0
         THEN /\ blocks' = [blocks EXCEPT ![h].freeListRefs = @ + 1]
              /\ Goto(t, "getNext")
         ELSE /\ Goto(t, "getHead")
              /\ UNCHANGED blocks
    /\ UNCHANGED freeListHead
    /\ FreeListStep

GetNext(t) ==
    /\ At(t, "getNext")
    /\ local' = [local EXCEPT ![t].next = blocks[local[t].head].freeListNext,
                              ![t].pc = "getSwap"]
    /\ UNCHANGED <<freeListHead, blocks>>
    /\ FreeListStep

GetSwap(t) ==
    /\ At(t, "getSwap")
    /\ IF freeListHead = local[t].head
       THEN /\ freeListHead' = local[t].next
            /\ local' = [local EXCEPT ![t].pc = "getDone", ![t].block = local[t].head]
       ELSE /\ local' = [local EXCEPT ![t].pc = "getFailed", ![t].block = local[t].head,
                                      ![t].next = freeListHead]
            /\ UNCHANGED freeListHead
    /\ UNCHANGED blocks
    /\ FreeListStep

GetDone(t) ==
    /\ At(t, "getDone")
    /\ blocks' = [blocks EXCEPT ![local[t].block].freeListRefs = @ - 2]
    /\ Goto(t, "index")
    /\ UNCHANGED freeListHead
    /\ FreeListStep

\* Another took it off; the last to let go puts it back if it was freed again.
GetFailed(t) ==
    /\ At(t, "getFailed")
    /\ LET b == local[t].block IN
         /\ blocks' = [blocks EXCEPT ![b].freeListRefs = @ - 1]
         /\ Goto(t, IF blocks[b].freeListRefs = SHOULD_BE_ON_FREELIST + 1
                    THEN "addHead" ELSE "getAgain")
    /\ UNCHANGED freeListHead
    /\ FreeListStep

\* The loop goes on with the head the failed exchange read.
GetAgain(t) ==
    /\ At(t, "getAgain")
    /\ local' = [local EXCEPT ![t].head = local[t].next,
                              ![t].pc = IF local[t].next = Null THEN "create" ELSE "getHold"]
    /\ UNCHANGED <<freeListHead, blocks>>
    /\ FreeListStep

TryGet(t) ==
    GetHead(t) \/ GetHold(t) \/ GetNext(t) \/ GetSwap(t) \/ GetDone(t)
    \/ GetFailed(t) \/ GetAgain(t)

-----------------------------------------------------------------------------
(* A producer: get_or_add_implicit_producer, then ImplicitProducer::enqueue. *)

ProducerStep == UNCHANGED <<consumerVars, freed, destroyed>>

\* get_or_add_implicit_producer finds the thread's entry in the hash table, which
\* nobody else writes, if it was ever entered.
HasProducer(p) == sent[p] > 0

\* ImplicitProducer::enqueue: the last block is full.
NeedsBlock(p) == implicit[p].tailIndex % BLOCK_SIZE = 0

\* The first time the thread is a producer to be added; at the end of a block
\* a new one is needed.
Enqueue(p) ==
    /\ At(p, "idle")
    /\ ~destroyed
    /\ sent[p] < MaxItems[p]
    /\ sent' = [sent EXCEPT ![p] = @ + 1]
    /\ Goto(p, CASE ~HasProducer(p) -> "count"
                 [] HasProducer(p) /\ NeedsBlock(p) -> "insert"
                 [] OTHER -> "publish")
    /\ UNCHANGED <<implicit, blocks, listVars, initialBlockPoolIndex, freeListHead, semaphoreVars>>
    /\ ProducerStep

\* add_producer: counted first, then pushed on the list.
CountProducer(p) ==
    /\ At(p, "count")
    /\ producerCount' = producerCount + 1
    /\ local' = [local EXCEPT ![p].pc = "push", ![p].ptr = producerListTail]
    /\ UNCHANGED <<implicit, blocks, producerListTail, nextProd, initialBlockPoolIndex,
                   freeListHead, sent, semaphoreVars>>
    /\ ProducerStep

PushProducer(p) ==
    /\ At(p, "push")
    /\ IF producerListTail = local[p].ptr
       THEN /\ producerListTail' = p
            /\ nextProd' = [nextProd EXCEPT ![p] = local[p].ptr]
            /\ local' = [local EXCEPT ![p].pc = "insert", ![p].ptr = None]
       ELSE /\ local' = [local EXCEPT ![p].ptr = producerListTail]
            /\ UNCHANGED <<producerListTail, nextProd>>
    /\ UNCHANGED <<implicit, blocks, producerCount, initialBlockPoolIndex, freeListHead, sent,
                   semaphoreVars>>
    /\ ProducerStep

\* The block index the producer writes, and the slot it fills next.
Header(p) == implicit[p].blockIndex[Len(implicit[p].blockIndex)]
Capacity(header) == Cardinality(DOMAIN header.index)
NewTail(p) == (Header(p).tail + 1) % Capacity(Header(p))

\* new_block_index: twice as many slots, the old entries first, oldest to newest.
GrownIndex(header) ==
    [tail |-> Capacity(header) - 1,
     index |-> [i \in 0..2 * Capacity(header) - 1 |->
                  IF i < Capacity(header)
                  THEN header.index[(header.tail + 1 + i) % Capacity(header)]
                  ELSE i + 1]]

\* insert_block_index_entry: reuse an entry whose block was emptied, or grow.
InsertEntry(p) ==
    /\ At(p, "insert")
    /\ LET e == Header(p).index[NewTail(p)]
           entry == implicit[p].entries[e]
       IN  IF entry.key = INVALID_BLOCK_BASE \/ entry.value = Null
           THEN /\ implicit' = [implicit EXCEPT ![p].entries[e].key = implicit[p].tailIndex,
                     ![p].blockIndex[Len(implicit[p].blockIndex)].tail = NewTail(p)]
                /\ Goto(p, "requisition")
           ELSE /\ implicit' = [implicit EXCEPT
                     ![p].blockIndex = Append(@, GrownIndex(Header(p))),
                     ![p].entries = @ \o [i \in 1..Capacity(Header(p)) |->
                                             [key |-> INVALID_BLOCK_BASE, value |-> Null]]]
                /\ UNCHANGED local
    /\ UNCHANGED <<blocks, listVars, initialBlockPoolIndex, freeListHead, sent, semaphoreVars>>
    /\ ProducerStep

\* requisition_block: from the initial pool, else from the free list, else a new one.
Requisition(p) ==
    /\ At(p, "requisition")
    /\ IF initialBlockPoolIndex < initialBlockPoolSize
       THEN /\ initialBlockPoolIndex' = initialBlockPoolIndex + 1
            /\ local' = [local EXCEPT ![p].pc = "index", ![p].block = initialBlockPoolIndex + 1]
       ELSE /\ Goto(p, "getHead")
            /\ UNCHANGED initialBlockPoolIndex
    /\ UNCHANGED <<implicit, blocks, listVars, freeListHead, sent, semaphoreVars>>
    /\ ProducerStep

CreateBlock(p) ==
    /\ At(p, "create")
    /\ blocks' = Append(blocks, NewBlock)
    /\ local' = [local EXCEPT ![p].pc = "index", ![p].block = Len(blocks) + 1]
    /\ UNCHANGED <<implicit, listVars, initialBlockPoolIndex, freeListHead, sent, semaphoreVars>>
    /\ ProducerStep

\* reset_empty, and the block is entered in the index.
IndexBlock(p) ==
    /\ At(p, "index")
    /\ LET b == local[p].block
           e == Header(p).index[Header(p).tail]
       IN  /\ blocks' = [blocks EXCEPT ![b].elementsCompletelyDequeued = 0]
           /\ implicit' = [implicit EXCEPT ![p].entries[e].value = b, ![p].tailBlock = b]
           /\ local' = [local EXCEPT ![p] = [Idle EXCEPT !.pc = "publish"]]
    /\ UNCHANGED <<listVars, initialBlockPoolIndex, freeListHead, sent, semaphoreVars>>
    /\ ProducerStep

\* The element is constructed where nobody looks, and published with the tail.
Publish(p) ==
    /\ At(p, "publish")
    /\ blocks' = [blocks EXCEPT
         ![implicit[p].tailBlock].data[implicit[p].tailIndex % BLOCK_SIZE] = sent[p]]
    /\ implicit' = [implicit EXCEPT ![p].tailIndex = @ + 1]
    /\ Goto(p, "signal")
    /\ UNCHANGED <<listVars, initialBlockPoolIndex, freeListHead, sent, semaphoreVars>>
    /\ ProducerStep

\* BlockingConcurrentQueue::enqueue signals when the element is in.
Signal(p) ==
    /\ At(p, "signal")
    /\ SignalCount
    /\ Goto(p, IF MustPost THEN "post" ELSE "idle")
    /\ UNCHANGED <<implicit, blocks, listVars, initialBlockPoolIndex, freeListHead, sent>>
    /\ ProducerStep

Post(p) ==
    /\ At(p, "post")
    /\ PostSemaphore
    /\ Goto(p, "idle")
    /\ UNCHANGED <<implicit, blocks, listVars, initialBlockPoolIndex, freeListHead, sent>>
    /\ ProducerStep

ProducerThread(p) ==
    \/ CountProducer(p) \/ PushProducer(p)
    \/ InsertEntry(p) \/ Requisition(p) \/ TryGet(p)
    \/ AddToFreeList(p, "getAgain")
    \/ CreateBlock(p) \/ IndexBlock(p) \/ Publish(p) \/ Signal(p) \/ Post(p)

-----------------------------------------------------------------------------
(* The consumer: wait_dequeue(token, item).  Its local variables are ptr (the
   producer it looks at), head (an index, then a position in the block index),
   next (a block index) and block. *)

ConsumerStep == UNCHANGED <<listVars, initialBlockPoolIndex, freeListHead, sent, freed, destroyed>>

Wait ==
    /\ At(Consumer, "idle")
    /\ ~destroyed
    /\ LoadCount \/ TakeCount \/ DecrementCount \/ Sleep
    /\ UNCHANGED <<implicit, blocks, consumerVars, local>>
    /\ ConsumerStep

\* try_dequeue: has there been a rotation?
TryDequeue ==
    /\ At(Consumer, "idle")
    /\ waiter = "got"
    /\ waiter' = "out"
    /\ IF token.desired = None \/ token.last # globalExplicitConsumerOffset
       THEN local' = [local EXCEPT ![Consumer].pc = "rotate", ![Consumer].ptr = producerListTail]
       ELSE local' = [local EXCEPT ![Consumer].pc = "try", ![Consumer].ptr = token.current]
    /\ UNCHANGED <<implicit, blocks, consumerVars, m_count, m_sema, oldCount>>
    /\ ConsumerStep

\* The producer n places on in the list, which starts again at tail.
Walk(from, n, tail) ==
    LET f[i \in 0..n] == IF i = 0 THEN from
                         ELSE IF nextProd[f[i - 1]] = None THEN tail ELSE nextProd[f[i - 1]]
    IN  f[n]

\* update_current_producer_after_rotation; the first time, from the initial offset 0.
Rotate ==
    /\ At(Consumer, "rotate")
    /\ LET tail == local[Consumer].ptr
           start == IF token.desired = None THEN Walk(tail, producerCount - 1, tail)
                                            ELSE token.desired
           delta == globalExplicitConsumerOffset - token.last
           desired == Walk(start, delta % producerCount, tail)
       IN  IF tail = None
           THEN /\ Goto(Consumer, "failed")
                /\ UNCHANGED token
           ELSE /\ token' = [current |-> desired, desired |-> desired,
                             last |-> globalExplicitConsumerOffset, consumed |-> 0]
                /\ local' = [local EXCEPT ![Consumer].pc = "try", ![Consumer].ptr = desired]
    /\ UNCHANGED <<implicit, blocks, globalExplicitConsumerOffset, received, semaphoreVars>>
    /\ ConsumerStep

IsEmpty(p) == implicit[p].headIndex >= implicit[p].tailIndex

\* The current producer, then each other once around the list.
TryNext ==
    /\ At(Consumer, "try")
    /\ IsEmpty(local[Consumer].ptr)
    /\ LET ptr == local[Consumer].ptr
           tail == IF ptr = token.current THEN producerListTail ELSE local[Consumer].tail
           next == IF nextProd[ptr] = None THEN tail ELSE nextProd[ptr]
       IN  local' = [local EXCEPT ![Consumer].ptr = next, ![Consumer].tail = tail,
                                  ![Consumer].pc = IF next = token.current THEN "failed" ELSE "try"]
    /\ UNCHANGED <<implicit, blocks, consumerVars, semaphoreVars>>
    /\ ConsumerStep

\* ImplicitProducer::dequeue: claim an index; the token counts what it took.
Claim ==
    /\ At(Consumer, "try")
    /\ ~IsEmpty(local[Consumer].ptr)
    /\ LET p == local[Consumer].ptr IN
         /\ implicit' = [implicit EXCEPT ![p].headIndex = @ + 1]
         /\ local' = [local EXCEPT ![Consumer].pc = "tail",
                                   ![Consumer].tail = None,
                                   ![Consumer].head = implicit[p].headIndex]
         /\ IF p = token.current
            THEN /\ token' = [token EXCEPT !.consumed = @ + 1]
                 /\ globalExplicitConsumerOffset' = globalExplicitConsumerOffset +
                      (IF token.consumed + 1 = CONSUMPTION_QUOTA THEN 1 ELSE 0)
            ELSE /\ token' = [token EXCEPT !.current = p, !.consumed = 1]
                 /\ UNCHANGED globalExplicitConsumerOffset
    /\ UNCHANGED <<blocks, received, semaphoreVars>>
    /\ ConsumerStep

\* get_block_index_index_for_index: the index in use and its tail.  The tail of
\* an index that was replaced does not move, so the two loads are one step.
LoadTail ==
    /\ At(Consumer, "tail")
    /\ LET index == implicit[local[Consumer].ptr].blockIndex IN
         local' = [local EXCEPT ![Consumer].pc = "entry", ![Consumer].next = Len(index),
                                ![Consumer].block = index[Len(index)].tail]
    /\ UNCHANGED <<implicit, blocks, consumerVars, semaphoreVars>>
    /\ ConsumerStep

BlockBase(index) == BLOCK_SIZE * (index \div BLOCK_SIZE)

\* The entry of the block: counted back from the tail.  The code asserts its key.
FindEntry ==
    /\ At(Consumer, "entry")
    /\ LET me == local[Consumer]
           p == implicit[me.ptr]
           header == p.blockIndex[me.next]
           offset == (p.entries[header.index[me.block]].key - BlockBase(me.head)) \div BLOCK_SIZE
           e == header.index[(me.block - offset) % Capacity(header)]
       IN  local' = [local EXCEPT ![Consumer].next = e,
             ![Consumer].pc = IF p.entries[e].key = BlockBase(me.head) /\ p.entries[e].value # Null
                              THEN "move" ELSE "failed"]
    /\ UNCHANGED <<implicit, blocks, consumerVars, semaphoreVars>>
    /\ ConsumerStep

\* Block::set_empty: is the element that is taken the last of its block?
set_empty(b) == blocks[b].elementsCompletelyDequeued = BLOCK_SIZE - 1

\* Move the element out and destroy it; set_empty: was it the block's last?
Move ==
    /\ At(Consumer, "move")
    /\ LET me == local[Consumer]
           b == implicit[me.ptr].entries[me.next].value
           i == me.head % BLOCK_SIZE
       IN  /\ received' = [received EXCEPT ![me.ptr] = Append(@, blocks[b].data[i])]
           /\ blocks' = [blocks EXCEPT ![b].data[i] = Raw,
                                       ![b].elementsCompletelyDequeued = @ + 1]
           /\ local' = [local EXCEPT ![Consumer] =
                IF set_empty(b)
                THEN [me EXCEPT !.pc = "unindex", !.block = b] ELSE Idle]
    /\ UNCHANGED <<implicit, token, globalExplicitConsumerOffset, semaphoreVars>>
    /\ ConsumerStep

\* The entry is given up before the block is.
Unindex ==
    /\ At(Consumer, "unindex")
    /\ implicit' = [implicit EXCEPT ![local[Consumer].ptr].entries[local[Consumer].next].value = Null]
    /\ local' = [local EXCEPT ![Consumer] = [Idle EXCEPT !.pc = "add", !.block = local[Consumer].block]]
    /\ UNCHANGED <<blocks, consumerVars, semaphoreVars>>
    /\ ConsumerStep

ConsumerThread ==
    \/ Wait \/ TryDequeue \/ Rotate \/ TryNext \/ Claim
    \/ LoadTail \/ FindEntry \/ Move \/ Unindex
    \/ AddToFreeList(Consumer, "idle")

-----------------------------------------------------------------------------
(* The destructor, when every thread is done with the queue. *)

\* The block of the element with an index, or nothing when it has been given up.
BlockAt(p, index) ==
    LET es == {e \in DOMAIN implicit[p].entries :
                 /\ implicit[p].entries[e].key = BlockBase(index)
                 /\ implicit[p].entries[e].value # Null}
    IN  IF es = {} THEN Null ELSE implicit[p].entries[CHOOSE e \in es : TRUE].value

\* ~ImplicitProducer: the blocks of the elements left, but the tail block only
\* when it is in use; the emptied ones are on the free list already.
Leftover(p) == implicit[p].headIndex..implicit[p].tailIndex - 1

\* A variant: the tail block is freed whether or not it was already.
FreedBlocksAlways(p) ==
    LET me == implicit[p]
        bases == {i \in Leftover(p) : i = me.headIndex \/ i % BLOCK_SIZE = 0}
        early == {i \in bases : \E j \in bases : j > i}
    IN  {[producer |-> p, index |-> i, block |-> BlockAt(p, i)] : i \in early} \cup
        (IF me.tailBlock # Null
         THEN {[producer |-> p, index |-> me.tailIndex, block |-> me.tailBlock]} ELSE {})

FreedBlocks(p) ==
    LET me == implicit[p]
        bases == {i \in Leftover(p) : i = me.headIndex \/ i % BLOCK_SIZE = 0}
        early == {i \in bases : \E j \in bases : j > i}
    IN  {[producer |-> p, index |-> i, block |-> BlockAt(p, i)] : i \in early} \cup
        (IF me.tailBlock # Null /\ (Leftover(p) # {} \/ me.tailIndex % BLOCK_SIZE # 0)
         THEN {[producer |-> p, index |-> me.tailIndex, block |-> me.tailBlock]} ELSE {})

Destroy ==
    /\ ~destroyed
    /\ waiter = "out"
    /\ \A t \in Threads : At(t, "idle")
    /\ destroyed' = TRUE
    /\ freed' = UNION {FreedBlocks(p) : p \in Producers}
    /\ blocks' = [b \in DOMAIN blocks |->
         [blocks[b] EXCEPT !.data = [i \in DOMAIN @ |->
            IF \E p \in Producers : \E k \in Leftover(p) :
                  BlockAt(p, k) = b /\ k % BLOCK_SIZE = i
            THEN Raw ELSE @[i]]]]
    /\ UNCHANGED <<implicit, listVars, initialBlockPoolIndex, freeListHead, consumerVars,
                   local, sent, semaphoreVars>>

Next ==
    \/ \E p \in Producers : Enqueue(p) \/ ProducerThread(p)
    \/ ConsumerThread
    \/ Destroy

\* Every thread runs; nobody has to dispatch an event or to destroy the queue.
Spec ==
    /\ Init
    /\ [][Next]_vars
    /\ \A p \in Producers : WF_vars(ProducerThread(p))
    /\ WF_vars(ConsumerThread)

-----------------------------------------------------------------------------
(* Properties *)

\* The first index of p that was not moved out yet.
First(p) == IF local[Consumer].ptr = p /\ local[Consumer].pc \in {"tail", "entry", "move"}
            THEN local[Consumer].head ELSE implicit[p].headIndex

Contents(p) ==
    [k \in 1..implicit[p].tailIndex - First(p) |->
       LET i == First(p) + k - 1 IN blocks[BlockAt(p, i)].data[i % BLOCK_SIZE]]

EventChannel == INSTANCE Channel WITH
    Items <- UNION {1..MaxItems[p] : p \in Producers},
    queue <- [p \in Producers |-> IF destroyed THEN <<>> ELSE Contents(p)],
    closed <- destroyed

\* The event queue implements the channel EventSystem relies on: what a thread
\* dispatches arrives once and in its order, and the main thread is woken for it.
ImplementsChannel == EventChannel!Spec

\* The blocks on the free list, from its head.
OnFreeList ==
    LET f[i \in 0..Len(blocks)] == IF i = 0 THEN freeListHead
                                   ELSE IF f[i - 1] = Null THEN Null
                                   ELSE blocks[f[i - 1]].freeListNext
    IN  [i \in {j \in 0..Len(blocks) : f[j] # Null} |-> f[i]]

InUse == {b \in DOMAIN blocks :
            \E p \in Producers : \E e \in DOMAIN implicit[p].entries :
               implicit[p].entries[e].value = b}

\* A block has one owner: it is indexed once, by one producer, or it is on the
\* free list once; a consumer the semaphore let through finds an element in one
\* round over the producers, in the block that the index names; when the queue is
\* gone every block the producers had is given back exactly once and no element is
\* left behind.
BlocksAreOwned ==
    /\ ~At(Consumer, "failed")
    /\ \A b \in InUse : \A i \in DOMAIN OnFreeList : OnFreeList[i] # b
    /\ \A p, q \in Producers : \A d \in DOMAIN implicit[p].entries, e \in DOMAIN implicit[q].entries :
         /\ implicit[p].entries[d].value = implicit[q].entries[e].value
         /\ implicit[p].entries[d].value # Null
         => p = q /\ d = e
    /\ destroyed =>
         /\ \A b \in DOMAIN blocks : \A i \in DOMAIN blocks[b].data : blocks[b].data[i] = Raw
         /\ \A b \in (DOMAIN blocks) \ (initialBlockPoolIndex + 1..initialBlockPoolSize) :
              Cardinality({i \in DOMAIN OnFreeList : OnFreeList[i] = b})
                + Cardinality({f \in freed : f.block = b}) = 1

=============================================================================

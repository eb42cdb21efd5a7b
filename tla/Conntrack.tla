----------------------------- MODULE Conntrack -----------------------------
(***************************************************************************)
(* Conntrack (Collector_Netfilter): follows the kernel's connection table. *)
(* The kernel reports new and destroyed connections over a netlink socket, *)
(* which may overflow; once per second onUpdate applies the reported       *)
(* events to the storage and dumps the table, to refill the storage or to  *)
(* update its numbers.  The kernel goes on while the dump is read.         *)
(*                                                                         *)
(* In server mode the storage is written through a serializer that records *)
(* the differences (ConnectionUpdateSerializer); otherwise the user may    *)
(* pause the collector.                                                    *)
(***************************************************************************)
EXTENDS ConnectionData

CONSTANTS
    Conns,              \* connections (pairs of addresses and ports)
    RawStates,          \* the kernel's states that occur
    SocketCapacity,     \* events that fit into the netlink socket
    MaxKernelSteps,     \* bound: changes of the kernel's table
    MaxCommands         \* bound: the user pauses or resumes

ASSUME ConntrackAssumption ==
    /\ RawStates \subseteq RawState
    /\ SocketCapacity \in Nat /\ MaxKernelSteps \in Nat /\ MaxCommands \in Nat

Event == [type : {"NEW", "DESTROY"}, conn : Conns]

\* A serialized difference, or a SerializedMessage without content.
Difference(seq) == [isEmpty |-> FALSE, items |-> seq]
NoDifference == [isEmpty |-> TRUE, items |-> <<>>]

VARIABLES
    table,              \* the kernel: connection table
    socket,             \* the kernel: events in the netlink socket
    overrun,            \* the kernel: the socket's error is ENOBUFS
    congested,          \* the kernel: it drops events until the socket is empty
    reported,           \* flags of the PollEvent in the event queue ({}: none)
    eventQueue,         \* m_eventQueue
    isRefillRequired,   \* m_isRefillRequired
    isPaused,           \* m_isPaused
    isServer,           \* server mode, does not change
    known,              \* connections whose addresses and ports are in the storage
    storage,            \* ConnectionStorage
    todo,               \* onUpdate: connections the dump has not come to yet
    activity,           \* the main thread: "idle", or in nfct_catch, m_eventQueue's loop or nfct_query
    serializing,        \* m_isSerializationEnabled
    items,              \* UpdateSerializer: the items of the next difference
    serialized,         \* m_serializedConnectionUpdates
    failed,             \* the call whose exception ended the program, or "no"
    before,             \* history: the storage at the previous update
    suspect,            \* history: an event was dropped unreported, or while an earlier one was unread
    budget

kernel == <<table, socket, overrun, congested>>
server == <<isServer, serializing, items, serialized, before>>
vars == <<kernel, reported, eventQueue, isRefillRequired, isPaused, known, storage, todo, activity,
          server, failed, suspect, budget>>

IsItem(item) ==
    /\ item.action \in {"CREATE", "UPDATE", "REMOVE"}
    /\ item.conn \in Conns
    /\ DOMAIN item.values \subseteq EConnectionUpdateFlags

TypeOK ==
    /\ DOMAIN table \subseteq Conns /\ table \in [DOMAIN table -> Entry]
    /\ socket \in Seq(Event) /\ Len(socket) <= SocketCapacity
    /\ overrun \in BOOLEAN /\ congested \in BOOLEAN
    /\ reported \subseteq {"INPUT", "ERROR"}
    /\ eventQueue \in Seq(Event)
    /\ isRefillRequired \in BOOLEAN
    /\ isPaused \in BOOLEAN
    /\ isServer \in BOOLEAN
    /\ known \subseteq Conns
    /\ DOMAIN storage \subseteq known /\ storage \in [DOMAIN storage -> Data]
    /\ todo \subseteq Conns
    /\ activity \in {"idle", "catch", "events", "dump"}
    /\ serializing \in BOOLEAN
    /\ \A i \in DOMAIN items : IsItem(items[i])
    /\ serialized.isEmpty \in BOOLEAN
    /\ \A i \in DOMAIN serialized.items : IsItem(serialized.items[i])
    /\ failed \in {"no", "poll", "catch", "dump"}
    /\ DOMAIN before \subseteq known /\ before \in [DOMAIN before -> Data]
    /\ suspect \subseteq Conns
    /\ budget \in [kernel : 0..MaxKernelSteps, commands : 0..MaxCommands]

Init ==
    /\ table \in UNION {[live -> [raw : RawStates, bytes : {0}]] : live \in SUBSET Conns}
    /\ socket = <<>>
    /\ overrun = FALSE
    /\ congested = FALSE
    /\ reported = {}
    /\ eventQueue = <<>>
    /\ isRefillRequired = TRUE
    /\ isPaused = FALSE
    /\ isServer \in BOOLEAN
    /\ known = {}
    /\ storage = EmptyStorage
    /\ todo = {}
    /\ activity = "idle"
    /\ serializing = isServer
    /\ items = <<>>
    /\ serialized = NoDifference
    /\ failed = "no"
    /\ before = EmptyStorage
    /\ suspect = {}
    /\ budget = [kernel |-> MaxKernelSteps, commands |-> MaxCommands]

-----------------------------------------------------------------------------
(***************************************************************************)
(* The kernel.  When an event does not fit into the socket, the next read  *)
(* from it fails with ENOBUFS, once; this event and those that follow are  *)
(* dropped until the socket has been emptied.                              *)
(***************************************************************************)
Mentions(q, c) == \E i \in DOMAIN q : q[i].conn = c

KernelStep ==
    /\ budget.kernel > 0
    /\ budget' = [budget EXCEPT !.kernel = @ - 1]
    /\ UNCHANGED <<reported, eventQueue, isRefillRequired, isPaused, known, storage, todo, activity,
                   server, failed>>

Emit(type, c) ==
    IF Len(socket) < SocketCapacity /\ ~congested
    THEN /\ socket' = Append(socket, [type |-> type, conn |-> c])
         /\ UNCHANGED <<overrun, congested, suspect>>
    ELSE /\ overrun' = (overrun \/ ~congested)
         /\ congested' = TRUE
         /\ suspect' = IF Mentions(socket, c) \/ ~overrun' THEN suspect \cup {c} ELSE suspect
         /\ UNCHANGED socket

KernelNew(c) ==
    /\ KernelStep
    /\ c \notin DOMAIN table
    /\ \E raw \in RawStates :
         table' = [d \in DOMAIN table \cup {c} |->
                     IF d = c THEN [raw |-> raw, bytes |-> 0] ELSE table[d]]
    /\ Emit("NEW", c)

KernelDestroy(c) ==
    /\ KernelStep
    /\ c \in DOMAIN table
    /\ table' = [d \in DOMAIN table \ {c} |-> table[d]]
    /\ Emit("DESTROY", c)

\* Traffic is not reported.
KernelTraffic(c) ==
    /\ KernelStep
    /\ c \in DOMAIN table
    /\ \E raw \in RawStates :
         table' = [table EXCEPT ![c] = [raw |-> raw, bytes |-> (@.bytes + 1) % CounterMod]]
    /\ UNCHANGED <<socket, overrun, congested, suspect>>

-----------------------------------------------------------------------------
(***************************************************************************)
(* The event socket.                                                       *)
(***************************************************************************)
MainIdle == failed = "no" /\ activity = "idle"

\* The poll thread reports the socket; it is one-shot.
PollSocket ==
    /\ failed = "no"
    /\ reported = {}
    /\ socket # <<>> \/ overrun
    /\ reported' = {"INPUT"} \cup (IF overrun THEN {"ERROR"} ELSE {})
    /\ UNCHANGED <<kernel, eventQueue, isRefillRequired, isPaused, known, storage, todo, activity,
                   server, failed, suspect, budget>>

\* EventPollHandler calls nfct_catch, which reads until an error.
EventPollHandler ==
    /\ MainIdle
    /\ reported # {}
    /\ activity' = "catch"
    /\ UNCHANGED <<kernel, reported, eventQueue, isRefillRequired, isPaused, known, storage, todo,
                   server, failed, suspect, budget>>

\* Variant: the addresses of a new connection are only looked up.
handleEventKnown(e) ==
    IF e.conn \in known
    THEN eventQueue' = Append(eventQueue, e) /\ UNCHANGED known
    ELSE UNCHANGED <<eventQueue, known>>

(***************************************************************************)
(* handleEvent: the addresses and ports of a new connection are added to   *)
(* the storage; another event of unknown addresses or ports is ignored.    *)
(***************************************************************************)
handleEvent(e) ==
    IF e.type = "NEW" \/ e.conn \in known
    THEN eventQueue' = Append(eventQueue, e) /\ known' = known \cup {e.conn}
    ELSE UNCHANGED <<eventQueue, known>>

\* One event is read.  An error of the socket would come first.
EventCallback ==
    /\ failed = "no"
    /\ activity = "catch"
    /\ ~overrun /\ socket # <<>>
    /\ socket' = Tail(socket)
    /\ congested' = (congested /\ Len(socket) > 1)
    /\ IF isRefillRequired THEN UNCHANGED <<eventQueue, known>> ELSE handleEvent(Head(socket))
    /\ UNCHANGED <<table, overrun, reported, isRefillRequired, isPaused, storage, todo, activity,
                   server, failed, suspect, budget>>

\* Variant: a full buffer is treated like an empty one.
CaughtIgnoringOverrun ==
    /\ overrun' = FALSE
    /\ UNCHANGED <<isRefillRequired, suspect>>

\* nfct_catch fails with ENOBUFS or, when all was read, with EAGAIN.
Caught ==
    \/ /\ overrun
       /\ overrun' = FALSE
       /\ isRefillRequired' = TRUE
       /\ UNCHANGED suspect
    \/ /\ ~overrun /\ socket = <<>>
       /\ suspect' = IF isRefillRequired THEN {} ELSE suspect
       /\ UNCHANGED <<overrun, isRefillRequired>>

\* The rest of EventPollHandler: throw on ERROR, or reset the socket.
EventPollHandlerDone ==
    /\ failed = "no"
    /\ activity = "catch"
    /\ Caught
    /\ activity' = "idle"
    /\ reported' = {}
    /\ failed' = IF "ERROR" \in reported THEN "poll" ELSE "no"
    /\ UNCHANGED <<table, socket, congested, eventQueue, isPaused, known, storage, todo, server, budget>>

-----------------------------------------------------------------------------
(***************************************************************************)
(* ConnectionUpdateSerializer: changes of the storage, and the items that  *)
(* record them.                                                            *)
(***************************************************************************)
Record(c, data, action, flags) == IF serializing THEN Append(items, serialize(c, data, action, flags)) ELSE items

add(c, data) ==
    /\ storage' = addConnection(storage, c, data)
    /\ items' = IF c \in DOMAIN storage THEN items ELSE Record(c, data, "CREATE", {})

remove(c) ==
    /\ storage' = removeConnection(storage, c)
    /\ items' = IF c \in DOMAIN storage THEN Record(c, storage[c], "REMOVE", {}) ELSE items

clear ==
    /\ storage' = EmptyStorage
    /\ serializing' = FALSE
    /\ items' = <<>>

-----------------------------------------------------------------------------
\* The beginning of onUpdate: a refill clears the storage and forgets the events.
onUpdate ==
    /\ MainIdle
    /\ ~isPaused
    /\ \/ isRefillRequired /\ clear /\ eventQueue' = <<>>
       \/ ~isRefillRequired /\ UNCHANGED <<storage, serializing, items, eventQueue>>
    /\ before' = storage
    /\ activity' = "events"
    /\ UNCHANGED <<kernel, reported, isRefillRequired, isPaused, isServer, known, todo, serialized,
                   failed, suspect, budget>>

\* One event of m_eventQueue is applied.
applyEvent ==
    /\ failed = "no"
    /\ activity = "events" /\ eventQueue # <<>>
    /\ LET e == Head(eventQueue)
       IN  \/ e.type = "NEW" /\ add(e.conn, NewData)
           \/ e.type = "DESTROY" /\ remove(e.conn)
    /\ eventQueue' = Tail(eventQueue)
    /\ UNCHANGED <<kernel, reported, isRefillRequired, isPaused, isServer, known, todo, activity, serializing,
                   serialized, before, failed, suspect, budget>>

\* nfct_query is called.
dump ==
    /\ failed = "no"
    /\ activity = "events" /\ eventQueue = <<>>
    /\ activity' = "dump"
    /\ todo' = Conns
    /\ UNCHANGED <<kernel, reported, eventQueue, isRefillRequired, isPaused, known, storage, server,
                   failed, suspect, budget>>

\* Variant: the numbers are updated, but the change is not recorded if only the speed changed.
updateBytesOnly(c) ==
    LET flags == UpdateFlags(storage[c], table[c]) \ {"SPEED"}
        data == UpdatedData(storage[c], table[c])
    IN  /\ storage' = [storage EXCEPT ![c] = data]
        /\ items' = IF flags # {} THEN Record(c, data, "UPDATE", flags) ELSE items

update(c) ==
    LET flags == UpdateFlags(storage[c], table[c])
        data == UpdatedData(storage[c], table[c])
    IN  /\ storage' = [storage EXCEPT ![c] = data]
        /\ items' = IF flags # {} THEN Record(c, data, "UPDATE", flags) ELSE items

\* handleQuery for a connection in the table.
QueryEntry(c) ==
    \/ /\ isRefillRequired
       /\ known' = known \cup {c}
       /\ add(c, FilledData(table[c]))
    \/ /\ ~isRefillRequired /\ c \in DOMAIN storage
       /\ update(c)
       /\ UNCHANGED known
    \/ /\ ~isRefillRequired /\ c \notin DOMAIN storage
       /\ UNCHANGED <<known, storage, items>>

\* The dump comes to where c is in the table, or would be.
handleQuery(c) ==
    /\ failed = "no"
    /\ c \in todo
    /\ todo' = todo \ {c}
    /\ IF c \in DOMAIN table THEN QueryEntry(c) ELSE UNCHANGED <<known, storage, items>>
    /\ suspect' = IF isRefillRequired /\ ~Mentions(socket, c) THEN suspect \ {c} ELSE suspect
    /\ UNCHANGED <<kernel, reported, eventQueue, isRefillRequired, isPaused, isServer, activity, serializing,
                   serialized, before, failed, budget>>

\* The end of onUpdate, and of Server::onUpdate: a difference, if one was recorded.
updateDone ==
    /\ failed = "no"
    /\ activity = "dump" /\ todo = {}
    /\ activity' = "idle"
    /\ isRefillRequired' = FALSE
    /\ serialized' = IF serializing THEN Difference(items) ELSE NoDifference
    /\ items' = <<>>
    /\ UNCHANGED <<kernel, reported, eventQueue, isPaused, isServer, known, storage, todo, serializing, before,
                   failed, suspect, budget>>

\* nfct_catch or nfct_query fails with another error, and its caller throws.
Fail ==
    /\ failed = "no"
    /\ activity \in {"catch", "dump"}
    /\ failed' = activity
    /\ UNCHANGED <<kernel, reported, eventQueue, isRefillRequired, isPaused, known, storage, todo,
                   activity, server, suspect, budget>>

-----------------------------------------------------------------------------
\* A client requests differences (Server::onSessionDataRequest).
setSerializationEnabled ==
    /\ MainIdle
    /\ isServer
    /\ ~serializing
    /\ serializing' = TRUE
    /\ UNCHANGED <<kernel, reported, eventQueue, isRefillRequired, isPaused, isServer, known, storage, todo,
                   activity, items, serialized, failed, before, suspect, budget>>

\* The user pauses or resumes the collector.
setPaused ==
    /\ MainIdle
    /\ ~isServer
    /\ budget.commands > 0
    /\ budget' = [budget EXCEPT !.commands = @ - 1]
    /\ isPaused' = ~isPaused
    /\ isRefillRequired' = TRUE
    /\ UNCHANGED <<kernel, reported, eventQueue, known, storage, todo, activity, server, failed,
                   suspect>>

-----------------------------------------------------------------------------
Query == \E c \in Conns : handleQuery(c)

Next ==
    \/ \E c \in Conns : KernelNew(c) \/ KernelDestroy(c) \/ KernelTraffic(c)
    \/ PollSocket \/ EventPollHandler \/ EventCallback \/ EventPollHandlerDone
    \/ onUpdate \/ applyEvent \/ dump \/ Query \/ updateDone
    \/ Fail
    \/ setSerializationEnabled \/ setPaused

Spec == Init /\ [][Next]_vars

\* The timer runs, a reported socket is handled (the queue of events is FIFO), reading ends.
FairSpec ==
    /\ Spec
    /\ WF_vars(PollSocket)
    /\ SF_vars(EventPollHandler)
    /\ SF_vars(onUpdate)
    /\ WF_vars(EventCallback \/ EventPollHandlerDone)
    /\ WF_vars(applyEvent \/ dump \/ Query \/ updateDone)

-----------------------------------------------------------------------------
(***************************************************************************)
(* Properties.                                                             *)
(***************************************************************************)

(***************************************************************************)
(* What a sequence of events makes of a connection that was there, or not. *)
(***************************************************************************)
LastIs(q, c, type) ==
    \E i \in DOMAIN q :
        q[i].conn = c /\ q[i].type = type /\ \A j \in DOMAIN q : j > i => q[j].conn # c

After(q, c, was) == LastIs(q, c, "NEW") \/ (~Mentions(q, c) /\ was)

(***************************************************************************)
(* The storage follows the kernel's table: unless a refill is due, each    *)
(* connection is in the storage as in the table once the events that are   *)
(* queued or still in the socket have been applied, whatever the order of  *)
(* events, dumps, overruns and pauses (m_eventQueue, m_isRefillRequired).  *)
(* Excepted are connections of which an event was dropped while an earlier *)
(* one was in the socket, or after ENOBUFS and before the socket was       *)
(* emptied, which no error reports.                                        *)
(***************************************************************************)
Follows(c) == After(eventQueue \o socket, c, c \in DOMAIN storage) <=> c \in DOMAIN table

StorageFollowsTable ==
    failed = "no" /\ ~isRefillRequired /\ ~overrun => \A c \in Conns \ suspect : Follows(c)

\* What a client makes of the connections it has, item by item of a difference.
Replay(from, difference) ==
    LET after[n \in 0..Len(difference)] ==
            IF n = 0 THEN from ELSE Deserialize(after[n - 1], difference[n])
    IN  after[Len(difference)]

(***************************************************************************)
(* A difference reproduces the storage: a client that had the server's     *)
(* connections at the previous update and deserializes the items of the    *)
(* difference has those of this one, to the last number                    *)
(* (ConnectionUpdateSerializer, ConnectionData::serialize, Deserialize).   *)
(***************************************************************************)
DifferenceReproducesStorage ==
    activity = "idle" /\ ~serialized.isEmpty => Replay(before, serialized.items) = storage

(***************************************************************************)
(* When the kernel has come to rest, the storage becomes the table: same   *)
(* connections, same numbers, and a speed of zero.                         *)
(***************************************************************************)
Settled(c) ==
    /\ c \in DOMAIN storage <=> c \in DOMAIN table
    /\ c \in DOMAIN table => storage[c] = FilledData(table[c])

StorageSettles == <>[](isPaused \/ failed # "no" \/ \A c \in Conns \ suspect : Settled(c))

=============================================================================

------------------------------ MODULE DataSync ------------------------------
(***************************************************************************)
(* The server and its clients: Server, ServerContext, one ServerSession    *)
(* per client, the two directions of each TCP connection, and the clients. *)
(*                                                                         *)
(* The main thread of each process handles one event at a time, so each    *)
(* event (the update timer, a readable or writable socket, a user command) *)
(* is one action.  A poll handler called with INPUT and OUTPUT does the    *)
(* work of the two actions one after the other.                            *)
(***************************************************************************)
EXTENDS Protocol, FiniteSets, TLC

CONSTANTS
    Clients,            \* the client processes
    ClientProtocols,    \* the protocol versions they may speak
    MaxUpdates,         \* bound: updates of the server
    MaxClientUpdates,   \* bound: updates of a client (its session TTL)
    MaxCommands,        \* bound: user commands (pause, resume, disconnect)
    MaxFailures,        \* bound: overruns, socket errors and partial sends
    PartialSenders      \* whose socket may be full in the middle of a message

ASSUME DataSyncAssumption ==
    /\ ClientProtocols \subseteq Nat /\ ClientProtocols # {}
    /\ PartialSenders \subseteq {"server", "client"}
    /\ {MaxUpdates, MaxClientUpdates, MaxCommands, MaxFailures} \subseteq Nat

S == INSTANCE ServerSession
C == INSTANCE Client

VARIABLES
    clients,        \* Server::m_clients: the clients that have a session object
    session,        \* the session of each client
    shared,         \* the shared messages: cached ones and serialized data
    version,        \* number of updates so far (m_timestamp before it wraps)
    serialize,      \* ConnectionUpdateSerializer::m_isSerializationEnabled
    refill,         \* Conntrack::m_isRefillRequired
    client,         \* the client processes
    link,           \* "none", "dialing" (not accepted yet) or "open"
    down,           \* server to client: messages on the wire
    up,             \* client to server: messages on the wire
    stale,          \* history: the clients that were sent a replaced message
    budget          \* what is left of the bounds

server == <<clients, session, shared, version, serialize, refill>>
vars == <<server, client, link, down, up, stale, budget>>

Init ==
    /\ clients = {}
    /\ session = [c \in Clients |-> S!NoServerSession]
    /\ shared = [BANNER |-> ServerMsgBanner, HELLO |-> ServerMsgHello,
                 TICK |-> ServerMsgUpdateTick(0, 0), FULL |-> Cleared, UPDATE |-> Cleared]
    /\ version = 0
    /\ serialize = TRUE
    /\ refill = TRUE
    /\ client \in [Clients -> {C!NoClient(p) : p \in ClientProtocols}]
    /\ link = [c \in Clients |-> "none"]
    /\ down = [c \in Clients |-> <<>>]
    /\ up = [c \in Clients |-> <<>>]
    /\ stale = {}
    /\ budget = [updates |-> MaxClientUpdates, commands |-> MaxCommands, failures |-> MaxFailures]

-----------------------------------------------------------------------------
(***************************************************************************)
(* The server.                                                             *)
(***************************************************************************)

\* Server::pollHandler: accept a connection, create its session.
Accept(c) ==
    /\ link[c] = "dialing"
    /\ link' = [link EXCEPT ![c] = "open"]
    /\ clients' = clients \cup {c}
    /\ session' = [session EXCEPT ![c] = S!NewServerSession(shared)]
    /\ UNCHANGED <<shared, version, serialize, refill, client, down, up, stale, budget>>

\* ServerSession::SocketPollHandler with INPUT: one message from the client.
ServerInput(c) ==
    /\ c \in clients /\ session[c].state # "DISCONNECTED"
    /\ up[c] # <<>>
    /\ LET m == Head(up[c])
       IN  /\ session' = [session EXCEPT ![c] = S!HandleInput(@, m, shared)]
           /\ serialize' = (serialize \/ (/\ S!AcceptsRequest(session[c], m)
                                          /\ m.dataFlags
                                          /\ m.dataUpdateFlags))
    /\ up' = [up EXCEPT ![c] = Tail(@)]
    /\ UNCHANGED <<clients, shared, version, refill, client, link, down, stale, budget>>

\* ServerSession::SocketPollHandler with INPUT: the client closed the connection.
ServerConnectionLost(c) ==
    /\ c \in clients /\ session[c].state # "DISCONNECTED"
    /\ up[c] = <<>> /\ client[c].state = "DISCONNECTED"
    /\ session' = [session EXCEPT ![c] = S!quickDisconnect(@, "CONNECTION_LOST")]
    /\ UNCHANGED <<clients, shared, version, serialize, refill, client, link, down, up, stale, budget>>

(***************************************************************************)
(* ServerSession::SocketPollHandler with OUTPUT: the socket takes the      *)
(* first n of the pending messages.  If these are not all of them, it is   *)
(* full in the middle of the next one.                                     *)
(***************************************************************************)
PartialSend(side, n, pending) ==
    IF n = Len(pending) THEN UNCHANGED budget
    ELSE /\ side \in PartialSenders
         /\ version < MaxUpdates
         /\ budget.failures > 0
         /\ budget' = [budget EXCEPT !.failures = @ - 1]

ServerOutput(c) ==
    /\ c \in clients /\ session[c].state # "DISCONNECTED"
    /\ session[c].pollOut
    /\ LET s == session[c]
           pending == S!Pending(s, shared)
       IN  \E n \in 0..Len(pending), pos \in {S!Part, S!Body} :
             \E text \in S!Texts(pending, shared) :
               /\ S!CanSend(pending, n, pos)
               /\ PartialSend("server", n, pending)
               /\ session' = [session EXCEPT ![c] = S!HandleOutput(s, n, pos, shared)]
               /\ stale' = stale \cup (IF S!SendsReplaced(s, n, text, shared) THEN {c} ELSE {})
               /\ down' = [down EXCEPT ![c] = @ \o S!Emitted(pending, n, pos, text)]
    /\ UNCHANGED <<clients, shared, version, serialize, refill, client, link, up>>

(***************************************************************************)
(* A failed recv, or POLLERR, POLLHUP or POLLNVAL; or a failed send, which *)
(* includes EAGAIN from a socket that was full after n whole messages.     *)
(***************************************************************************)
ServerSocketError(c) ==
    /\ c \in clients /\ session[c].state # "DISCONNECTED"
    /\ budget.failures > 0
    /\ budget' = [budget EXCEPT !.failures = @ - 1]
    /\ session' = [session EXCEPT ![c] = S!quickDisconnect(@, "SOCKET_ERROR")]
    /\ LET s == session[c]
           pending == S!Pending(s, shared)
       IN  \E n \in 0..(IF s.pollOut THEN Len(pending) - 1 ELSE 0) :
             \E text \in S!Texts(pending, shared) :
               /\ stale' = stale \cup (IF S!SendsReplaced(s, n, text, shared) THEN {c} ELSE {})
               /\ down' = [down EXCEPT ![c] = @ \o S!Emitted(pending, n, 0, text)]
    /\ UNCHANGED <<clients, shared, version, serialize, refill, client, link, up>>

\* The netlink socket overflows (ENOBUFS): the next update reads the table afresh.
EventsLost ==
    /\ ~refill
    /\ budget.failures > 0
    /\ budget' = [budget EXCEPT !.failures = @ - 1]
    /\ refill' = TRUE
    /\ UNCHANGED <<clients, session, shared, version, serialize, client, link, down, up, stale>>

(***************************************************************************)
(* Server::onUpdate, in the order of the code: forget dead sessions, stop  *)
(* the data in progress, see what the others require; next timestamp; let  *)
(* the collector update the storage (a refill clears the storage and       *)
(* disables the serialization of differences); serialize what is needed;   *)
(* send every session its tick and its data.                               *)
(***************************************************************************)
Live == {c \in clients : session[c].state # "DISCONNECTED"}

Stopped(c) == IF session[c].isSendingData THEN S!stopSendingData(session[c], shared) ELSE session[c]

Requires(c, isUpdate) ==
    ~session[c].isSendingData /\ session[c].dataFlags /\ session[c].dataUpdateFlags = isUpdate

SharedAfterUpdate ==
    [shared EXCEPT
       !["TICK"] = ServerMsgUpdateTick((version + 1) % TimestampMod, version + 1),
       !["UPDATE"] = IF serialize /\ ~refill THEN ServerMsgData(TRUE, version + 1) ELSE Cleared,
       !["FULL"] = IF \E c \in Live : Requires(c, FALSE)
                   THEN ServerMsgData(FALSE, version + 1) ELSE Cleared]

\* Variant: the difference is sent to everyone if anyone asked for it.
SessionUpdatedForAll(c) ==
    LET new      == SharedAfterUpdate
        stopped  == Stopped(c)
        updates  == serialize /\ ~refill /\ \E d \in Live : Requires(d, TRUE)
        ticked   == S!onUpdate([stopped EXCEPT !.writer = S!Replaced(@, S!ReplacedBuf)], new)
    IN  IF ~stopped.dataFlags THEN ticked
        ELSE IF updates THEN S!sendData(ticked, "UPDATE", new)
        ELSE IF new["FULL"] # Cleared THEN S!sendData(ticked, "FULL", new)
        ELSE ticked

SessionAfterUpdate(c) ==
    LET new      == SharedAfterUpdate
        stopped  == Stopped(c)
        updates  == serialize /\ ~refill /\ \E d \in Live : Requires(d, TRUE)
        ticked   == S!onUpdate([stopped EXCEPT !.writer = S!Replaced(@, S!ReplacedBuf)], new)
    IN  IF ~stopped.dataFlags THEN ticked
        ELSE IF updates /\ stopped.dataUpdateFlags THEN S!sendData(ticked, "UPDATE", new)
        ELSE IF new["FULL"] # Cleared THEN S!sendData(ticked, "FULL", new)
        ELSE ticked

ServerUpdate ==
    /\ version < MaxUpdates
    /\ version' = version + 1
    /\ clients' = Live
    /\ shared' = SharedAfterUpdate
    /\ session' = [c \in Clients |-> IF c \in Live THEN SessionAfterUpdate(c) ELSE S!NoServerSession]
    /\ serialize' = (serialize /\ ~refill)
    /\ refill' = FALSE
    /\ UNCHANGED <<client, link, down, up, stale, budget>>

-----------------------------------------------------------------------------
(***************************************************************************)
(* The clients.                                                            *)
(***************************************************************************)

\* ClientConnector::tryConnect: start to connect.
ClientConnect(c) ==
    /\ link[c] = "none"
    /\ link' = [link EXCEPT ![c] = "dialing"]
    /\ client' = [client EXCEPT ![c] = C!connect(@)]
    /\ UNCHANGED <<server, down, up, stale, budget>>

\* ClientSession::SocketPollHandler with INPUT: one message from the server.
ClientInput(c) ==
    /\ client[c].state # "DISCONNECTED"
    /\ down[c] # <<>>
    /\ client' = [client EXCEPT ![c] = C!HandleInput(@, Head(down[c]))]
    /\ down' = [down EXCEPT ![c] = Tail(@)]
    /\ UNCHANGED <<server, link, up, stale, budget>>

\* ClientSession::SocketPollHandler with INPUT: the server closed the connection.
ClientConnectionLost(c) ==
    /\ client[c].state # "DISCONNECTED"
    /\ link[c] = "open" /\ session[c].state = "DISCONNECTED" /\ down[c] = <<>>
    /\ client' = [client EXCEPT ![c] = C!HandleConnectionLost(@)]
    /\ UNCHANGED <<server, link, down, up, stale, budget>>

\* ClientSession::SocketPollHandler with OUTPUT.
ClientOutput(c) ==
    /\ client[c].state # "DISCONNECTED"
    /\ client[c].pollOut
    /\ LET k == client[c]
           pending == C!Pending(k)
       IN  \/ /\ ~k.isConnectionEstablished
              /\ client' = [client EXCEPT ![c] = C!verifyConnect(@)]
              /\ UNCHANGED <<up, budget>>
           \/ /\ k.isConnectionEstablished
              /\ \E n \in 0..Len(pending), pos \in {C!Part, C!Body} :
                   /\ C!CanSend(pending, n, pos)
                   /\ PartialSend("client", n, pending)
                   /\ client' = [client EXCEPT ![c] = C!HandleOutput(k, n, pos)]
                   /\ up' = [up EXCEPT ![c] = @ \o C!Emitted(pending, n, pos, pending[1].msg)]
    /\ UNCHANGED <<server, link, down, stale>>

\* A failed connect, recv or send, or an error event.
ClientSocketError(c) ==
    /\ client[c].state # "DISCONNECTED"
    /\ budget.failures > 0
    /\ budget' = [budget EXCEPT !.failures = @ - 1]
    /\ client' = [client EXCEPT ![c] = C!quickDisconnect(@, "SOCKET_ERROR")]
    /\ UNCHANGED <<server, link, down, up, stale>>

\* Client::onUpdate, once per second.
ClientUpdate(c) ==
    /\ client[c].state # "DISCONNECTED"
    /\ budget.updates > 0 \/ client[c].state = "CLOSING"
    /\ budget' = [budget EXCEPT !.updates = IF @ > 0 THEN @ - 1 ELSE 0]
    /\ client' = [client EXCEPT ![c] = C!onUpdate(@)]
    /\ UNCHANGED <<server, link, down, up, stale>>

\* The user pauses or resumes the list, or asks to disconnect.
ClientCommand(c) ==
    /\ budget.commands > 0
    /\ budget' = [budget EXCEPT !.commands = @ - 1]
    /\ \/ client' = [client EXCEPT ![c] = C!setPaused(@, ~@.isPaused)]
       \/ /\ client[c].state # "DISCONNECTED"
          /\ client' = [client EXCEPT ![c] = C!disconnect(@)]
    /\ UNCHANGED <<server, link, down, up, stale>>

-----------------------------------------------------------------------------
ServerStep(c) ==
    Accept(c) \/ ServerInput(c) \/ ServerConnectionLost(c) \/ ServerOutput(c) \/ ServerSocketError(c)

ClientStep(c) ==
    \/ ClientConnect(c) \/ ClientInput(c) \/ ClientConnectionLost(c) \/ ClientOutput(c)
    \/ ClientSocketError(c) \/ ClientUpdate(c) \/ ClientCommand(c)

Next ==
    \/ ServerUpdate
    \/ EventsLost
    \/ \E c \in Clients : ServerStep(c) \/ ClientStep(c)

Spec == Init /\ [][Next]_vars

(***************************************************************************)
(* Every event that has happened is handled: the poll thread reports ready *)
(* sockets, the timer runs in both processes, the event queue is FIFO.     *)
(* User commands and failures need not happen.                             *)
(***************************************************************************)
Fairness ==
    /\ WF_vars(ServerUpdate)
    /\ \A c \in Clients :
         /\ WF_vars(Accept(c) \/ ServerInput(c) \/ ServerConnectionLost(c))
         /\ WF_vars(ServerOutput(c))
         /\ WF_vars(ClientInput(c) \/ ClientConnectionLost(c))
         /\ WF_vars(ClientOutput(c))
         /\ WF_vars(ClientUpdate(c))

\* Nothing but the timer of the clients is sure to run.
TimerSpec == Spec /\ \A c \in Clients : WF_vars(ClientUpdate(c))

-----------------------------------------------------------------------------
(***************************************************************************)
(* Properties.                                                             *)
(***************************************************************************)

(***************************************************************************)
(* A client that shows SYNC shows the server's connections as of the last  *)
(* tick it received, or, while the data of that tick is on its way, as of  *)
(* the tick before (Client::m_isSynchronized against the storage that      *)
(* Server::onUpdate serialized).  It holds as long as no message was       *)
(* overwritten in the server before it was sent.                           *)
(***************************************************************************)
SyncedListIsCurrent ==
    \A c \in Clients :
        client[c].isSynchronized /\ c \notin stale =>
            client[c].list = IF client[c].remainingData THEN client[c].tick - 1 ELSE client[c].tick

(***************************************************************************)
(* The two state machines fit together: unless the server overwrote a      *)
(* message, neither onMessage ever throws, whatever the timing of ticks,   *)
(* requests, pauses, lost events and dropped data.                         *)
(***************************************************************************)
NoProtocolError ==
    \A c \in Clients \ stale :
        client[c].reason # "PROTOCOL_ERROR" /\ session[c].reason # "PROTOCOL_ERROR"

(***************************************************************************)
(* Server::onUpdate replaces the serialized data only after                *)
(* stopSendingData has secured what is being sent: of the messages it      *)
(* overwrites, only a tick can be half sent.                               *)
(***************************************************************************)
DataInProgressIsSecured ==
    \A c \in clients : session[c].writer.dangling => session[c].writer.msg.type = "UPDATE_TICK"

(***************************************************************************)
(* A request is never lost and never answered twice: while a connected     *)
(* client expects DATA_STATUS, exactly one REQUEST_DATA or DATA_STATUS is  *)
(* between the two sessions, and otherwise none is (m_expectedMsg, both    *)
(* send queues, both writers, both directions of the wire).                *)
(***************************************************************************)
Undelivered(w) == IF w.kind # "NONE" /\ w.pos < S!Body THEN <<w.msg>> ELSE <<>>

InTransit(c) ==
    LET k == client[c]
        s == session[c]
        answers(q) == [i \in DOMAIN q |-> S!Content(q[i], shared)]
        all == Undelivered(k.writer) \o k.sendQueue \o up[c]
                 \o Undelivered(s.writer) \o answers(s.sendQueue) \o down[c]
    IN  Cardinality({i \in DOMAIN all : all[i].type \in {"REQUEST_DATA", "DATA_STATUS"}})

OneRequestInTransit ==
    \A c \in clients :
        client[c].state = "CONNECTED" /\ session[c].state # "DISCONNECTED" =>
            InTransit(c) = IF C!isDataRequestInProgress(client[c]) THEN 1 ELSE 0

(***************************************************************************)
(* Every request of a client is answered, or the session ends, although    *)
(* the rest of a partly sent answer waits for the next server update.      *)
(* Nothing is owed to a client that itself keeps the rest of a partly sent *)
(* request.  Unlike ClosingEnds this needs all of Fairness.                *)
(***************************************************************************)
EveryRequestIsAnswered ==
    Fairness =>
        \A c \in Clients :
            client[c].state = "CONNECTED" /\ C!isDataRequestInProgress(client[c]) ~>
                \/ client[c].state # "CONNECTED"
                \/ ~C!isDataRequestInProgress(client[c])
                \/ C!isSending(client[c].writer) /\ ~client[c].pollOut

(***************************************************************************)
(* A user's disconnect ends the session even if the server never reacts:   *)
(* ticks that are still received do not prolong a CLOSING session.         *)
(***************************************************************************)
ClosingEnds ==
    \A c \in Clients : client[c].state = "CLOSING" ~> client[c].state = "DISCONNECTED"

-----------------------------------------------------------------------------
\* The clients are interchangeable.
Symmetry == Permutations(Clients)

=============================================================================

--------------------------- MODULE ServerSession ---------------------------
(***************************************************************************)
(* ServerSession (ClientServerProtocol.hpp, .cpp): the server's end of the *)
(* connection to one client, as functions from a session to a session.     *)
(*                                                                         *)
(* A queued message is [buf, msg].  BANNER, HELLO, TICK, FULL and UPDATE   *)
(* are shared: the queue holds a pointer to an object of the server that   *)
(* every session sends, and msg only remembers what the object contained   *)
(* when it was queued.  OWN messages belong to the queue.                  *)
(*                                                                         *)
(* ServerSession::disconnect has no caller, so a server session is never   *)
(* CLOSING and its m_sessionTTL is never used.                             *)
(***************************************************************************)
EXTENDS StreamSocketWriter

\* The cached messages of ServerContext and the serialized data of Server.
SharedBuf == {"BANNER", "HELLO", "TICK", "FULL", "UPDATE"}

\* The shared messages that Server::onUpdate assigns or clears.
ReplacedBuf == {"TICK", "FULL", "UPDATE"}

QueuedMsg == [buf : SharedBuf \cup {"OWN"}, msg : ServerMsg]

ServerWriter == [kind : {"NONE", "OWN", "SHARED", "BUFFERED"}, buf : SharedBuf \cup {"OWN"},
                 msg : ServerMsg, pos : {0, Part, Body}, dangling : BOOLEAN]

ServerSessionType ==
    [state : ESessionState, sendQueue : Seq(QueuedMsg), writer : ServerWriter,
     isSendingData : BOOLEAN, dataFlags : BOOLEAN, dataUpdateFlags : BOOLEAN,
     pollOut : BOOLEAN,         \* the poll system waits for OUTPUT
     reason : EDisconnectReason]

NoServerSession ==
    [state |-> "DISCONNECTED", sendQueue |-> <<>>, writer |-> Idle,
     isSendingData |-> FALSE, dataFlags |-> FALSE, dataUpdateFlags |-> FALSE,
     pollOut |-> FALSE, reason |-> "UNKNOWN"]

\* What a queued message contains now.
Content(e, shared) == IF e.buf = "OWN" THEN e.msg ELSE shared[e.buf]

\* sendMessage and sendSharedMessage: both enable OUTPUT if nothing is queued.
Enqueue(s, e) ==
    [s EXCEPT !.sendQueue = Append(@, e), !.pollOut = @ \/ s.sendQueue = <<>>]

sendMessage(s, msg) == Enqueue(s, [buf |-> "OWN", msg |-> msg])

sendSharedMessage(s, buf, shared) == Enqueue(s, [buf |-> buf, msg |-> shared[buf]])

\* The constructor.
NewServerSession(shared) ==
    sendSharedMessage([NoServerSession EXCEPT !.state = "OPENING"], "BANNER", shared)

quickDisconnect(s, reason) ==
    [s EXCEPT !.state = "DISCONNECTED", !.isSendingData = FALSE, !.sendQueue = <<>>,
              !.pollOut = FALSE, !.reason = reason]

sendDataStatus(s, d, u) ==
    IF s.state = "CONNECTED"
    THEN sendMessage([s EXCEPT !.dataFlags = d, !.dataUpdateFlags = u], ServerMsgDataStatus(d, u))
    ELSE s

\* A request the session passes on to Server::onSessionDataRequest.
AcceptsRequest(s, m) == m.type = "REQUEST_DATA" /\ s.state = "CONNECTED"

\* onMessage, and the handler's reaction to what it throws.
onMessage(s, m, shared) ==
    CASE m.type = "HELLO" /\ s.state = "OPENING" ->
           [sendSharedMessage(s, "HELLO", shared) EXCEPT !.state = "CONNECTED"]
      [] m.type = "DISCONNECT" ->
           quickDisconnect(s, m.reason)
      [] AcceptsRequest(s, m) ->
           sendDataStatus(s, m.dataFlags, m.dataUpdateFlags)
      [] OTHER ->
           quickDisconnect(s, "PROTOCOL_ERROR")

onUpdate(s, shared) ==
    LET reset == [s EXCEPT !.dataFlags = FALSE, !.dataUpdateFlags = FALSE]
    IN  IF s.state = "CONNECTED" THEN sendSharedMessage(reset, "TICK", shared) ELSE reset

sendData(s, buf, shared) ==
    IF s.state = "CONNECTED" THEN sendSharedMessage(s, buf, shared) ELSE s

\* Variant: the message in progress is not given up.
StopQueuedOnly(s, shared) ==
    [s EXCEPT !.sendQueue = SelectSeq(@, LAMBDA e : Content(e, shared).type # "DATA"),
              !.isSendingData = FALSE, !.dataFlags = FALSE, !.dataUpdateFlags = FALSE]

\* Variant: the whole queue is dropped.
StopEverything(s, shared) ==
    [s EXCEPT !.sendQueue = <<>>, !.writer = IF s.isSendingData THEN stop(@) ELSE @,
              !.isSendingData = FALSE, !.dataFlags = FALSE, !.dataUpdateFlags = FALSE]

\* stopSendingData: drop the queued DATA, give up the one in progress.
stopSendingData(s, shared) ==
    LET kept    == Selected(s.sendQueue, {i \in DOMAIN s.sendQueue :
                                            Content(s.sendQueue[i], shared).type # "DATA"})
        stopped == [s EXCEPT !.sendQueue = kept,
                             !.writer = IF s.isSendingData THEN stop(@) ELSE @,
                             !.isSendingData = FALSE]
    IN  IF s.isSendingData \/ kept # s.sendQueue
        THEN [stopped EXCEPT !.dataFlags = FALSE, !.dataUpdateFlags = FALSE]
        ELSE stopped

\* Variant: while a message is being sent, the queue behind it is forgotten.
RearmIdleOnly(s) ==
    [s EXCEPT !.pollOut = s.state # "DISCONNECTED" /\ s.sendQueue # <<>> /\ ~isSending(s.writer)]

\* The end of SocketPollHandler: wait for INPUT, and for OUTPUT if messages are queued.
Rearm(s) == [s EXCEPT !.pollOut = s.state # "DISCONNECTED" /\ s.sendQueue # <<>>]

\* SocketPollHandler, INPUT with a complete message.
HandleInput(s, m, shared) == Rearm(onMessage(s, m, shared))

(***************************************************************************)
(* SocketPollHandler, OUTPUT: the messages the writer may send now, and    *)
(* the session after the first n of them were sent and the next one up to  *)
(* pos.                                                                    *)
(***************************************************************************)
Load(e, shared) ==
    IF e.buf = "OWN" THEN send(e.msg) ELSE sendShared(e.buf, shared[e.buf])

Pending(s, shared) ==
    (IF isSending(s.writer) THEN <<s.writer>> ELSE <<>>)
      \o [i \in DOMAIN s.sendQueue |-> Load(s.sendQueue[i], shared)]

\* What the bytes of the first pending message, if freed, may turn out to be.
Texts(pending, shared) ==
    IF pending = <<>> THEN {Cleared}
    ELSE {pending[1].msg} \cup
         (IF pending[1].dangling THEN {shared[pending[1].buf], Garbled} ELSE {})

\* How many of the queued messages the writer takes.
Loaded(s, n, pending) ==
    LET busy == Len(pending) - Len(s.sendQueue)
        last == IF n < Len(pending) THEN n + 1 ELSE n
    IN  IF last > busy THEN last - busy ELSE 0

HandleOutput(s, n, pos, shared) ==
    LET pending == Pending(s, shared)
        loaded  == Loaded(s, n, pending)
        writer  == doSend(pending, n, pos)
    IN  Rearm([s EXCEPT
          !.writer = writer,
          !.sendQueue = SubSeq(@, loaded + 1, Len(@)),
          !.isSendingData = IF n = Len(pending) THEN FALSE
                            ELSE IF loaded = 0 THEN @ ELSE writer.msg.type = "DATA"])

(***************************************************************************)
(* The call sends something else than what was queued: an object that was  *)
(* assigned in the meantime, or bytes that were freed.                     *)
(***************************************************************************)
SendsReplaced(s, n, text, shared) ==
    LET pending == Pending(s, shared)
    IN  \/ pending # <<>> /\ text # pending[1].msg
        \/ \E i \in 1..Loaded(s, n, pending) :
             Content(s.sendQueue[i], shared) \notin {s.sendQueue[i].msg, Cleared}

=============================================================================

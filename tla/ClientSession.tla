--------------------------- MODULE ClientSession ---------------------------
(***************************************************************************)
(* ClientSession (ClientServerProtocol.hpp, .cpp): the client's end of the *)
(* connection, as functions from a client to a client.  The record holds   *)
(* the fields of the session and, because the session calls back into it   *)
(* synchronously, those of Client as well.                                 *)
(***************************************************************************)
EXTENDS StreamSocketWriter, Integers

Diverged == -1              \* a list that no version of the storage had

EExpectedMsg == {"NONE", "SERVER_BANNER", "SERVER_HELLO", "SERVER_DATA_STATUS"}

ClientWriter == [kind : {"NONE", "OWN"}, buf : {"OWN"}, msg : ClientMsg \cup {Cleared},
                 pos : {0, Part, Body}, dangling : {FALSE}]

ClientType ==
    [\* ClientSession
     state : ESessionState, expectedMsg : EExpectedMsg, isConnectionEstablished : BOOLEAN,
     sessionTTL : Nat, dataFlags : BOOLEAN, dataUpdateFlags : BOOLEAN,
     currentTimestamp : 0..TimestampMod - 1, sendQueue : Seq(ClientMsg), writer : ClientWriter,
     pollOut : BOOLEAN, reason : EDisconnectReason, protocol : Nat,
     \* Client
     requestedData : BOOLEAN, requestedDataUpdate : BOOLEAN, remainingData : BOOLEAN,
     isDataRequested : BOOLEAN, isSynchronized : BOOLEAN, isPaused : BOOLEAN,
     \* the content of ConnectionList, and the server update of the last tick
     list : Nat \cup {Diverged}, tick : Nat]

NoClient(protocol) ==
    [state |-> "DISCONNECTED", expectedMsg |-> "NONE", isConnectionEstablished |-> FALSE,
     sessionTTL |-> 0, dataFlags |-> FALSE, dataUpdateFlags |-> FALSE,
     currentTimestamp |-> 0, sendQueue |-> <<>>, writer |-> Idle,
     pollOut |-> FALSE, reason |-> "UNKNOWN", protocol |-> protocol,
     requestedData |-> FALSE, requestedDataUpdate |-> FALSE, remainingData |-> FALSE,
     isDataRequested |-> FALSE, isSynchronized |-> FALSE, isPaused |-> FALSE,
     list |-> 0, tick |-> 0]

sendMessage(k, msg) ==
    [k EXCEPT !.sendQueue = Append(@, msg), !.pollOut = @ \/ k.sendQueue = <<>>]

\* connect: OUTPUT tells when the socket is connected.
connect(k) ==
    IF k.state = "DISCONNECTED"
    THEN [k EXCEPT !.state = "OPENING", !.sessionTTL = 4, !.expectedMsg = "SERVER_BANNER",
                   !.pollOut = TRUE]
    ELSE k

\* Variant: a second request may follow before the first one is answered.
requestDataAgain(k, d, u) ==
    IF k.state = "CONNECTED"
    THEN sendMessage([k EXCEPT !.expectedMsg = "SERVER_DATA_STATUS"], ClientMsgRequestData(d, u))
    ELSE k

requestData(k, d, u) ==
    IF k.state = "CONNECTED" /\ k.expectedMsg = "NONE"
    THEN sendMessage([k EXCEPT !.expectedMsg = "SERVER_DATA_STATUS"], ClientMsgRequestData(d, u))
    ELSE k

isDataRequestInProgress(k) == k.expectedMsg = "SERVER_DATA_STATUS"

\* The part of quickDisconnect before the callback to Client::onSessionDisconnect.
CloseSession(k, reason) ==
    [k EXCEPT !.state = "DISCONNECTED", !.isConnectionEstablished = FALSE, !.sendQueue = <<>>,
              !.pollOut = FALSE, !.reason = reason]

\* The end of SocketPollHandler.
Rearm(k) == [k EXCEPT !.pollOut = k.state # "DISCONNECTED" /\ k.sendQueue # <<>>]

(***************************************************************************)
(* SocketPollHandler, OUTPUT on an established connection: the first n     *)
(* pending messages were sent, the next one up to pos.                     *)
(***************************************************************************)
Pending(k) ==
    (IF isSending(k.writer) THEN <<k.writer>> ELSE <<>>)
      \o [i \in DOMAIN k.sendQueue |-> send(k.sendQueue[i])]

HandleOutput(k, n, pos) ==
    LET pending == Pending(k)
        busy    == Len(pending) - Len(k.sendQueue)
        last    == IF n < Len(pending) THEN n + 1 ELSE n
        loaded  == IF last > busy THEN last - busy ELSE 0
    IN  Rearm([k EXCEPT !.writer = doSend(pending, n, pos),
                        !.sendQueue = SubSeq(@, loaded + 1, Len(@))])

=============================================================================

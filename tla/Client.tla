------------------------------- MODULE Client -------------------------------
(***************************************************************************)
(* Client (Client.hpp, .cpp) and the half of ClientSession that calls it:  *)
(* the client asks for data once per server tick, applies the data that    *)
(* belongs to the tick, and declares itself synchronized when it did.      *)
(*                                                                         *)
(* A client opens one session in its life: the connector that would try    *)
(* another address is destroyed when the connection is established.        *)
(***************************************************************************)
EXTENDS ClientSession

RequestData(k) ==
    [requestData(k, k.requestedData, k.requestedDataUpdate) EXCEPT !.isDataRequested = TRUE]

setPaused(k, paused) ==
    LET changed == [k EXCEPT !.isPaused = paused]
    IN  IF ~paused /\ k.isPaused /\ ~k.remainingData /\ ~k.isDataRequested
        THEN RequestData(changed)
        ELSE changed

onSessionEstablished(k) ==
    [RequestData([k EXCEPT !.requestedData = TRUE, !.requestedDataUpdate = FALSE,
                           !.remainingData = FALSE])
     EXCEPT !.isSynchronized = FALSE]

onSessionDisconnect(k) ==
    [k EXCEPT !.isSynchronized = FALSE, !.isDataRequested = FALSE]

(***************************************************************************)
(* Before the connection is established the connector exists, and would    *)
(* try the next address instead; the user's disconnect destroys it first.  *)
(***************************************************************************)
quickDisconnect(k, reason) ==
    IF k.isConnectionEstablished \/ reason = "USER_DECISION"
    THEN onSessionDisconnect(CloseSession(k, reason))
    ELSE CloseSession(k, reason)

\* Variant: the request may have come too late for this tick, and nobody notices.
tickIgnoringRequest(k) ==
    LET lost == [k EXCEPT !.remainingData = FALSE, !.requestedDataUpdate = FALSE,
                          !.isSynchronized = FALSE]
        next == CASE k.remainingData ->
                       IF k.isPaused THEN lost ELSE RequestData(lost)
                  [] ~k.remainingData /\ (isDataRequestInProgress(k) \/ k.isPaused) -> k
                  [] OTHER ->
                       [k EXCEPT !.remainingData = k.requestedData]
    IN  [next EXCEPT !.isDataRequested = FALSE]

(***************************************************************************)
(* onSessionServerTick.  Data still missing at the next tick was lost: the *)
(* client starts again with a full request.  A tick during a request, or   *)
(* while paused, is a tick whose data will not be applied.                 *)
(***************************************************************************)
onSessionServerTick(k) ==
    LET lost == [k EXCEPT !.remainingData = FALSE, !.requestedDataUpdate = FALSE,
                          !.isSynchronized = FALSE]
        next == CASE k.remainingData ->
                       IF k.isPaused THEN lost ELSE RequestData(lost)
                  [] ~k.remainingData /\ (isDataRequestInProgress(k) \/ k.isPaused) ->
                       [k EXCEPT !.isSynchronized = FALSE]
                  [] OTHER ->
                       [k EXCEPT !.remainingData = k.requestedData]
    IN  [next EXCEPT !.isDataRequested = FALSE]

onSessionDataStatus(k) ==
    LET agreed == [k EXCEPT !.requestedData = @ /\ k.dataFlags,
                            !.requestedDataUpdate = @ /\ k.dataUpdateFlags]
    IN  IF agreed.requestedDataUpdate /\ ~k.isSynchronized
        THEN RequestData([agreed EXCEPT !.requestedDataUpdate = FALSE])
        ELSE agreed

\* Applying a DATA message to the list: clear and fill, or replay a difference.
Applied(list, m) ==
    IF ~m.isUpdate \/ list = m.version - 1 THEN m.version ELSE Diverged

onSessionData(k, m) ==
    LET applied == [k EXCEPT !.list = Applied(@, m), !.remainingData = FALSE]
        synced  == IF k.isSynchronized THEN applied
                   ELSE [applied EXCEPT !.isSynchronized = TRUE,
                                        !.requestedDataUpdate = k.requestedData]
    IN  IF (m.isUpdate /\ ~k.isSynchronized) \/ ~k.remainingData \/ k.isPaused
        THEN k
        ELSE RequestData(synced)

\* The timestamp a tick must carry; a session's first tick may carry any.
ExpectedTimestamp(k, t) ==
    k.currentTimestamp # 0 => t = (k.currentTimestamp + 1) % TimestampMod

(***************************************************************************)
(* ClientSession::onMessage.  Throws is the condition under which it       *)
(* throws, which ends the session with PROTOCOL_ERROR.                     *)
(***************************************************************************)
Ignores(k, m) ==
    k.state = "CLOSING" /\ m.type \in {"UPDATE_TICK", "DATA_STATUS", "DATA"}

Throws(k, m) ==
    CASE m.type = "BANNER"      -> k.state # "OPENING" \/ k.expectedMsg # "SERVER_BANNER"
      [] m.type = "HELLO"       -> k.state # "OPENING" \/ k.expectedMsg # "SERVER_HELLO"
      [] m.type = "UPDATE_TICK" -> k.state # "CONNECTED" \/ ~ExpectedTimestamp(k, m.timestamp)
      [] m.type = "DATA_STATUS" -> k.expectedMsg # "SERVER_DATA_STATUS"
      [] m.type = "DATA"        -> \/ k.state # "CONNECTED"
                                   \/ ~k.dataFlags
                                   \/ m.isUpdate /\ ~k.dataUpdateFlags
      [] OTHER                  -> TRUE

onMessage(k, m) ==
    IF Ignores(k, m) THEN k
    ELSE IF Throws(k, m) THEN quickDisconnect(k, "PROTOCOL_ERROR")
    ELSE CASE m.type = "BANNER" ->
                IF m.protocol # k.protocol
                THEN quickDisconnect(k, "VERSION_MISMATCH")
                ELSE sendMessage([k EXCEPT !.expectedMsg = "SERVER_HELLO"], ClientMsgHello)
           [] m.type = "HELLO" ->
                onSessionEstablished(
                  [k EXCEPT !.expectedMsg = "NONE", !.state = "CONNECTED", !.sessionTTL = 3,
                            !.currentTimestamp = 0, !.dataFlags = FALSE,
                            !.dataUpdateFlags = FALSE])
           [] m.type = "UPDATE_TICK" ->
                onSessionServerTick(
                  [k EXCEPT !.currentTimestamp = m.timestamp, !.sessionTTL = @ + 1,
                            !.tick = m.version])
           [] m.type = "DATA_STATUS" ->
                onSessionDataStatus(
                  [k EXCEPT !.dataFlags = m.dataFlags, !.dataUpdateFlags = m.dataUpdateFlags,
                            !.expectedMsg = "NONE", !.sessionTTL = 3])
           [] m.type = "DATA" ->
                onSessionData(k, m)

\* Variant: a session that is closing does not time out.
onUpdateUnlessClosing(k) ==
    CASE k.state \in {"DISCONNECTED", "CLOSING"} -> k
      [] k.state \in {"OPENING", "CONNECTED"} /\ k.sessionTTL > 0 -> [k EXCEPT !.sessionTTL = @ - 1]
      [] OTHER -> quickDisconnect(k, "TIMEOUT")

onUpdate(k) ==
    CASE k.state = "DISCONNECTED" -> k
      [] k.state # "DISCONNECTED" /\ k.sessionTTL > 0 -> [k EXCEPT !.sessionTTL = @ - 1]
      [] OTHER -> quickDisconnect(k, "TIMEOUT")

\* Client::disconnect: the user asks to disconnect.
disconnect(k) ==
    CASE k.state = "CONNECTED" ->
           sendMessage([k EXCEPT !.state = "CLOSING", !.sessionTTL = 2, !.reason = "USER_DECISION"],
                       ClientMsgDisconnect("USER_DECISION"))
      [] k.state = "OPENING" -> quickDisconnect(k, "USER_DECISION")
      [] OTHER -> k

\* SocketPollHandler, OUTPUT before the connection is established.
verifyConnect(k) ==
    Rearm(IF k.state = "DISCONNECTED" THEN k ELSE [k EXCEPT !.isConnectionEstablished = TRUE])

(***************************************************************************)
(* SocketPollHandler, INPUT with a complete message.  A socket that has    *)
(* just been connected is writable too, so the connection is established   *)
(* by the same call of the handler.                                        *)
(***************************************************************************)
HandleInput(k, m) ==
    LET received == onMessage(k, m)
    IN  IF k.isConnectionEstablished THEN Rearm(received) ELSE verifyConnect(received)

\* SocketPollHandler, INPUT at the end of the stream.
HandleConnectionLost(k) ==
    quickDisconnect(k, IF k.state = "CLOSING" THEN k.reason ELSE "CONNECTION_LOST")

=============================================================================

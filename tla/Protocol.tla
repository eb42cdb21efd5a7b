------------------------------ MODULE Protocol ------------------------------
(***************************************************************************)
(* The vocabulary of the conntop client-server protocol: the messages of   *)
(* ClientServerProtocol, the session states and the disconnect reasons.    *)
(*                                                                         *)
(* There is a single kind of data (EDataFlags::CONNECTION), so an int of   *)
(* data flags is a BOOLEAN: "the CONNECTION bit is set".  The content of   *)
(* a connection list is the number of the server update that produced it:  *)
(* version v is the server's storage after its v-th update, a full DATA    *)
(* message carries version v, and an update DATA message carries the       *)
(* difference between the versions v - 1 and v.                            *)
(***************************************************************************)
EXTENDS Naturals, Sequences

CONSTANT TimestampMod       \* the timestamps are unsigned: 2^32 in the code

ASSUME TimestampModAssumption == TimestampMod \in Nat /\ TimestampMod > 1

VERSION == 1                \* ClientServerProtocol::VERSION

ESessionState == {"DISCONNECTED", "CLOSING", "OPENING", "CONNECTED"}

EDisconnectReason == {"UNKNOWN", "TIMEOUT", "USER_DECISION", "SERVER_QUIT", "VERSION_MISMATCH",
                      "CONNECTION_LOST", "PROTOCOL_ERROR", "SOCKET_ERROR"}

(***************************************************************************)
(* Messages.  A SerializedMessage that was cleared has the type UNKNOWN    *)
(* and no bytes.  GARBLED stands for bytes that no longer are a message.   *)
(***************************************************************************)
Cleared == [type |-> "UNKNOWN"]
Garbled == [type |-> "GARBLED"]

ServerMsgBanner == [type |-> "BANNER", protocol |-> VERSION]
ServerMsgHello == [type |-> "HELLO"]
ServerMsgUpdateTick(t, v) == [type |-> "UPDATE_TICK", timestamp |-> t, version |-> v]
ServerMsgDataStatus(d, u) == [type |-> "DATA_STATUS", dataFlags |-> d, dataUpdateFlags |-> u]
ServerMsgData(u, v) == [type |-> "DATA", isUpdate |-> u, version |-> v]

ClientMsgHello == [type |-> "HELLO"]
ClientMsgDisconnect(r) == [type |-> "DISCONNECT", reason |-> r]
ClientMsgRequestData(d, u) == [type |-> "REQUEST_DATA", dataFlags |-> d, dataUpdateFlags |-> u]

ServerMsg ==
    {Cleared, Garbled, ServerMsgBanner, ServerMsgHello}
      \cup [type : {"UPDATE_TICK"}, timestamp : 0..TimestampMod - 1, version : Nat]
      \cup [type : {"DATA_STATUS"}, dataFlags : BOOLEAN, dataUpdateFlags : BOOLEAN]
      \cup [type : {"DATA"}, isUpdate : BOOLEAN, version : Nat]

ClientMsg ==
    {ClientMsgHello}
      \cup [type : {"DISCONNECT"}, reason : EDisconnectReason]
      \cup [type : {"REQUEST_DATA"}, dataFlags : BOOLEAN, dataUpdateFlags : BOOLEAN]

=============================================================================

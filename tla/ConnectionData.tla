--------------------------- MODULE ConnectionData ---------------------------
(***************************************************************************)
(* A connection's data, the storage that holds it, and what an update      *)
(* makes of it (Connection.hpp, Connection.cpp, ConnectionStorage.hpp).    *)
(*                                                                         *)
(* Of the six traffic numbers one counter and its speed remain: the code   *)
(* treats received and sent bytes alike, and packets like bytes without a  *)
(* speed.  Numbers are unsigned, modulo CounterMod.  A UDP connection is   *)
(* one whose state is always UNKNOWN.                                      *)
(***************************************************************************)
EXTENDS Integers, Sequences

CONSTANT CounterMod         \* 2^64 in the code

ASSUME CounterModAssumption == CounterMod \in Nat \ {0}

\* nf_conntrack's TCP states, and the state the program shows for each.
RawState == {"NONE", "SYN_SENT", "SYN_SENT2", "SYN_RECV", "ESTABLISHED", "FIN_WAIT",
             "CLOSE_WAIT", "LAST_ACK", "TIME_WAIT", "CLOSE"}

TCPStateToEnum(raw) ==
    CASE raw = "NONE"      -> "UNKNOWN"
      [] raw = "SYN_SENT2" -> "SYN_SENT"
      [] raw = "SYN_RECV"  -> "SYN_RECEIVED"
      [] raw = "CLOSE"     -> "CLOSING"
      [] OTHER             -> raw

TCPStateIsEqual(state, raw) == state = TCPStateToEnum(raw)

EState == {TCPStateToEnum(raw) : raw \in RawState}

Counter == 0..CounterMod - 1

Data == [state : EState, bytes : Counter, speed : Counter]

NewData == [state |-> "UNKNOWN", bytes |-> 0, speed |-> 0]

\* An entry of the kernel's table.
Entry == [raw : RawState, bytes : Counter]

FilledData(entry) == [state |-> TCPStateToEnum(entry.raw), bytes |-> entry.bytes, speed |-> 0]

(***************************************************************************)
(* Conntrack::handleQuery for a connection that is in the storage: the new *)
(* data, and the flags of what has changed.                                *)
(***************************************************************************)
UpdatedData(data, entry) ==
    [state |-> TCPStateToEnum(entry.raw), bytes |-> entry.bytes,
     speed |-> (entry.bytes - data.bytes) % CounterMod]

EConnectionUpdateFlags == {"PROTO_STATE", "BYTES", "SPEED"}

UpdateFlags(data, entry) ==
    LET speed == (entry.bytes - data.bytes) % CounterMod
    IN  {f \in EConnectionUpdateFlags :
           \/ f = "PROTO_STATE" /\ ~TCPStateIsEqual(data.state, entry.raw)
           \/ f = "BYTES" /\ speed # 0
           \/ f = "SPEED" /\ speed # data.speed}

(***************************************************************************)
(* The storage maps connections to their data.                             *)
(***************************************************************************)
EmptyStorage == [c \in {} |-> NewData]

addConnection(storage, c, data) ==
    [d \in DOMAIN storage \cup {c} |-> IF d \in DOMAIN storage THEN storage[d] ELSE data]

removeConnection(storage, c) == [d \in DOMAIN storage \ {c} |-> storage[d]]

(***************************************************************************)
(* Serialized connections.  A state travels by its name; UNKNOWN has none, *)
(* it is written as "?".  CREATE carries everything, UPDATE the numbers    *)
(* its flags name, REMOVE nothing.                                         *)
(***************************************************************************)
StateToString(state) == IF state = "UNKNOWN" THEN "?" ELSE state

StateToEnum(name) == IF name \in EState \ {"UNKNOWN"} THEN name ELSE "UNKNOWN"

Value(data, flag) ==
    CASE flag = "PROTO_STATE" -> StateToString(data.state)
      [] flag = "BYTES"       -> data.bytes
      [] flag = "SPEED"       -> data.speed

serialize(c, data, action, flags) ==
    LET written == CASE action = "CREATE" -> EConnectionUpdateFlags
                     [] action = "UPDATE" -> flags
                     [] action = "REMOVE" -> {}
    IN  [action |-> action, conn |-> c, values |-> [f \in written |-> Value(data, f)]]

\* ConnectionData::Deserialize, with a storage as the receiver.
Overwritten(data, values) ==
    [state |-> IF "PROTO_STATE" \in DOMAIN values THEN StateToEnum(values["PROTO_STATE"]) ELSE data.state,
     bytes |-> IF "BYTES" \in DOMAIN values THEN values["BYTES"] ELSE data.bytes,
     speed |-> IF "SPEED" \in DOMAIN values THEN values["SPEED"] ELSE data.speed]

Deserialize(storage, item) ==
    CASE item.action = "CREATE" ->
           addConnection(storage, item.conn, Overwritten(NewData, item.values))
      [] item.action = "UPDATE" /\ item.conn \in DOMAIN storage ->
           [storage EXCEPT ![item.conn] = Overwritten(@, item.values)]
      [] item.action = "REMOVE" ->
           removeConnection(storage, item.conn)
      [] OTHER -> storage

=============================================================================

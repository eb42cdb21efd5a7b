-------------------------- MODULE ConnectionStorage --------------------------
(***************************************************************************)
(* The values that connections are made of, the storage that keeps each of *)
(* them once, and the documents that carry a connection to the client      *)
(* (Address.hpp, Port.hpp, Connection.hpp, Connection.cpp,                 *)
(* ConnectionStorage.hpp).                                                 *)
(*                                                                         *)
(* A storage s maps addresses and ports to pointers, and connections, which*)
(* hold pointers, to their data:                                           *)
(*   s.addressIP4Map, s.addressIP6Map, s.portMap   value -> pointer        *)
(*   s.connectionMap   [srcAddr, dstAddr, type, srcPort, dstPort] -> data  *)
(*   s.addresses, s.ports   the AddressData and PortData behind a pointer  *)
(*                                                                         *)
(* A document is a function from the names of its members to values        *)
(* [kind, value].  Update flags are a set.  The text of an address is a    *)
(* record that only inet_pton of the same family accepts.                  *)
(***************************************************************************)
EXTENDS Integers, Sequences, SequencesExt

CONSTANT PortMod        \* 2^16 in the code

ASSUME PortModAssumption == PortMod \in Nat \ {0}

nullptr == 0

-----------------------------------------------------------------------------
\* Names.

EConnectionType == {"UDP4", "UDP6", "TCP4", "TCP6"}

CreateType(addressType, portType) ==
    CASE addressType = "IP4" /\ portType = "UDP" -> "UDP4"
      [] addressType = "IP4" /\ portType = "TCP" -> "TCP4"
      [] addressType = "IP6" /\ portType = "UDP" -> "UDP6"
      [] addressType = "IP6" /\ portType = "TCP" -> "TCP6"

TypeNames == [UDP4 |-> "udp4", UDP6 |-> "udp6", TCP4 |-> "tcp4", TCP6 |-> "tcp6"]

TypeToString(type) == TypeNames[type]

\* TypeToEnum and ActionToEnum throw for a name that nothing has.
IsTypeName(name) == \E type \in EConnectionType : TypeNames[type] = name

TypeToEnum(name) == CHOOSE type \in EConnectionType : TypeNames[type] = name

EConnectionAction == {"CREATE", "UPDATE", "REMOVE"}

\* UDP::EState and TCP::EState.
LISTEN == -1
UNKNOWN == 0

TCPStates == <<"SYN_SENT", "SYN_RECEIVED", "ESTABLISHED", "FIN_WAIT", "FIN_WAIT_1", "FIN_WAIT_2",
               "CLOSE_WAIT", "CLOSING", "LAST_ACK", "TIME_WAIT", "CLOSED">>

UDPStateToString(state) ==
    CASE state = UNKNOWN -> "" [] state = LISTEN -> "LISTEN" [] OTHER -> "?"

TCPStateToString(state) ==
    CASE state = LISTEN -> "LISTEN" [] state \in DOMAIN TCPStates -> TCPStates[state] [] OTHER -> "?"

UDPStateToEnum(name) == IF name = "LISTEN" THEN LISTEN ELSE UNKNOWN

TCPStateToEnum(name) ==
    IF name = "LISTEN" THEN LISTEN
    ELSE IF \E i \in DOMAIN TCPStates : TCPStates[i] = name
    THEN CHOOSE i \in DOMAIN TCPStates : TCPStates[i] = name ELSE UNKNOWN

StateToString(state, type) ==
    IF type \in {"UDP4", "UDP6"} THEN UDPStateToString(state) ELSE TCPStateToString(state)

-----------------------------------------------------------------------------
\* Addresses and ports.

\* AddressIP4, AddressIP6: equal when the numbers are.
IPAddress(type, number) == [type |-> type, number |-> number]

Address == [type : {"IP4", "IP6"}, number : Nat]

toString(address) == [text |-> address]

\* inet_pton of a family.
IsAddressOf(string, type) == string.text.type = type

CreateFromString(string) == string.text

\* What the resolver finds out: hostname, country and autonomous system.
AddressData(address) ==
    [address |-> address, numericString |-> toString(address), hostname |-> "", isHostnameResolved |-> FALSE,
     country |-> "", isCountryResolved |-> FALSE, asn |-> 0, isASNResolved |-> FALSE]

setResolvedHostname(data, hostname) == [data EXCEPT !.hostname = hostname, !.isHostnameResolved = TRUE]
setResolvedCountry(data, country) == [data EXCEPT !.country = country, !.isCountryResolved = TRUE]
setResolvedASN(data, asn) == [data EXCEPT !.asn = asn, !.isASNResolved = TRUE]

\* Port(type, uint16_t number).
NewPort(type, number) == [type |-> type, number |-> number % PortMod]

PortData(port) == [port |-> port, service |-> "", isServiceResolved |-> FALSE]

setResolvedService(data, service) == [data EXCEPT !.service = service, !.isServiceResolved = TRUE]

-----------------------------------------------------------------------------
\* Connections.

TrafficFields == {"rxPackets", "txPackets", "rxBytes", "txBytes", "rxSpeed", "txSpeed"}

NoTraffic == [f \in TrafficFields |-> 0]

ConnectionData(traffic, state, typeName) == [traffic |-> traffic, state |-> state, typeName |-> typeName]

EmptyStorage == [addressIP4Map |-> <<>>, addressIP6Map |-> <<>>, portMap |-> <<>>, connectionMap |-> <<>>,
                 addresses |-> <<>>, ports |-> <<>>]

\* A function with one more pair, or with one pair less.
Put(f, key, value) == [k \in DOMAIN f \cup {key} |-> IF k = key THEN value ELSE f[k]]
Without(f, key) == [k \in DOMAIN f \ {key} |-> f[k]]
Find(f, key) == IF key \in DOMAIN f THEN f[key] ELSE nullptr

\* Variant of addIP4Address: every call makes a new entry.
AddIP4AddressAgain(s, address) ==
    [s EXCEPT !.addressIP4Map = Put(@, address, Len(s.addresses) + 1), !.addresses = Append(@, AddressData(address))]

addIP4Address(s, address) ==
    IF address \in DOMAIN s.addressIP4Map THEN s
    ELSE [s EXCEPT !.addressIP4Map = Put(@, address, Len(s.addresses) + 1),
                   !.addresses = Append(@, AddressData(address))]

addIP6Address(s, address) ==
    IF address \in DOMAIN s.addressIP6Map THEN s
    ELSE [s EXCEPT !.addressIP6Map = Put(@, address, Len(s.addresses) + 1),
                   !.addresses = Append(@, AddressData(address))]

addPort(s, port) ==
    IF port \in DOMAIN s.portMap THEN s
    ELSE [s EXCEPT !.portMap = Put(@, port, Len(s.ports) + 1), !.ports = Append(@, PortData(port))]

getIP4Address(s, address) == Find(s.addressIP4Map, address)
getIP6Address(s, address) == Find(s.addressIP6Map, address)
getPort(s, port) == Find(s.portMap, port)

\* getAddress with and without add, of both receivers of connections.
addAddress(s, address) == IF address.type = "IP4" THEN addIP4Address(s, address) ELSE addIP6Address(s, address)
getAddress(s, address) == IF address.type = "IP4" THEN getIP4Address(s, address) ELSE getIP6Address(s, address)

\* Connection(srcAddress, srcPort, dstAddress, dstPort), of pointers.
NewConnection(s, srcAddr, srcPort, dstAddr, dstPort) ==
    [srcAddr |-> srcAddr, dstAddr |-> dstAddr,
     type |-> CreateType(s.addresses[srcAddr].address.type, s.ports[srcPort].port.type),
     srcPort |-> srcPort, dstPort |-> dstPort]

addConnection(s, connection, traffic, state) ==
    IF connection \in DOMAIN s.connectionMap THEN s
    ELSE [s EXCEPT !.connectionMap =
            Put(@, connection, ConnectionData(traffic, state, TypeToString(connection.type)))]

removeConnection(s, connection) == [s EXCEPT !.connectionMap = Without(@, connection)]

clearConnections(s) == [s EXCEPT !.connectionMap = <<>>]

getSrcAddr(s, connection) == s.addresses[connection.srcAddr]
getDstAddr(s, connection) == s.addresses[connection.dstAddr]
getSrcPort(s, connection) == s.ports[connection.srcPort]
getDstPort(s, connection) == s.ports[connection.dstPort]

-----------------------------------------------------------------------------
\* Documents.

\* The member that each flag stands for.
FlagMembers == [PROTO_STATE |-> "state", RX_PACKETS |-> "rxPackets", TX_PACKETS |-> "txPackets",
                RX_BYTES |-> "rxBytes", TX_BYTES |-> "txBytes", RX_SPEED |-> "rxSpeed", TX_SPEED |-> "txSpeed"]

EConnectionUpdateFlags == DOMAIN FlagMembers

Kinds == [action |-> "string", type |-> "string", srcAddress |-> "string", dstAddress |-> "string",
          srcPort |-> "uint", dstPort |-> "uint", updateFlags |-> "int", state |-> "string",
          rxPackets |-> "uint64", txPackets |-> "uint64", rxBytes |-> "uint64", txBytes |-> "uint64",
          rxSpeed |-> "uint64", txSpeed |-> "uint64"]

Always == {"action", "type", "srcAddress", "dstAddress", "srcPort", "dstPort"}

\* The members of a document, by its action and its flags.
Members(action, flags) ==
    Always \cup (IF action = "UPDATE" THEN {"updateFlags"} ELSE {})
           \cup (IF action = "REMOVE" THEN {}
                 ELSE {FlagMembers[f] : f \in IF action = "CREATE" THEN EConnectionUpdateFlags ELSE flags})

serialize(s, connection, action, updateFlags) ==
    LET data == s.connectionMap[connection]
        value(name) ==
            CASE name = "action"      -> action
              [] name = "type"        -> data.typeName
              [] name = "srcAddress"  -> getSrcAddr(s, connection).numericString
              [] name = "dstAddress"  -> getDstAddr(s, connection).numericString
              [] name = "srcPort"     -> getSrcPort(s, connection).port.number
              [] name = "dstPort"     -> getDstPort(s, connection).port.number
              [] name = "updateFlags" -> updateFlags
              [] name = "state"       -> StateToString(data.state, connection.type)
              [] OTHER                -> data.traffic[name]
    IN  [name \in Members(action, updateFlags) |-> [kind |-> Kinds[name], value |-> value(name)]]

IsMember(document, name) == name \in DOMAIN document /\ document[name].kind = Kinds[name]

\* Deserialize throws unless all the members that the document needs are there.
Parses(document) ==
    /\ \A name \in Always : IsMember(document, name)
    /\ document.action.value \in EConnectionAction
    /\ IsTypeName(document.type.value)
    /\ document.action.value = "UPDATE" => IsMember(document, "updateFlags")
    /\ LET flags == IF document.action.value = "UPDATE" THEN document.updateFlags.value ELSE {}
       IN  \A name \in Members(document.action.value, flags) : IsMember(document, name)

ParsedState(document, type) ==
    IF type \in {"UDP4", "UDP6"} THEN UDPStateToEnum(document.state.value) ELSE TCPStateToEnum(document.state.value)

ParsedTraffic(document) == [f \in TrafficFields |-> document[f].value]

\* Variant of Overwritten: what the flags do not name becomes zero.
OverwrittenWithZero(data, document, type) ==
    LET flags == document.updateFlags.value
    IN  [data EXCEPT !.state = IF "PROTO_STATE" \in flags THEN ParsedState(document, type) ELSE @,
                     !.traffic = [f \in TrafficFields |->
                        IF \E flag \in flags : FlagMembers[flag] = f THEN document[f].value ELSE 0]]

\* UPDATE: each member that a flag names is written over the connection's data.
Overwritten(data, document, type) ==
    LET flags == document.updateFlags.value
    IN  [data EXCEPT !.state = IF "PROTO_STATE" \in flags THEN ParsedState(document, type) ELSE @,
                     !.traffic = [f \in TrafficFields |->
                        IF \E flag \in flags : FlagMembers[flag] = f THEN document[f].value ELSE @[f]]]

AddressType(type) == IF type \in {"UDP4", "TCP4"} THEN "IP4" ELSE "IP6"
PortType(type) == IF type \in {"UDP4", "UDP6"} THEN "UDP" ELSE "TCP"

=============================================================================

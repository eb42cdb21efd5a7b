------------------------- MODULE ConnectionTransfer -------------------------
(***************************************************************************)
(* Connections on their way from the server's storage to the client's      *)
(* list, whose addresses and ports the resolver names: the server's        *)
(* serializers (Server.hpp), ConnectionData::Deserialize (Connection.cpp), *)
(* ConnectionList as its receiver (ConnectionList.cpp) and the resolver's  *)
(* requests and results (Resolver.cpp).                                    *)
(*                                                                         *)
(* The order in which rows are shown is the matter of ConnectionList; the  *)
(* session that carries the messages is that of DataSync.                  *)
(***************************************************************************)
EXTENDS ConnectionStorage

CONSTANTS
    Flows,          \* connections, by value: [type, src, sport, dst, dport]
    Known,          \* addresses and ports of which the resolver finds something
    Enabled,        \* what it may look up: "hostname", "geoip", "service"
    UpdateFlags,    \* the flags that the collector's updates have together
    MaxChanges,     \* how often the server's connections change
    Faulty,         \* the members that a document of another make may lack
    MaxForeign      \* how many documents no serializer of ours has made

\* A connection by its value: both ends are of the family of its type.
IsFlow(flow) ==
    /\ flow \in [type : EConnectionType, src : Address, sport : 0..PortMod - 1, dst : Address, dport : 0..PortMod - 1]
    /\ flow.src.type = AddressType(flow.type)
    /\ flow.dst.type = AddressType(flow.type)

ASSUME TransferAssumption ==
    /\ \A flow \in Flows : IsFlow(flow)
    /\ UpdateFlags \subseteq SUBSET EConnectionUpdateFlags

\* ConnectionList: the receiver of connections.
EmptyList == [storage |-> EmptyStorage, dataTotalCount |-> 0, dataResolvedCount |-> 0, requests |-> <<>>]

VARIABLES
    server,     \* m_connectionStorage
    documents,  \* the difference since the last update
    wire,       \* messages in transit: [isUpdate, data]
    list,       \* ConnectionList, with the requests it has handed to the resolver
    results,    \* ResolverEvents that wait to be dispatched
    session,    \* "open", or "failed" after an exception
    changes, foreign    \* counters of the bounds

vars == <<server, documents, wire, list, results, session, changes, foreign>>

Init ==
    /\ server = EmptyStorage /\ documents = <<>>
    /\ wire = <<>> /\ session = "open"
    /\ list = EmptyList /\ results = <<>>
    /\ changes = 0 /\ foreign = 0

-----------------------------------------------------------------------------
\* A connection of the storage by its value.
FlowOf(s, connection) ==
    [type |-> connection.type,
     src |-> getSrcAddr(s, connection).address, sport |-> getSrcPort(s, connection).port.number,
     dst |-> getDstAddr(s, connection).address, dport |-> getDstPort(s, connection).port.number]

\* The addresses and the ports of a flow, looked up or added first.
WithFlow(s, flow) ==
    addPort(addPort(addAddress(addAddress(s, flow.src), flow.dst),
                    NewPort(PortType(flow.type), flow.sport)), NewPort(PortType(flow.type), flow.dport))

ConnectionOf(s, flow) ==
    NewConnection(s, getAddress(s, flow.src), getPort(s, NewPort(PortType(flow.type), flow.sport)),
                     getAddress(s, flow.dst), getPort(s, NewPort(PortType(flow.type), flow.dport)))

States(type) == IF PortType(type) = "UDP" THEN {LISTEN, UNKNOWN} ELSE {UNKNOWN, 3}

Change == changes < MaxChanges /\ changes' = changes + 1 /\ UNCHANGED <<wire, list, results, session, foreign>>

\* ConnectionUpdateSerializer::add, called by the collector.
add(flow, state) ==
    /\ Change
    /\ LET s == WithFlow(server, flow)
           connection == ConnectionOf(s, flow)
           added == addConnection(s, connection, NoTraffic, state)
       IN  /\ connection \notin DOMAIN server.connectionMap
           /\ server' = added
           /\ documents' = Append(documents, serialize(added, connection, "CREATE", {}))

\* What the collector writes into the data of a connection: each member that a
\* flag names gets another value, of which the next one stands for any, and the
\* others stay.  How the values come about is the matter of Conntrack.
CollectedData(data, flags, state) ==
    [data EXCEPT !.state = IF "PROTO_STATE" \in flags THEN state ELSE @,
                 !.traffic = [f \in TrafficFields |->
                    IF \E flag \in flags : FlagMembers[flag] = f THEN @[f] + 1 ELSE @[f]]]

\* ConnectionUpdateSerializer::update: the collector has changed the data.
update(connection, flags, state) ==
    /\ Change
    /\ LET changed == [server EXCEPT !.connectionMap[connection] = CollectedData(@, flags, state)]
       IN  /\ server' = changed
           /\ documents' = Append(documents, serialize(changed, connection, "UPDATE", flags))

\* ConnectionUpdateSerializer::remove.
remove(connection) ==
    /\ Change
    /\ server' = removeConnection(server, connection)
    /\ documents' = Append(documents, serialize(server, connection, "REMOVE", {}))

\* What the server sends after an update: the difference, or all of its
\* connections in the order of its hash map.
Send(isUpdate, data) ==
    /\ wire = <<>>
    /\ session = "open"
    /\ wire' = <<[isUpdate |-> isUpdate, data |-> data]>>
    /\ documents' = <<>>
    /\ UNCHANGED <<server, list, results, session, changes, foreign>>

SendUpdate == documents # <<>> /\ Send(TRUE, documents)

SendAll ==
    \E order \in SetToSeqs(DOMAIN server.connectionMap) :
        Send(FALSE, [i \in DOMAIN order |-> serialize(server, order[i], "CREATE", {})])

\* A server of another make: a member is missing or of the wrong kind, an
\* address is of the other family, a name is unknown, or a port number does not
\* fit into 16 bits, which the client cuts off.
Spoiled(document) ==
    {Without(document, name) : name \in DOMAIN document \cap Faulty}
    \cup {[document EXCEPT ![name].kind = "null"] : name \in DOMAIN document \cap Faulty}
    \cup {[document EXCEPT !.dstAddress.value.text.type = IF @ = "IP4" THEN "IP6" ELSE "IP4"]}
    \cup {[document EXCEPT !.type.value = "sctp4"], [document EXCEPT !.action.value = "MOVE"],
          [document EXCEPT !.srcPort.value = @ + PortMod]}

SendForeign ==
    /\ wire = <<>> /\ session = "open" /\ documents # <<>> /\ foreign < MaxForeign
    /\ foreign' = foreign + 1
    /\ \E i \in DOMAIN documents : \E document \in Spoiled(documents[i]) :
        wire' = <<[isUpdate |-> TRUE, data |-> [documents EXCEPT ![i] = document]]>>
    /\ documents' = <<>>
    /\ UNCHANGED <<server, list, results, session, changes>>

-----------------------------------------------------------------------------
\* A request that waits for the resolver.
Request(kind, data) == [kind |-> kind, data |-> data]

\* Variant of ListAddAddress: an address is resolved whenever it is needed.
ListAddAddressAgain(l, address) ==
    LET s == addAddress(l.storage, address)
    IN  [l EXCEPT !.storage = s, !.dataTotalCount = @ + 1,
                  !.requests = Append(@, Request("address", getAddress(s, address)))]

\* ConnectionList::getAddress with add: a new address is counted and resolved.
ListAddAddress(l, address) ==
    LET s == addAddress(l.storage, address)
    IN  IF s = l.storage THEN l
        ELSE [l EXCEPT !.storage = s, !.dataTotalCount = @ + 1,
                       !.requests = Append(@, Request("address", getAddress(s, address)))]

ListAddPort(l, port) ==
    LET s == addPort(l.storage, port)
    IN  IF s = l.storage THEN l
        ELSE [l EXCEPT !.storage = s, !.dataTotalCount = @ + 1,
                       !.requests = Append(@, Request("port", getPort(s, port)))]

\* ConnectionData::Deserialize.  The source address is in the list before the
\* destination address is parsed.
Deserialize(r, document) ==
    LET type == TypeToEnum(document.type.value)
        adding == document.action.value = "CREATE"
        src == document.srcAddress.value
        dst == document.dstAddress.value
        srcPort == NewPort(PortType(type), document.srcPort.value)
        dstPort == NewPort(PortType(type), document.dstPort.value)
        l1 == IF adding THEN ListAddAddress(r.list, CreateFromString(src)) ELSE r.list
        l2 == IF adding THEN ListAddAddress(l1, CreateFromString(dst)) ELSE l1
        l3 == IF adding THEN ListAddPort(ListAddPort(l2, srcPort), dstPort) ELSE l2
        s == l3.storage
        pointers == <<getAddress(s, CreateFromString(src)), getAddress(s, CreateFromString(dst)),
                      getPort(s, srcPort), getPort(s, dstPort)>>
        connection == NewConnection(s, pointers[1], pointers[3], pointers[2], pointers[4])
    IN  IF r.thrown THEN r
        ELSE IF ~Parses(document) \/ ~IsAddressOf(src, AddressType(type)) THEN [r EXCEPT !.thrown = TRUE]
        ELSE IF ~IsAddressOf(dst, AddressType(type)) THEN [list |-> l1, thrown |-> TRUE]
        ELSE IF \E i \in DOMAIN pointers : pointers[i] = nullptr THEN r
        ELSE IF adding
        THEN [r EXCEPT !.list = [l3 EXCEPT !.storage =
                addConnection(s, connection, ParsedTraffic(document), ParsedState(document, type))]]
        ELSE IF connection \notin DOMAIN s.connectionMap THEN r
        ELSE IF document.action.value = "UPDATE"
        THEN [r EXCEPT !.list.storage.connectionMap[connection] = Overwritten(@, document, type)]
        ELSE [r EXCEPT !.list.storage = removeConnection(@, connection)]

\* The loop over a message's documents, which an exception ends.
Deserialized(l, data) ==
    LET after[n \in 0..Len(data)] ==
            IF n = 0 THEN [list |-> l, thrown |-> FALSE] ELSE Deserialize(after[n - 1], data[n])
    IN  after[Len(data)]

\* Client::onSessionData.
Receive ==
    /\ wire # <<>> /\ session = "open"
    /\ LET message == Head(wire)
           before == IF message.isUpdate THEN list ELSE [list EXCEPT !.storage = clearConnections(@)]
           after == Deserialized(before, message.data)
       IN  /\ list' = after.list
           /\ session' = IF after.thrown THEN "failed" ELSE "open"
    /\ wire' = Tail(wire)
    /\ UNCHANGED <<server, documents, results, changes, foreign>>

\* The client connects again.  It asks for all data first.
Reconnect ==
    /\ session = "failed"
    /\ session' = "open"
    /\ documents' = <<>>
    /\ \E order \in SetToSeqs(DOMAIN server.connectionMap) :
        wire' = <<[isUpdate |-> FALSE, data |-> [i \in DOMAIN order |-> serialize(server, order[i], "CREATE", {})]]>>
    /\ UNCHANGED <<server, list, results, changes, foreign>>

-----------------------------------------------------------------------------
\* What the resolver finds out.
processAddress(address) ==
    LET known == address \in Known
    IN  [hostname |-> IF known /\ "hostname" \in Enabled THEN "found" ELSE "",
         country |-> IF known /\ "geoip" \in Enabled THEN "found" ELSE "",
         asn |-> IF known /\ "geoip" \in Enabled THEN 1 ELSE 0]

processPort(port) == [service |-> IF port \in Known /\ "service" \in Enabled THEN "found" ELSE ""]

\* The resolver thread reads the address or the port behind the pointer.
Resolve ==
    /\ list.requests # <<>>
    /\ LET request == Head(list.requests)
       IN  results' = Append(results, [request |-> request,
                resolved |-> IF request.kind = "address" THEN processAddress(list.storage.addresses[request.data].address)
                             ELSE processPort(list.storage.ports[request.data].port)])
    /\ list' = [list EXCEPT !.requests = Tail(@)]
    /\ UNCHANGED <<server, documents, wire, session, changes, foreign>>

ResolverCallbackAddress(l, data, resolved) ==
    [l EXCEPT !.storage.addresses[data] =
                setResolvedASN(setResolvedCountry(setResolvedHostname(@, resolved.hostname), resolved.country), resolved.asn),
              !.dataResolvedCount = @ + 1]

ResolverCallbackPort(l, data, resolved) ==
    [l EXCEPT !.storage.ports[data] = setResolvedService(@, resolved.service), !.dataResolvedCount = @ + 1]

\* The main thread dispatches a ResolverEvent.
onEvent ==
    /\ results # <<>>
    /\ LET r == Head(results)
       IN  list' = IF r.request.kind = "address" THEN ResolverCallbackAddress(list, r.request.data, r.resolved)
                   ELSE ResolverCallbackPort(list, r.request.data, r.resolved)
    /\ results' = Tail(results)
    /\ UNCHANGED <<server, documents, wire, session, changes, foreign>>

Next ==
    \/ \E flow \in Flows : \E state \in States(flow.type) : add(flow, state)
    \/ \E connection \in DOMAIN server.connectionMap :
        \/ \E flags \in UpdateFlags, state \in States(connection.type) : update(connection, flags, state)
        \/ remove(connection)
    \/ SendUpdate \/ SendAll \/ SendForeign
    \/ Receive \/ Reconnect
    \/ Resolve \/ onEvent

Spec == Init /\ [][Next]_vars

-----------------------------------------------------------------------------
\* Properties.

\* Connection's operator== compares pointers, so the list relies on the storage
\* to keep each address and each port once: two connections of the list are
\* never the same flow, and the pointers of a connection are the ones that the
\* next document about it will find.
PointersAreValues ==
    \A c \in DOMAIN list.storage.connectionMap :
        /\ ConnectionOf(list.storage, FlowOf(list.storage, c)) = c
        /\ \A d \in DOMAIN list.storage.connectionMap : FlowOf(list.storage, c) = FlowOf(list.storage, d) => c = d

\* A storage by value.
Contents(s) == {[flow |-> FlowOf(s, c), data |-> s.connectionMap[c]] : c \in DOMAIN s.connectionMap}

\* The client's list is the server's storage once every difference has arrived:
\* the names of states and types, the addresses as text and the members that the
\* flags select come back as they were, whatever was rejected in between.
MirrorsServer ==
    wire = <<>> /\ documents = <<>> /\ session = "open" => Contents(list.storage) = Contents(server)

\* Nodes of the list, as the resolver's requests name them.
Nodes ==
    {Request("address", a) : a \in DOMAIN list.storage.addresses}
    \cup {Request("port", p) : p \in DOMAIN list.storage.ports}

IsResolved(node) ==
    IF node.kind = "address" THEN list.storage.addresses[node.data].isHostnameResolved
    ELSE list.storage.ports[node.data].isServiceResolved

\* Every address and every port is asked for once, in whatever message it came
\* and although the list is cleared: it waits at the resolver, or for the main
\* thread, or is resolved, and the status line's counters say how many are.
EachIsResolvedOnce ==
    LET pending == list.requests \o [i \in DOMAIN results |-> results[i].request]
    IN  /\ {pending[i] : i \in DOMAIN pending} = {node \in Nodes : ~IsResolved(node)}
        /\ Len(pending) = list.dataTotalCount - list.dataResolvedCount
        /\ list.dataTotalCount = Len(list.storage.addresses) + Len(list.storage.ports)

=============================================================================

---------------------- MODULE ConnectionTransferProofs ----------------------
(***************************************************************************)
(* Proofs about ConnectionTransfer, for any flows, any changes of them, any*)
(* answers of the resolver and any number of foreign documents.            *)
(*                                                                         *)
(* A storage is well formed (StorageOK) when its maps lead to each address *)
(* and each port, and back; it is compared by its Contents, the set of its *)
(* flows with their data.  Applied(C, d) is what a document d says of such *)
(* a set, without pointers, and Leads(C, q, D) that the documents q make D *)
(* of C.  Three arguments meet in the invariant: what the serializer       *)
(* writes, the deserializer reads (CarriesMade, CreatedComesBack,          *)
(* UpdatedComesBack); what the client does with pointers is what Applied   *)
(* does with values (DeserializeOK); and the resolver's requests and       *)
(* answers are the unresolved nodes of the list, each once (ListOK).       *)
(***************************************************************************)
EXTENDS ConnectionTransfer, FiniteSetTheorems, FunctionTheorems, WellFoundedInduction, TLAPS

-----------------------------------------------------------------------------
(***************************************************************************)
(* A storage: what it is made of, and that its maps lead to each address   *)
(* and each port, and back.                                                *)
(***************************************************************************)
Port == [type : {"UDP", "TCP"}, number : 0..PortMod - 1]

AddressDatas ==
    [address : Address, numericString : [text : Address], hostname : {"", "found"}, isHostnameResolved : BOOLEAN,
     country : {"", "found"}, isCountryResolved : BOOLEAN, asn : Nat, isASNResolved : BOOLEAN]

PortDatas == [port : Port, service : {"", "found"}, isServiceResolved : BOOLEAN]

Shape(s) ==
    s = [addressIP4Map |-> s.addressIP4Map, addressIP6Map |-> s.addressIP6Map, portMap |-> s.portMap,
         connectionMap |-> s.connectionMap, addresses |-> s.addresses, ports |-> s.ports]

MapsOK(s) ==
    /\ \A a \in DOMAIN s.addressIP4Map : s.addressIP4Map[a] # nullptr
    /\ \A a \in DOMAIN s.addressIP6Map : s.addressIP6Map[a] # nullptr
    /\ \A a \in DOMAIN s.portMap : s.portMap[a] # nullptr

AddressesOK(s) ==
    /\ s.addresses \in Seq(AddressDatas)
    /\ \A p \in 1..Len(s.addresses) : s.addresses[p].numericString = toString(s.addresses[p].address)
    /\ \A p \in 1..Len(s.addresses) : getAddress(s, s.addresses[p].address) = p
    /\ \A a \in Address : getAddress(s, a) # nullptr =>
            getAddress(s, a) \in 1..Len(s.addresses) /\ s.addresses[getAddress(s, a)].address = a

PortsOK(s) ==
    /\ s.ports \in Seq(PortDatas)
    /\ \A p \in 1..Len(s.ports) : getPort(s, s.ports[p].port) = p
    /\ \A a \in Port : getPort(s, a) # nullptr =>
            getPort(s, a) \in 1..Len(s.ports) /\ s.ports[getPort(s, a)].port = a

\* The pointers of a connection are into the storage, and its ends are of its type.
IsConnection(s, c) ==
    /\ c \in [srcAddr : 1..Len(s.addresses), dstAddr : 1..Len(s.addresses), type : EConnectionType,
              srcPort : 1..Len(s.ports), dstPort : 1..Len(s.ports)]
    /\ s.addresses[c.srcAddr].address.type = AddressType(c.type)
    /\ s.addresses[c.dstAddr].address.type = AddressType(c.type)
    /\ s.ports[c.srcPort].port.type = PortType(c.type)
    /\ s.ports[c.dstPort].port.type = PortType(c.type)

ConnectionsOK(s) ==
    /\ IsFiniteSet(DOMAIN s.connectionMap)
    /\ \A c \in DOMAIN s.connectionMap : IsConnection(s, c)

PlacesOK(s) == Shape(s) /\ MapsOK(s) /\ AddressesOK(s) /\ PortsOK(s)

StorageOK(s) == PlacesOK(s) /\ ConnectionsOK(s)

-----------------------------------------------------------------------------
\* Lemmas on the maps and the arrays.

\* What addAddress does to a storage (ConnectionStorage::getAddress).
AddressAdded(s, a, t) ==
    IF getAddress(s, a) # nullptr THEN t = s
    ELSE /\ Shape(t) /\ MapsOK(t)
         /\ t.addresses = Append(s.addresses, AddressData(a))
         /\ t.portMap = s.portMap /\ t.ports = s.ports /\ t.connectionMap = s.connectionMap
         /\ \A b \in Address : getAddress(t, b) = IF b = a THEN Len(s.addresses) + 1 ELSE getAddress(s, b)

\* An address is added unless the map of its family has it (ConnectionStorage::addIP4Address,
\* addIP6Address).
LEMMA AddAddressAdds ==
    ASSUME NEW s, PlacesOK(s), NEW a \in Address, NEW t, t = addAddress(s, a)
    PROVE  AddressAdded(s, a, t)
<1>1. PICK n : n = Len(s.addresses) + 1
  OBVIOUS
<1>2. n \in Nat /\ n # nullptr
  BY <1>1 DEF PlacesOK, AddressesOK, nullptr
<1>3. CASE a.type = "IP4" /\ a \notin DOMAIN s.addressIP4Map
  <2>1. t = [s EXCEPT !.addressIP4Map = Put(@, a, n), !.addresses = Append(@, AddressData(a))]
    BY <1>1, <1>3 DEF addAddress, addIP4Address
  <2>2. /\ t.addressIP4Map = Put(s.addressIP4Map, a, n) /\ t.addressIP6Map = s.addressIP6Map
        /\ t.addresses = Append(s.addresses, AddressData(a)) /\ Shape(t)
        /\ t.portMap = s.portMap /\ t.ports = s.ports /\ t.connectionMap = s.connectionMap
    BY <2>1 DEF PlacesOK, Shape
  <2>3. MapsOK(t)
    BY <1>2, <2>2 DEF PlacesOK, MapsOK, Put
  <2>4. ASSUME NEW b \in Address PROVE getAddress(t, b) = IF b = a THEN n ELSE getAddress(s, b)
    BY <1>3, <2>2 DEF getAddress, getIP4Address, getIP6Address, Find, Put
  <2>5. getAddress(s, a) = nullptr
    BY <1>3 DEF getAddress, getIP4Address, Find
  <2> QED BY <1>1, <2>2, <2>3, <2>4, <2>5 DEF AddressAdded
<1>4. CASE a.type # "IP4" /\ a \notin DOMAIN s.addressIP6Map
  <2>1. t = [s EXCEPT !.addressIP6Map = Put(@, a, n), !.addresses = Append(@, AddressData(a))]
    BY <1>1, <1>4 DEF addAddress, addIP6Address
  <2>2. /\ t.addressIP6Map = Put(s.addressIP6Map, a, n) /\ t.addressIP4Map = s.addressIP4Map
        /\ t.addresses = Append(s.addresses, AddressData(a)) /\ Shape(t)
        /\ t.portMap = s.portMap /\ t.ports = s.ports /\ t.connectionMap = s.connectionMap
    BY <2>1 DEF PlacesOK, Shape
  <2>3. MapsOK(t)
    BY <1>2, <2>2 DEF PlacesOK, MapsOK, Put
  <2>4. ASSUME NEW b \in Address PROVE getAddress(t, b) = IF b = a THEN n ELSE getAddress(s, b)
    BY <1>4, <2>2 DEF getAddress, getIP4Address, getIP6Address, Find, Put
  <2>5. getAddress(s, a) = nullptr
    BY <1>4 DEF getAddress, getIP6Address, Find
  <2> QED BY <1>1, <2>2, <2>3, <2>4, <2>5 DEF AddressAdded
<1>5. CASE a.type = "IP4" /\ a \in DOMAIN s.addressIP4Map
  <2>1. t = s
    BY <1>5 DEF addAddress, addIP4Address
  <2>2. getAddress(s, a) # nullptr
    BY <1>5 DEF getAddress, getIP4Address, Find, PlacesOK, MapsOK
  <2> QED BY <2>1, <2>2 DEF AddressAdded
<1>6. CASE a.type # "IP4" /\ a \in DOMAIN s.addressIP6Map
  <2>1. t = s
    BY <1>6 DEF addAddress, addIP6Address
  <2>2. getAddress(s, a) # nullptr
    BY <1>6 DEF getAddress, getIP6Address, Find, PlacesOK, MapsOK
  <2> QED BY <2>1, <2>2 DEF AddressAdded
<1> QED BY <1>3, <1>4, <1>5, <1>6

\* What addPort does to a storage (ConnectionStorage::getPort).
PortAdded(s, a, t) ==
    IF getPort(s, a) # nullptr THEN t = s
    ELSE /\ Shape(t) /\ MapsOK(t)
         /\ t.ports = Append(s.ports, PortData(a))
         /\ t.addressIP4Map = s.addressIP4Map /\ t.addressIP6Map = s.addressIP6Map
         /\ t.addresses = s.addresses /\ t.connectionMap = s.connectionMap
         /\ \A b \in Port : getPort(t, b) = IF b = a THEN Len(s.ports) + 1 ELSE getPort(s, b)

\* A port is added unless the map has it (ConnectionStorage::addPort).
LEMMA AddPortAdds ==
    ASSUME NEW s, PlacesOK(s), NEW a \in Port, NEW t, t = addPort(s, a)
    PROVE  PortAdded(s, a, t)
<1>1. PICK n : n = Len(s.ports) + 1
  OBVIOUS
<1>2. n \in Nat /\ n # nullptr
  BY <1>1 DEF PlacesOK, PortsOK, nullptr
<1>3. CASE a \notin DOMAIN s.portMap
  <2>1. t = [s EXCEPT !.portMap = Put(@, a, n), !.ports = Append(@, PortData(a))]
    BY <1>1, <1>3 DEF addPort
  <2>2. /\ t.addressIP4Map = s.addressIP4Map /\ t.addressIP6Map = s.addressIP6Map
        /\ t.addresses = s.addresses /\ Shape(t)
        /\ t.portMap = Put(s.portMap, a, n) /\ t.ports = Append(s.ports, PortData(a))
        /\ t.connectionMap = s.connectionMap
    BY <2>1 DEF PlacesOK, Shape
  <2>3. MapsOK(t)
    BY <1>2, <2>2 DEF PlacesOK, MapsOK, Put
  <2>4. ASSUME NEW b \in Port PROVE getPort(t, b) = IF b = a THEN n ELSE getPort(s, b)
    BY <1>3, <2>2 DEF getPort, Find, Put
  <2>5. getPort(s, a) = nullptr
    BY <1>3 DEF getPort, Find
  <2> QED BY <1>1, <2>2, <2>3, <2>4, <2>5 DEF PortAdded
<1>4. CASE a \in DOMAIN s.portMap
  <2>1. t = s
    BY <1>4 DEF addPort
  <2>2. getPort(s, a) # nullptr
    BY <1>4 DEF getPort, Find, PlacesOK, MapsOK
  <2> QED BY <2>1, <2>2 DEF PortAdded
<1> QED BY <1>3, <1>4

\* What is in the storage stays where it is.
Grown(s, t) ==
    /\ Len(s.addresses) <= Len(t.addresses) /\ \A p \in 1..Len(s.addresses) : t.addresses[p] = s.addresses[p]
    /\ Len(s.ports) <= Len(t.ports) /\ \A p \in 1..Len(s.ports) : t.ports[p] = s.ports[p]
    /\ t.connectionMap = s.connectionMap
    /\ \A a \in Address : getAddress(s, a) # nullptr => getAddress(t, a) # nullptr
    /\ \A a \in Port : getPort(s, a) # nullptr => getPort(t, a) # nullptr

\* Growing once more.
LEMMA GrownTrans ==
    ASSUME NEW s, NEW t, NEW u, PlacesOK(s), PlacesOK(t), PlacesOK(u), Grown(s, t), Grown(t, u)
    PROVE  Grown(s, u)
<1>1. /\ Len(s.addresses) \in Nat /\ Len(t.addresses) \in Nat /\ Len(u.addresses) \in Nat
      /\ Len(s.ports) \in Nat /\ Len(t.ports) \in Nat /\ Len(u.ports) \in Nat
  BY DEF PlacesOK, AddressesOK, PortsOK
<1>2. Len(s.addresses) <= Len(u.addresses) /\ Len(s.ports) <= Len(u.ports) /\ u.connectionMap = s.connectionMap
  BY <1>1 DEF Grown
<1>3. \A p \in 1..Len(s.addresses) : u.addresses[p] = s.addresses[p]
  <2> TAKE p \in 1..Len(s.addresses)
  <2>1. p \in 1..Len(t.addresses)
    BY <1>1 DEF Grown
  <2> QED BY <2>1 DEF Grown
<1>4. \A p \in 1..Len(s.ports) : u.ports[p] = s.ports[p]
  <2> TAKE p \in 1..Len(s.ports)
  <2>1. p \in 1..Len(t.ports)
    BY <1>1 DEF Grown
  <2> QED BY <2>1 DEF Grown
<1>5. \A a \in Address : getAddress(s, a) # nullptr => getAddress(u, a) # nullptr
  BY DEF Grown
<1>6. \A a \in Port : getPort(s, a) # nullptr => getPort(u, a) # nullptr
  BY DEF Grown
<1> QED BY <1>2, <1>3, <1>4, <1>5, <1>6 DEF Grown

\* A storage that was given an address is well formed and finds it (getAddress with add).
LEMMA AddAddressGrows ==
    ASSUME NEW s, PlacesOK(s), NEW a \in Address, NEW t, t = addAddress(s, a)
    PROVE  PlacesOK(t) /\ Grown(s, t) /\ getAddress(t, a) # nullptr
<1>1. AddressAdded(s, a, t)
  BY AddAddressAdds
<1>2. PICK A, n : A = s.addresses /\ n = Len(A)
  OBVIOUS
<1>3. A \in Seq(AddressDatas) /\ n \in Nat
  BY <1>2 DEF PlacesOK, AddressesOK
<1>4. CASE getAddress(s, a) # nullptr
  <2>1. t = s
    BY <1>1, <1>4 DEF AddressAdded
  <2>2. Len(s.ports) \in Nat
    BY DEF PlacesOK, PortsOK
  <2> QED BY <1>2, <1>3, <1>4, <2>1, <2>2 DEF Grown
<1>5. CASE getAddress(s, a) = nullptr
  <2>1. /\ Shape(t) /\ MapsOK(t) /\ t.addresses = Append(A, AddressData(a))
        /\ t.portMap = s.portMap /\ t.ports = s.ports /\ t.connectionMap = s.connectionMap
        /\ \A b \in Address : getAddress(t, b) = IF b = a THEN n + 1 ELSE getAddress(s, b)
    BY <1>1, <1>2, <1>5 DEF AddressAdded
  <2>2. PICK d : d = AddressData(a)
    OBVIOUS
  <2>3. d \in AddressDatas /\ d.address = a /\ d.numericString = toString(a)
    BY <2>2 DEF AddressData, AddressDatas, toString
  <2>4. /\ t.addresses \in Seq(AddressDatas) /\ Len(t.addresses) = n + 1 /\ t.addresses[n + 1] = d
        /\ \A p \in 1..n : t.addresses[p] = A[p]
    BY <1>2, <1>3, <2>1, <2>2, <2>3
  <2>5. \A p \in 1..n : A[p] \in AddressDatas /\ getAddress(s, A[p].address) = p
    BY <1>2, <1>3 DEF PlacesOK, AddressesOK
  <2>6. \A p \in 1..n : A[p].address \in Address /\ A[p].address # a
    <3> TAKE p \in 1..n
    <3>1. A[p].address \in Address
      BY <2>5 DEF AddressDatas
    <3>2. p # nullptr
      BY <1>3 DEF nullptr
    <3>3. CASE A[p].address = a
      BY <1>5, <2>5, <3>2, <3>3
    <3> QED BY <3>1, <3>3
  <2>7. AddressesOK(t)
    <3>1. \A p \in 1..n + 1 : t.addresses[p].numericString = toString(t.addresses[p].address)
      <4>1. \A p \in 1..n : A[p].numericString = toString(A[p].address)
        BY <1>2 DEF PlacesOK, AddressesOK
      <4> QED BY <1>3, <2>3, <2>4, <4>1
    <3>2. \A p \in 1..n + 1 : getAddress(t, t.addresses[p].address) = p
      BY <1>3, <2>1, <2>3, <2>4, <2>5, <2>6
    <3>3. ASSUME NEW b \in Address, getAddress(t, b) # nullptr
          PROVE  getAddress(t, b) \in 1..n + 1 /\ t.addresses[getAddress(t, b)].address = b
      <4>1. CASE b = a
        BY <1>3, <2>1, <2>3, <2>4, <4>1
      <4>2. CASE b # a
        <5>1. getAddress(t, b) = getAddress(s, b)
          BY <2>1, <4>2
        <5>2. getAddress(s, b) \in 1..n /\ A[getAddress(s, b)].address = b
          BY <1>2, <3>3, <5>1 DEF PlacesOK, AddressesOK
        <5> QED BY <1>3, <2>4, <5>1, <5>2
      <4> QED BY <4>1, <4>2
    <3> QED BY <2>4, <3>1, <3>2, <3>3 DEF AddressesOK
  <2>8. PortsOK(t)
    BY <2>1 DEF PlacesOK, PortsOK, getPort
  <2>9. Grown(s, t)
    <3>1. Len(s.ports) \in Nat
      BY DEF PlacesOK, PortsOK
    <3>2. \A b \in Port : getPort(t, b) = getPort(s, b)
      BY <2>1 DEF getPort
    <3>3. \A b \in Address : getAddress(s, b) # nullptr => getAddress(t, b) # nullptr
      BY <1>5, <2>1
    <3> QED BY <1>2, <1>3, <2>1, <2>4, <3>1, <3>2, <3>3 DEF Grown
  <2> QED BY <1>3, <2>1, <2>7, <2>8, <2>9 DEF PlacesOK, nullptr
<1> QED BY <1>4, <1>5

\* A storage that was given a port is well formed and finds it (getPort with add).
LEMMA AddPortGrows ==
    ASSUME NEW s, PlacesOK(s), NEW a \in Port, NEW t, t = addPort(s, a)
    PROVE  PlacesOK(t) /\ Grown(s, t) /\ getPort(t, a) # nullptr
<1>1. PortAdded(s, a, t)
  BY AddPortAdds
<1>2. PICK A, n : A = s.ports /\ n = Len(A)
  OBVIOUS
<1>3. A \in Seq(PortDatas) /\ n \in Nat
  BY <1>2 DEF PlacesOK, PortsOK
<1>4. CASE getPort(s, a) # nullptr
  <2>1. t = s
    BY <1>1, <1>4 DEF PortAdded
  <2>2. Len(s.addresses) \in Nat
    BY DEF PlacesOK, AddressesOK
  <2> QED BY <1>2, <1>3, <1>4, <2>1, <2>2 DEF Grown
<1>5. CASE getPort(s, a) = nullptr
  <2>1. /\ Shape(t) /\ MapsOK(t) /\ t.ports = Append(A, PortData(a))
        /\ t.addressIP4Map = s.addressIP4Map /\ t.addressIP6Map = s.addressIP6Map
        /\ t.addresses = s.addresses /\ t.connectionMap = s.connectionMap
        /\ \A b \in Port : getPort(t, b) = IF b = a THEN n + 1 ELSE getPort(s, b)
    BY <1>1, <1>2, <1>5 DEF PortAdded
  <2>2. PICK d : d = PortData(a)
    OBVIOUS
  <2>3. d \in PortDatas /\ d.port = a
    BY <2>2 DEF PortData, PortDatas
  <2>4. /\ t.ports \in Seq(PortDatas) /\ Len(t.ports) = n + 1 /\ t.ports[n + 1] = d
        /\ \A p \in 1..n : t.ports[p] = A[p]
    BY <1>2, <1>3, <2>1, <2>2, <2>3
  <2>5. \A p \in 1..n : A[p] \in PortDatas /\ getPort(s, A[p].port) = p
    BY <1>2, <1>3 DEF PlacesOK, PortsOK
  <2>6. \A p \in 1..n : A[p].port \in Port /\ A[p].port # a
    <3> TAKE p \in 1..n
    <3>1. A[p].port \in Port
      BY <2>5 DEF PortDatas
    <3>2. p # nullptr
      BY <1>3 DEF nullptr
    <3>3. CASE A[p].port = a
      BY <1>5, <2>5, <3>2, <3>3
    <3> QED BY <3>1, <3>3
  <2>7. PortsOK(t)
    <3>1. \A p \in 1..n + 1 : getPort(t, t.ports[p].port) = p
      BY <1>3, <2>1, <2>3, <2>4, <2>5, <2>6
    <3>2. ASSUME NEW b \in Port, getPort(t, b) # nullptr
          PROVE  getPort(t, b) \in 1..n + 1 /\ t.ports[getPort(t, b)].port = b
      <4>1. CASE b = a
        BY <1>3, <2>1, <2>3, <2>4, <4>1
      <4>2. CASE b # a
        <5>1. getPort(t, b) = getPort(s, b)
          BY <2>1, <4>2
        <5>2. getPort(s, b) \in 1..n /\ A[getPort(s, b)].port = b
          BY <1>2, <3>2, <5>1 DEF PlacesOK, PortsOK
        <5> QED BY <1>3, <2>4, <5>1, <5>2
      <4> QED BY <4>1, <4>2
    <3> QED BY <2>4, <3>1, <3>2 DEF PortsOK
  <2>8. AddressesOK(t) /\ \A b \in Address : getAddress(t, b) = getAddress(s, b)
    BY <2>1 DEF PlacesOK, AddressesOK, getAddress, getIP4Address, getIP6Address
  <2>9. Grown(s, t)
    <3>1. Len(s.addresses) \in Nat
      BY DEF PlacesOK, AddressesOK
    <3>3. \A b \in Port : getPort(s, b) # nullptr => getPort(t, b) # nullptr
      BY <1>5, <2>1
    <3> QED BY <1>2, <1>3, <2>1, <2>4, <2>8, <3>1, <3>3 DEF Grown
  <2> QED BY <1>3, <2>1, <2>7, <2>8, <2>9 DEF PlacesOK, nullptr
<1> QED BY <1>4, <1>5

\* Connections of a storage that grew.
LEMMA GrownKeeps ==
    ASSUME NEW s, NEW t, PlacesOK(s), PlacesOK(t), Grown(s, t)
    PROVE  /\ \A c : IsConnection(s, c) => IsConnection(t, c) /\ FlowOf(t, c) = FlowOf(s, c)
           /\ ConnectionsOK(s) => ConnectionsOK(t) /\ Contents(t) = Contents(s)
<1>1. /\ Len(s.addresses) \in Nat /\ Len(t.addresses) \in Nat
      /\ Len(s.ports) \in Nat /\ Len(t.ports) \in Nat
  BY DEF PlacesOK, AddressesOK, PortsOK
<1>2. ASSUME NEW c, IsConnection(s, c) PROVE IsConnection(t, c) /\ FlowOf(t, c) = FlowOf(s, c)
  <2>1. /\ c.srcAddr \in 1..Len(s.addresses) /\ c.dstAddr \in 1..Len(s.addresses)
        /\ c.srcPort \in 1..Len(s.ports) /\ c.dstPort \in 1..Len(s.ports)
    BY <1>2 DEF IsConnection
  <2>2. /\ c.srcAddr \in 1..Len(t.addresses) /\ c.dstAddr \in 1..Len(t.addresses)
        /\ c.srcPort \in 1..Len(t.ports) /\ c.dstPort \in 1..Len(t.ports)
    BY <1>1, <2>1 DEF Grown
  <2>3. /\ t.addresses[c.srcAddr] = s.addresses[c.srcAddr] /\ t.addresses[c.dstAddr] = s.addresses[c.dstAddr]
        /\ t.ports[c.srcPort] = s.ports[c.srcPort] /\ t.ports[c.dstPort] = s.ports[c.dstPort]
    BY <2>1 DEF Grown
  <2>4. IsConnection(t, c)
    BY <1>2, <2>2, <2>3 DEF IsConnection
  <2> QED BY <2>3, <2>4 DEF FlowOf, getSrcAddr, getDstAddr, getSrcPort, getDstPort
<1>3. ASSUME ConnectionsOK(s) PROVE ConnectionsOK(t) /\ Contents(t) = Contents(s)
  <2>1. t.connectionMap = s.connectionMap
    BY DEF Grown
  <2>2. ConnectionsOK(t)
    BY <1>2, <1>3, <2>1 DEF ConnectionsOK
  <2>3. \A c \in DOMAIN s.connectionMap : FlowOf(t, c) = FlowOf(s, c)
    BY <1>2, <1>3 DEF ConnectionsOK
  <2> QED BY <2>1, <2>2, <2>3, Zenon DEF Contents
<1> QED BY <1>2, <1>3

-----------------------------------------------------------------------------
\* Lemmas on connections and flows.

\* The type of a connection is made again from the families of its ends (Connection::CreateType).
LEMMA TypesFit ==
    ASSUME NEW type \in EConnectionType
    PROVE  /\ CreateType(AddressType(type), PortType(type)) = type
           /\ AddressType(type) \in {"IP4", "IP6"} /\ PortType(type) \in {"UDP", "TCP"}
BY DEF EConnectionType, CreateType, AddressType, PortType

\* The number of a port is cut to 16 bits.
LEMMA NewPortType ==
    ASSUME NEW type \in {"UDP", "TCP"}, NEW number \in Nat
    PROVE  /\ number % PortMod \in 0..PortMod - 1
           /\ NewPort(type, number) \in Port
           /\ number \in 0..PortMod - 1 => number % PortMod = number /\ (number + PortMod) % PortMod = number
<1>1. PICK M, n : M = PortMod /\ n = number
  OBVIOUS
<1>2. M \in Nat \ {0} /\ n \in Nat
  BY <1>1, PortModAssumption
<1>3. n % M \in 0..M - 1
  BY ONLY <1>2, SMTT(30)
<1>4. n \in 0..M - 1 => n % M = n
  BY ONLY <1>2, SMTT(30)
<1>5. ASSUME n \in 0..M - 1 PROVE (n + M) % M = n
  BY ONLY <1>2, <1>5, SMTT(30)
<1> QED BY <1>1, <1>3, <1>4, <1>5 DEF NewPort, Port

\* The ports of a flow.
SPort(flow) == NewPort(PortType(flow.type), flow.sport)
DPort(flow) == NewPort(PortType(flow.type), flow.dport)

\* Addresses and ports of the flow are in the storage.
Found(s, flow) ==
    /\ getAddress(s, flow.src) # nullptr /\ getAddress(s, flow.dst) # nullptr
    /\ getPort(s, SPort(flow)) # nullptr /\ getPort(s, DPort(flow)) # nullptr

\* The ports of a flow are ports, with the numbers of the flow (Port::Port).
LEMMA FlowPorts ==
    ASSUME NEW flow, IsFlow(flow)
    PROVE  /\ flow.src \in Address /\ flow.dst \in Address /\ SPort(flow) \in Port /\ DPort(flow) \in Port
           /\ SPort(flow) = [type |-> PortType(flow.type), number |-> flow.sport]
           /\ DPort(flow) = [type |-> PortType(flow.type), number |-> flow.dport]
<1>1. /\ flow.type \in EConnectionType /\ flow.src \in Address /\ flow.dst \in Address
      /\ flow.sport \in 0..PortMod - 1 /\ flow.dport \in 0..PortMod - 1
  BY DEF IsFlow
<1>2. PortType(flow.type) \in {"UDP", "TCP"}
  BY <1>1, TypesFit
<1>3. flow.sport \in Nat /\ flow.dport \in Nat
  BY <1>1, PortModAssumption
<1>4. /\ SPort(flow) \in Port /\ DPort(flow) \in Port
      /\ flow.sport % PortMod = flow.sport /\ flow.dport % PortMod = flow.dport
  BY <1>1, <1>2, <1>3, NewPortType DEF SPort, DPort
<1> QED BY <1>1, <1>4 DEF SPort, DPort, NewPort

\* A connection is found again by its value.
LEMMA FlowOfConnection ==
    ASSUME NEW s, PlacesOK(s), NEW c, IsConnection(s, c), NEW flow, flow = FlowOf(s, c)
    PROVE  IsFlow(flow) /\ Found(s, flow) /\ ConnectionOf(s, flow) = c
<1>1. PICK a, b, p, q : /\ a = s.addresses[c.srcAddr] /\ b = s.addresses[c.dstAddr]
                        /\ p = s.ports[c.srcPort] /\ q = s.ports[c.dstPort]
  OBVIOUS
<1>2. /\ c.srcAddr \in 1..Len(s.addresses) /\ c.dstAddr \in 1..Len(s.addresses)
      /\ c.srcPort \in 1..Len(s.ports) /\ c.dstPort \in 1..Len(s.ports) /\ c.type \in EConnectionType
      /\ a.address.type = AddressType(c.type) /\ b.address.type = AddressType(c.type)
      /\ p.port.type = PortType(c.type) /\ q.port.type = PortType(c.type)
  BY <1>1 DEF IsConnection
<1>3. a \in AddressDatas /\ b \in AddressDatas /\ p \in PortDatas /\ q \in PortDatas
  BY <1>1, <1>2 DEF PlacesOK, AddressesOK, PortsOK
<1>4. a.address \in Address /\ b.address \in Address /\ p.port \in Port /\ q.port \in Port
  BY <1>3 DEF AddressDatas, PortDatas
<1>5. flow = [type |-> c.type, src |-> a.address, sport |-> p.port.number, dst |-> b.address, dport |-> q.port.number]
  BY <1>1 DEF FlowOf, getSrcAddr, getDstAddr, getSrcPort, getDstPort
<1>6. IsFlow(flow)
  BY <1>2, <1>4, <1>5 DEF IsFlow, Port
<1>7. SPort(flow) = p.port /\ DPort(flow) = q.port
  BY <1>2, <1>4, <1>5, <1>6, FlowPorts DEF Port
<1>8. /\ getAddress(s, flow.src) = c.srcAddr /\ getAddress(s, flow.dst) = c.dstAddr
  BY <1>1, <1>2, <1>5 DEF PlacesOK, AddressesOK
<1>9. getPort(s, SPort(flow)) = c.srcPort /\ getPort(s, DPort(flow)) = c.dstPort
  BY <1>1, <1>2, <1>7 DEF PlacesOK, PortsOK
<1>10. Len(s.addresses) \in Nat /\ Len(s.ports) \in Nat
  BY DEF PlacesOK, AddressesOK, PortsOK
<1>11. Found(s, flow)
  BY <1>2, <1>8, <1>9, <1>10 DEF Found, nullptr
<1>12. ConnectionOf(s, flow) = NewConnection(s, c.srcAddr, c.srcPort, c.dstAddr, c.dstPort)
  BY <1>8, <1>9 DEF ConnectionOf, SPort, DPort
<1>13. NewConnection(s, c.srcAddr, c.srcPort, c.dstAddr, c.dstPort)
          = [srcAddr |-> c.srcAddr, dstAddr |-> c.dstAddr, type |-> c.type, srcPort |-> c.srcPort, dstPort |-> c.dstPort]
  BY <1>1, <1>2, TypesFit DEF NewConnection
<1>14. c = [srcAddr |-> c.srcAddr, dstAddr |-> c.dstAddr, type |-> c.type, srcPort |-> c.srcPort, dstPort |-> c.dstPort]
  BY DEF IsConnection
<1> QED BY <1>6, <1>11, <1>12, <1>13, <1>14

\* The connection that the pointers of a flow make.
LEMMA ConnectionOfFlow ==
    ASSUME NEW s, PlacesOK(s), NEW flow, IsFlow(flow), Found(s, flow), NEW c, c = ConnectionOf(s, flow)
    PROVE  IsConnection(s, c) /\ FlowOf(s, c) = flow
<1>1. PICK a, b, p, q : /\ a = getAddress(s, flow.src) /\ b = getAddress(s, flow.dst)
                        /\ p = getPort(s, SPort(flow)) /\ q = getPort(s, DPort(flow))
  OBVIOUS
<1>2. /\ flow.src \in Address /\ flow.dst \in Address /\ SPort(flow) \in Port /\ DPort(flow) \in Port
      /\ SPort(flow) = [type |-> PortType(flow.type), number |-> flow.sport]
      /\ DPort(flow) = [type |-> PortType(flow.type), number |-> flow.dport]
  BY FlowPorts
<1>3. /\ a \in 1..Len(s.addresses) /\ s.addresses[a].address = flow.src
      /\ b \in 1..Len(s.addresses) /\ s.addresses[b].address = flow.dst
  BY <1>1, <1>2 DEF Found, PlacesOK, AddressesOK
<1>4. /\ p \in 1..Len(s.ports) /\ s.ports[p].port = SPort(flow)
      /\ q \in 1..Len(s.ports) /\ s.ports[q].port = DPort(flow)
  BY <1>1, <1>2 DEF Found, PlacesOK, PortsOK
<1>5. /\ flow.type \in EConnectionType /\ flow.src.type = AddressType(flow.type) /\ flow.dst.type = AddressType(flow.type)
      /\ flow = [type |-> flow.type, src |-> flow.src, sport |-> flow.sport, dst |-> flow.dst, dport |-> flow.dport]
  BY DEF IsFlow
<1>6. c = NewConnection(s, a, p, b, q)
  BY <1>1 DEF ConnectionOf, SPort, DPort
<1>7. CreateType(s.addresses[a].address.type, s.ports[p].port.type) = flow.type
  BY <1>2, <1>3, <1>4, <1>5, TypesFit
<1>8. c = [srcAddr |-> a, dstAddr |-> b, type |-> flow.type, srcPort |-> p, dstPort |-> q]
  BY <1>6, <1>7 DEF NewConnection
<1>9. IsConnection(s, c)
  BY <1>2, <1>3, <1>4, <1>5, <1>8 DEF IsConnection
<1>10. FlowOf(s, c) = flow
  BY <1>2, <1>3, <1>4, <1>5, <1>8 DEF FlowOf, getSrcAddr, getDstAddr, getSrcPort, getDstPort
<1> QED BY <1>9, <1>10

\* The connections of a storage are different flows.
LEMMA FlowsDiffer ==
    ASSUME NEW s, PlacesOK(s), NEW c, NEW d, IsConnection(s, c), IsConnection(s, d), FlowOf(s, c) = FlowOf(s, d)
    PROVE  c = d
<1>1. ConnectionOf(s, FlowOf(s, c)) = c
  BY FlowOfConnection
<1>2. ConnectionOf(s, FlowOf(s, d)) = d
  BY FlowOfConnection
<1> QED BY <1>1, <1>2

\* The addresses and ports of a flow are added first.
LEMMA WithFlowGrows ==
    ASSUME NEW s, PlacesOK(s), NEW flow, IsFlow(flow), NEW t, t = WithFlow(s, flow)
    PROVE  PlacesOK(t) /\ Grown(s, t) /\ Found(t, flow)
<1>1. PICK s1, s2, s3 : /\ s1 = addAddress(s, flow.src) /\ s2 = addAddress(s1, flow.dst)
                        /\ s3 = addPort(s2, SPort(flow))
  OBVIOUS
<1>2. t = addPort(s3, DPort(flow))
  BY <1>1 DEF WithFlow, SPort, DPort
<1>3. flow.src \in Address /\ flow.dst \in Address /\ SPort(flow) \in Port /\ DPort(flow) \in Port
  BY FlowPorts
<1>4. PlacesOK(s1) /\ Grown(s, s1) /\ getAddress(s1, flow.src) # nullptr
  BY <1>1, <1>3, AddAddressGrows
<1>5. PlacesOK(s2) /\ Grown(s1, s2) /\ getAddress(s2, flow.dst) # nullptr
  BY <1>1, <1>3, <1>4, AddAddressGrows
<1>6. PlacesOK(s3) /\ Grown(s2, s3) /\ getPort(s3, SPort(flow)) # nullptr
  BY <1>1, <1>3, <1>5, AddPortGrows
<1>7. PlacesOK(t) /\ Grown(s3, t) /\ getPort(t, DPort(flow)) # nullptr
  BY <1>2, <1>3, <1>6, AddPortGrows
<1>8. Grown(s1, s3) /\ Grown(s1, t) /\ Grown(s, t) /\ Grown(s2, t)
  BY <1>4, <1>5, <1>6, <1>7, GrownTrans
<1>9. Found(t, flow)
  BY <1>3, <1>4, <1>5, <1>6, <1>7, <1>8 DEF Found, Grown
<1> QED BY <1>7, <1>8, <1>9

-----------------------------------------------------------------------------
(***************************************************************************)
(* The contents of a storage, by value, and what the operations on the map *)
(* of connections do to them.                                              *)
(***************************************************************************)
Entry(flow, data) == [flow |-> flow, data |-> data]

Created(C, flow, data) == IF \E x \in C : x.flow = flow THEN C ELSE C \cup {Entry(flow, data)}

Removed(C, flow) == {x \in C : x.flow # flow}

Changed(C, flow, data) == {Entry(x.flow, IF x.flow = flow THEN data ELSE x.data) : x \in C}

\* Only the map of connections is another one.
SamePlaces(s, t) ==
    /\ Shape(t) /\ t.addressIP4Map = s.addressIP4Map /\ t.addressIP6Map = s.addressIP6Map
    /\ t.portMap = s.portMap /\ t.addresses = s.addresses /\ t.ports = s.ports

\* Connections and flows only depend on the addresses and the ports.
LEMMA SamePlacesKeep ==
    ASSUME NEW s, NEW t, PlacesOK(s), SamePlaces(s, t)
    PROVE  /\ PlacesOK(t)
           /\ \A c : (IsConnection(t, c) <=> IsConnection(s, c)) /\ FlowOf(t, c) = FlowOf(s, c)
<1>1. Shape(t) /\ MapsOK(t)
  BY DEF SamePlaces, PlacesOK, MapsOK
<1>2. AddressesOK(t)
  BY DEF SamePlaces, PlacesOK, AddressesOK, getAddress, getIP4Address, getIP6Address
<1>3. PortsOK(t)
  BY DEF SamePlaces, PlacesOK, PortsOK, getPort
<1>4. ASSUME NEW c PROVE (IsConnection(t, c) <=> IsConnection(s, c)) /\ FlowOf(t, c) = FlowOf(s, c)
  BY DEF SamePlaces, IsConnection, FlowOf, getSrcAddr, getDstAddr, getSrcPort, getDstPort
<1> QED BY <1>1, <1>2, <1>3, <1>4 DEF PlacesOK

\* The entry of a flow.
LEMMA EntryOfFlow ==
    ASSUME NEW s, StorageOK(s), NEW flow, NEW x \in Contents(s), x.flow = flow
    PROVE  /\ IsFlow(flow) /\ Found(s, flow) /\ ConnectionOf(s, flow) \in DOMAIN s.connectionMap
           /\ x = Entry(flow, s.connectionMap[ConnectionOf(s, flow)])
<1>1. PICK c \in DOMAIN s.connectionMap : x = Entry(FlowOf(s, c), s.connectionMap[c])
  BY DEF Contents, Entry
<1>2. FlowOf(s, c) = flow
  BY <1>1 DEF Entry
<1>3. IsFlow(flow) /\ Found(s, flow) /\ ConnectionOf(s, flow) = c
  BY <1>2, FlowOfConnection DEF StorageOK, ConnectionsOK
<1> QED BY <1>1, <1>2, <1>3

\* A connection of the storage is an entry of its contents.
LEMMA FlowHasEntry ==
    ASSUME NEW s, StorageOK(s), NEW c \in DOMAIN s.connectionMap
    PROVE  Entry(FlowOf(s, c), s.connectionMap[c]) \in Contents(s)
BY DEF Contents, Entry

\* ConnectionStorage::addConnection.
LEMMA AddConnectionCreates ==
    ASSUME NEW s, StorageOK(s), NEW flow, IsFlow(flow), Found(s, flow), NEW c, c = ConnectionOf(s, flow),
           NEW traffic, NEW state, NEW t, t = addConnection(s, c, traffic, state)
    PROVE  /\ StorageOK(t) /\ SamePlaces(s, t)
           /\ Contents(t) = Created(Contents(s), flow, ConnectionData(traffic, state, TypeToString(flow.type)))
<1>1. PICK m, d : m = s.connectionMap /\ d = ConnectionData(traffic, state, TypeToString(flow.type))
  OBVIOUS
<1>2. PlacesOK(s) /\ Shape(s)
  BY DEF StorageOK, PlacesOK
<1>3. IsConnection(s, c) /\ FlowOf(s, c) = flow
  BY <1>2, ConnectionOfFlow
<1>4. c.type = flow.type
  BY <1>3 DEF FlowOf
<1>5. CASE c \in DOMAIN m
  <2>1. t = s
    BY <1>1, <1>5 DEF addConnection
  <2>2. \E x \in Contents(s) : x.flow = flow
    <3>1. Entry(flow, m[c]) \in Contents(s)
      BY <1>1, <1>3, <1>5, FlowHasEntry
    <3>2. Entry(flow, m[c]).flow = flow
      BY DEF Entry
    <3> QED BY <3>1, <3>2
  <2> QED BY <1>2, <2>1, <2>2 DEF SamePlaces, Created
<1>6. CASE c \notin DOMAIN m
  <2>1. t = [s EXCEPT !.connectionMap = Put(m, c, d)]
    BY <1>1, <1>4, <1>6 DEF addConnection
  <2>2. SamePlaces(s, t) /\ t.connectionMap = Put(m, c, d)
    BY <1>2, <2>1 DEF Shape, SamePlaces
  <2>3. /\ DOMAIN t.connectionMap = DOMAIN m \cup {c} /\ t.connectionMap[c] = d
        /\ \A k \in DOMAIN m : t.connectionMap[k] = m[k]
    BY <1>6, <2>2 DEF Put
  <2>4. PlacesOK(t) /\ \A k : (IsConnection(t, k) <=> IsConnection(s, k)) /\ FlowOf(t, k) = FlowOf(s, k)
    BY <1>2, <2>2, SamePlacesKeep
  <2>5. StorageOK(t)
    <3>1. IsFiniteSet(DOMAIN t.connectionMap)
      BY <1>1, <2>3, FS_AddElement DEF StorageOK, ConnectionsOK
    <3> QED BY <1>1, <1>3, <2>3, <2>4, <3>1 DEF StorageOK, ConnectionsOK
  <2>6. ~\E x \in Contents(s) : x.flow = flow
    BY <1>1, <1>6, EntryOfFlow
  <2>7. Contents(t) = Contents(s) \cup {Entry(flow, d)}
    <3>1. Contents(t) = {Entry(FlowOf(s, k), t.connectionMap[k]) : k \in DOMAIN m \cup {c}}
      BY <2>3, <2>4 DEF Contents, Entry
    <3>2. Contents(s) = {Entry(FlowOf(s, k), m[k]) : k \in DOMAIN m}
      BY <1>1 DEF Contents, Entry
    <3> QED BY <1>3, <2>3, <3>1, <3>2
  <2> QED BY <1>1, <2>2, <2>5, <2>6, <2>7 DEF Created
<1> QED BY <1>5, <1>6

\* ConnectionStorage::removeConnection.
LEMMA RemoveConnectionRemoves ==
    ASSUME NEW s, StorageOK(s), NEW flow, IsFlow(flow), Found(s, flow), NEW c, c = ConnectionOf(s, flow),
           NEW t, t = removeConnection(s, c)
    PROVE  /\ StorageOK(t) /\ SamePlaces(s, t)
           /\ Contents(t) = Removed(Contents(s), flow)
<1>1. PICK m : m = s.connectionMap
  OBVIOUS
<1>2. PlacesOK(s) /\ Shape(s)
  BY DEF StorageOK, PlacesOK
<1>3. IsConnection(s, c) /\ FlowOf(s, c) = flow
  BY <1>2, ConnectionOfFlow
<1>4. t = [s EXCEPT !.connectionMap = Without(m, c)]
  BY <1>1 DEF removeConnection
<1>5. SamePlaces(s, t) /\ t.connectionMap = Without(m, c)
  BY <1>2, <1>4 DEF Shape, SamePlaces
<1>6. DOMAIN t.connectionMap = DOMAIN m \ {c} /\ \A k \in DOMAIN m \ {c} : t.connectionMap[k] = m[k]
  BY <1>5 DEF Without
<1>7. PlacesOK(t) /\ \A k : (IsConnection(t, k) <=> IsConnection(s, k)) /\ FlowOf(t, k) = FlowOf(s, k)
  BY <1>2, <1>5, SamePlacesKeep
<1>8. StorageOK(t)
  <2>1. IsFiniteSet(DOMAIN t.connectionMap)
    BY <1>1, <1>6, FS_RemoveElement DEF StorageOK, ConnectionsOK
  <2> QED BY <1>1, <1>6, <1>7, <2>1 DEF StorageOK, ConnectionsOK
<1>9. \A k \in DOMAIN m : FlowOf(s, k) = flow <=> k = c
  BY <1>1, <1>2, <1>3, FlowsDiffer DEF StorageOK, ConnectionsOK
<1>10. Contents(t) = Removed(Contents(s), flow)
  <2>1. Contents(t) = {Entry(FlowOf(s, k), m[k]) : k \in DOMAIN m \ {c}}
    BY <1>6, <1>7 DEF Contents, Entry
  <2>2. Contents(s) = {Entry(FlowOf(s, k), m[k]) : k \in DOMAIN m}
    BY <1>1 DEF Contents, Entry
  <2>3. \A k : Entry(FlowOf(s, k), m[k]).flow = FlowOf(s, k)
    BY DEF Entry
  <2> QED BY <1>9, <2>1, <2>2, <2>3 DEF Removed
<1> QED BY <1>5, <1>8, <1>10

\* The data of a connection change (ConnectionStorage, ConnectionData::Deserialize).
LEMMA ConnectionChanges ==
    ASSUME NEW s, StorageOK(s), NEW flow, IsFlow(flow), Found(s, flow), NEW c, c = ConnectionOf(s, flow),
           c \in DOMAIN s.connectionMap, NEW data, NEW t, t = [s EXCEPT !.connectionMap[c] = data]
    PROVE  /\ StorageOK(t) /\ SamePlaces(s, t)
           /\ Contents(t) = Changed(Contents(s), flow, data)
<1>1. PICK m : m = s.connectionMap
  OBVIOUS
<1>2. PlacesOK(s) /\ Shape(s)
  BY DEF StorageOK, PlacesOK
<1>3. IsConnection(s, c) /\ FlowOf(s, c) = flow
  BY <1>2, ConnectionOfFlow
<1>4. SamePlaces(s, t) /\ t.connectionMap = [m EXCEPT ![c] = data]
  BY <1>1, <1>2 DEF Shape, SamePlaces
<1>5. DOMAIN t.connectionMap = DOMAIN m /\ \A k \in DOMAIN m : t.connectionMap[k] = IF k = c THEN data ELSE m[k]
  BY <1>4
<1>6. PlacesOK(t) /\ \A k : (IsConnection(t, k) <=> IsConnection(s, k)) /\ FlowOf(t, k) = FlowOf(s, k)
  BY <1>2, <1>4, SamePlacesKeep
<1>7. StorageOK(t)
  BY <1>1, <1>5, <1>6 DEF StorageOK, ConnectionsOK
<1>8. \A k \in DOMAIN m : FlowOf(s, k) = flow <=> k = c
  BY <1>1, <1>2, <1>3, FlowsDiffer DEF StorageOK, ConnectionsOK
<1>9. Contents(t) = Changed(Contents(s), flow, data)
  <2>1. Contents(t) = {Entry(FlowOf(s, k), IF k = c THEN data ELSE m[k]) : k \in DOMAIN m}
    BY <1>5, <1>6 DEF Contents, Entry
  <2>2. Contents(s) = {Entry(FlowOf(s, k), m[k]) : k \in DOMAIN m}
    BY <1>1 DEF Contents, Entry
  <2>3. \A k : Entry(FlowOf(s, k), m[k]).flow = FlowOf(s, k) /\ Entry(FlowOf(s, k), m[k]).data = m[k]
    BY DEF Entry
  <2> QED BY <1>8, <2>1, <2>2, <2>3 DEF Changed
<1> QED BY <1>4, <1>7, <1>9

\* ConnectionList::clear.
LEMMA ClearConnectionsClears ==
    ASSUME NEW s, StorageOK(s), NEW t, t = clearConnections(s)
    PROVE  StorageOK(t) /\ SamePlaces(s, t) /\ Contents(t) = {}
<1>1. SamePlaces(s, t) /\ t.connectionMap = <<>>
  BY DEF StorageOK, PlacesOK, Shape, SamePlaces, clearConnections
<1>2. DOMAIN t.connectionMap = {}
  BY <1>1
<1>3. PlacesOK(t)
  BY <1>1, SamePlacesKeep DEF StorageOK
<1> QED BY <1>1, <1>2, <1>3, FS_EmptySet DEF StorageOK, ConnectionsOK, Contents

-----------------------------------------------------------------------------
(***************************************************************************)
(* The list: every address and every port that is not resolved is in one   *)
(* place of one of the two queues.                                         *)
(***************************************************************************)
Requests == [kind : {"address", "port"}, data : Nat]

Unresolved(l, x) ==
    \/ /\ x.kind = "address" /\ x.data \in 1..Len(l.storage.addresses)
       /\ ~l.storage.addresses[x.data].isHostnameResolved
    \/ /\ x.kind = "port" /\ x.data \in 1..Len(l.storage.ports)
       /\ ~l.storage.ports[x.data].isServiceResolved

\* What waits, q at the resolver and r for the main thread.
Waiting(l, q, r) ==
    /\ \A i \in 1..Len(q) : Unresolved(l, q[i])
    /\ \A i \in 1..Len(r) : Unresolved(l, r[i].request)
    /\ \A x \in Requests : Unresolved(l, x) =>
            (\E i \in 1..Len(q) : q[i] = x) \/ (\E i \in 1..Len(r) : r[i].request = x)

Once(q, r) ==
    /\ \A i, j \in 1..Len(q) : q[i] = q[j] => i = j
    /\ \A i, j \in 1..Len(r) : r[i].request = r[j].request => i = j
    /\ \A i \in 1..Len(q), j \in 1..Len(r) : q[i] # r[j].request

Counted(l, r) ==
    /\ l.dataTotalCount = Len(l.storage.addresses) + Len(l.storage.ports)
    /\ l.dataResolvedCount \in Nat
    /\ Len(l.requests) + Len(r) = l.dataTotalCount - l.dataResolvedCount

ListShape(l) ==
    l = [storage |-> l.storage, dataTotalCount |-> l.dataTotalCount, dataResolvedCount |-> l.dataResolvedCount,
         requests |-> l.requests]

ListOK(l, r) ==
    /\ ListShape(l)
    /\ StorageOK(l.storage)
    /\ l.requests \in Seq(Requests)
    /\ Waiting(l, l.requests, r)
    /\ Once(l.requests, r)
    /\ Counted(l, r)

\* A storage that grew has the same connections.
LEMMA StorageGrows ==
    ASSUME NEW s, StorageOK(s), NEW t, PlacesOK(t), Grown(s, t)
    PROVE  StorageOK(t) /\ Contents(t) = Contents(s)
BY GrownKeeps DEF StorageOK

\* A request that is not there yet.
LEMMA AskedOnce ==
    ASSUME NEW l, NEW r, Len(r) \in Nat, ListOK(l, r), NEW x \in Requests, ~Unresolved(l, x),
           NEW k, k.requests = Append(l.requests, x), ListShape(k), StorageOK(k.storage),
           \A y \in Requests : Unresolved(k, y) <=> Unresolved(l, y) \/ y = x,
           \A i \in 1..Len(r) : r[i].request \in Requests,
           k.dataTotalCount = l.dataTotalCount + 1, k.dataResolvedCount = l.dataResolvedCount,
           k.dataTotalCount = Len(k.storage.addresses) + Len(k.storage.ports)
    PROVE  ListOK(k, r)
<1>1. PICK q, n, q2 : q = l.requests /\ n = Len(q) /\ q2 = k.requests
  OBVIOUS
<1>2. q \in Seq(Requests) /\ n \in Nat /\ Waiting(l, q, r) /\ Once(q, r)
  BY <1>1 DEF ListOK
<1>3. /\ q2 \in Seq(Requests) /\ Len(q2) = n + 1 /\ q2[n + 1] = x
      /\ \A i \in 1..n : q2[i] = q[i] /\ q[i] \in Requests
  BY <1>1, <1>2
<1>4. \A i \in 1..n : Unresolved(l, q[i])
  BY <1>1, <1>2 DEF Waiting
<1>5. \A i \in 1..Len(r) : Unresolved(l, r[i].request)
  BY <1>2 DEF Waiting
<1>6. (\A i \in 1..n : q[i] # x) /\ (\A i \in 1..Len(r) : r[i].request # x)
  BY <1>4, <1>5
<1>7. Waiting(k, q2, r)
  <2>1. \A i \in 1..n + 1 : Unresolved(k, q2[i])
    BY <1>2, <1>3, <1>4
  <2>2. \A i \in 1..Len(r) : Unresolved(k, r[i].request)
    BY <1>5
  <2>3. ASSUME NEW y \in Requests, Unresolved(k, y)
        PROVE  (\E i \in 1..n + 1 : q2[i] = y) \/ (\E i \in 1..Len(r) : r[i].request = y)
    <3>1. CASE y = x
      BY <1>2, <1>3, <3>1
    <3>2. CASE y # x
      <4>1. (\E i \in 1..n : q[i] = y) \/ (\E i \in 1..Len(r) : r[i].request = y)
        BY <1>1, <1>2, <2>3, <3>2 DEF Waiting
      <4> QED BY <1>2, <1>3, <4>1
    <3> QED BY <3>1, <3>2
  <2> QED BY <1>3, <2>1, <2>2, <2>3 DEF Waiting
<1>8. Once(q2, r)
  <2>1. ASSUME NEW i \in 1..n + 1, NEW j \in 1..n + 1, q2[i] = q2[j] PROVE i = j
    <3>1. (i \in 1..n \/ i = n + 1) /\ (j \in 1..n \/ j = n + 1)
      BY <1>2
    <3> QED BY <1>1, <1>2, <1>3, <1>6, <2>1, <3>1 DEF Once
  <2>2. ASSUME NEW i \in 1..n + 1, NEW j \in 1..Len(r) PROVE q2[i] # r[j].request
    <3>1. i \in 1..n \/ i = n + 1
      BY <1>2
    <3> QED BY <1>1, <1>2, <1>3, <1>6, <3>1 DEF Once
  <2>3. \A i, j \in 1..Len(r) : r[i].request = r[j].request => i = j
    BY <1>2 DEF Once
  <2> QED BY <1>3, <2>1, <2>2, <2>3 DEF Once
<1>9. Counted(k, r)
  <2>1. PICK t, u, v : t = l.dataTotalCount /\ u = l.dataResolvedCount /\ v = Len(r)
    OBVIOUS
  <2>2. u \in Nat /\ v \in Nat /\ n + v = t - u
    BY <1>1, <2>1 DEF ListOK, Counted
  <2>3. t \in Nat
    <3>1. PICK a, b : a = Len(l.storage.addresses) /\ b = Len(l.storage.ports)
      OBVIOUS
    <3>2. a \in Nat /\ b \in Nat
      BY <3>1 DEF ListOK, StorageOK, PlacesOK, AddressesOK, PortsOK
    <3>3. t = a + b
      BY <2>1, <3>1 DEF ListOK, Counted
    <3> QED BY ONLY <3>2, <3>3
  <2>4. n + 1 + v = (t + 1) - u
    BY ONLY <1>2, <2>2, <2>3
  <2> QED BY <1>1, <1>3, <2>1, <2>2, <2>4 DEF Counted
<1> QED BY <1>1, <1>3, <1>7, <1>8, <1>9 DEF ListOK

\* ConnectionList::getAddress.
LEMMA ListAddAddressOK ==
    ASSUME NEW l, NEW r, Len(r) \in Nat, \A i \in 1..Len(r) : r[i].request \in Requests, ListOK(l, r),
           NEW a \in Address, NEW k, k = ListAddAddress(l, a)
    PROVE  ListOK(k, r) /\ k.storage = addAddress(l.storage, a)
<1>1. PICK s, t : s = l.storage /\ t = addAddress(s, a)
  OBVIOUS
<1>2. StorageOK(s) /\ PlacesOK(s) /\ ListShape(l)
  BY <1>1 DEF ListOK, StorageOK
<1>3. PlacesOK(t) /\ Grown(s, t) /\ AddressAdded(s, a, t)
  BY <1>1, <1>2, AddAddressGrows, AddAddressAdds
<1>4. StorageOK(t)
  BY <1>2, <1>3, StorageGrows
<1>5. CASE t = s
  <2>1. k = l
    BY <1>1, <1>5 DEF ListAddAddress
  <2> QED BY <1>1, <1>5, <2>1
<1>6. CASE t # s
  <2>1. PICK n, d : n = Len(s.addresses) /\ d = AddressData(a)
    OBVIOUS
  <2>2. /\ t.addresses = Append(s.addresses, d) /\ t.ports = s.ports /\ getAddress(t, a) = n + 1
    BY <1>3, <1>6, <2>1 DEF AddressAdded
  <2>3. PICK x : x = Request("address", n + 1)
    OBVIOUS
  <2>4. k = [l EXCEPT !.storage = t, !.dataTotalCount = @ + 1, !.requests = Append(@, x)]
    BY <1>1, <1>6, <2>2, <2>3 DEF ListAddAddress
  <2>5. /\ ListShape(k) /\ k.storage = t /\ k.requests = Append(l.requests, x)
        /\ k.dataTotalCount = l.dataTotalCount + 1 /\ k.dataResolvedCount = l.dataResolvedCount
    BY <1>2, <2>4 DEF ListShape
  <2>6. s.addresses \in Seq(AddressDatas) /\ n \in Nat /\ Len(s.ports) \in Nat
    BY <1>2, <2>1 DEF PlacesOK, AddressesOK, PortsOK
  <2>7. /\ Len(t.addresses) = n + 1 /\ t.addresses[n + 1] = d /\ \A p \in 1..n : t.addresses[p] = s.addresses[p]
        /\ ~d.isHostnameResolved
    <3>1. d \in AddressDatas /\ ~d.isHostnameResolved
      BY <2>1 DEF AddressData, AddressDatas, toString
    <3>2. PICK A, B : A = s.addresses /\ B = t.addresses
      OBVIOUS
    <3>3. A \in Seq(AddressDatas) /\ B = Append(A, d) /\ n = Len(A)
      BY <2>1, <2>2, <2>6, <3>2
    <3>4. Len(B) = n + 1 /\ B[n + 1] = d /\ \A p \in 1..n : B[p] = A[p]
      BY ONLY <3>1, <3>3
    <3> QED BY <3>1, <3>2, <3>4
  <2>8. x \in Requests /\ x.kind = "address" /\ x.data = n + 1
    BY <2>3, <2>6 DEF Request, Requests
  <2>9. ~Unresolved(l, x)
    BY <1>1, <2>1, <2>6, <2>8 DEF Unresolved
  <2>10. ASSUME NEW y \in Requests PROVE Unresolved(k, y) <=> Unresolved(l, y) \/ y = x
    <3>1. CASE y.kind = "port"
      BY <1>1, <2>2, <2>5, <2>8, <3>1 DEF Unresolved
    <3>2. CASE y.kind = "address" /\ y.data = n + 1
      <4>1. y = x
        BY <2>8, <3>2 DEF Requests
      <4>2. Unresolved(k, y)
        BY <2>5, <2>6, <2>7, <3>2 DEF Unresolved
      <4> QED BY <4>1, <4>2
    <3>3. CASE y.kind = "address" /\ y.data # n + 1
      <4>1. y # x
        BY <2>8, <3>3
      <4>2. y.data \in 1..n + 1 <=> y.data \in 1..n
        BY <2>6, <3>3 DEF Requests
      <4> QED BY <1>1, <2>1, <2>5, <2>6, <2>7, <3>3, <4>1, <4>2 DEF Unresolved
    <3> QED BY <3>1, <3>2, <3>3 DEF Requests
  <2>11. k.dataTotalCount = Len(k.storage.addresses) + Len(k.storage.ports)
    <3>1. PICK m, c : m = Len(s.ports) /\ c = l.dataTotalCount
      OBVIOUS
    <3>2. c = n + m
      BY <1>1, <2>1, <3>1 DEF ListOK, Counted
    <3>3. c + 1 = (n + 1) + m
      <4>1. n \in Nat /\ m \in Nat
        BY <2>6, <3>1
      <4> QED BY ONLY <3>2, <4>1
    <3> QED BY <2>2, <2>5, <2>7, <3>1, <3>3
  <2>12. ListOK(k, r)
    BY <1>4, <2>5, <2>8, <2>9, <2>10, <2>11, AskedOnce
  <2> QED BY <1>1, <2>5, <2>12
<1> QED BY <1>5, <1>6

\* ConnectionList::getPort.
LEMMA ListAddPortOK ==
    ASSUME NEW l, NEW r, Len(r) \in Nat, \A i \in 1..Len(r) : r[i].request \in Requests, ListOK(l, r),
           NEW a \in Port, NEW k, k = ListAddPort(l, a)
    PROVE  ListOK(k, r) /\ k.storage = addPort(l.storage, a)
<1>1. PICK s, t : s = l.storage /\ t = addPort(s, a)
  OBVIOUS
<1>2. StorageOK(s) /\ PlacesOK(s) /\ ListShape(l)
  BY <1>1 DEF ListOK, StorageOK
<1>3. PlacesOK(t) /\ Grown(s, t) /\ PortAdded(s, a, t)
  BY <1>1, <1>2, AddPortGrows, AddPortAdds
<1>4. StorageOK(t)
  BY <1>2, <1>3, StorageGrows
<1>5. CASE t = s
  <2>1. k = l
    BY <1>1, <1>5 DEF ListAddPort
  <2> QED BY <1>1, <1>5, <2>1
<1>6. CASE t # s
  <2>1. PICK n, d : n = Len(s.ports) /\ d = PortData(a)
    OBVIOUS
  <2>2. /\ t.ports = Append(s.ports, d) /\ t.addresses = s.addresses /\ getPort(t, a) = n + 1
    BY <1>3, <1>6, <2>1 DEF PortAdded
  <2>3. PICK x : x = Request("port", n + 1)
    OBVIOUS
  <2>4. k = [l EXCEPT !.storage = t, !.dataTotalCount = @ + 1, !.requests = Append(@, x)]
    BY <1>1, <1>6, <2>2, <2>3 DEF ListAddPort
  <2>5. /\ ListShape(k) /\ k.storage = t /\ k.requests = Append(l.requests, x)
        /\ k.dataTotalCount = l.dataTotalCount + 1 /\ k.dataResolvedCount = l.dataResolvedCount
    BY <1>2, <2>4 DEF ListShape
  <2>6. s.ports \in Seq(PortDatas) /\ n \in Nat /\ Len(s.addresses) \in Nat
    BY <1>2, <2>1 DEF PlacesOK, AddressesOK, PortsOK
  <2>7. /\ Len(t.ports) = n + 1 /\ t.ports[n + 1] = d /\ \A p \in 1..n : t.ports[p] = s.ports[p]
        /\ ~d.isServiceResolved
    <3>1. d \in PortDatas /\ ~d.isServiceResolved
      BY <2>1 DEF PortData, PortDatas
    <3>2. PICK A, B : A = s.ports /\ B = t.ports
      OBVIOUS
    <3>3. A \in Seq(PortDatas) /\ B = Append(A, d) /\ n = Len(A)
      BY <2>1, <2>2, <2>6, <3>2
    <3>4. Len(B) = n + 1 /\ B[n + 1] = d /\ \A p \in 1..n : B[p] = A[p]
      BY ONLY <3>1, <3>3
    <3> QED BY <3>1, <3>2, <3>4
  <2>8. x \in Requests /\ x.kind = "port" /\ x.data = n + 1
    BY <2>3, <2>6 DEF Request, Requests
  <2>9. ~Unresolved(l, x)
    BY <1>1, <2>1, <2>6, <2>8 DEF Unresolved
  <2>10. ASSUME NEW y \in Requests PROVE Unresolved(k, y) <=> Unresolved(l, y) \/ y = x
    <3>1. CASE y.kind = "address"
      BY <1>1, <2>2, <2>5, <2>8, <3>1 DEF Unresolved
    <3>2. CASE y.kind = "port" /\ y.data = n + 1
      <4>1. y = x
        BY <2>8, <3>2 DEF Requests
      <4>2. Unresolved(k, y)
        BY <2>5, <2>6, <2>7, <3>2 DEF Unresolved
      <4> QED BY <4>1, <4>2
    <3>3. CASE y.kind = "port" /\ y.data # n + 1
      <4>1. y # x
        BY <2>8, <3>3
      <4>2. y.data \in 1..n + 1 <=> y.data \in 1..n
        BY <2>6, <3>3 DEF Requests
      <4> QED BY <1>1, <2>1, <2>5, <2>6, <2>7, <3>3, <4>1, <4>2 DEF Unresolved
    <3> QED BY <3>1, <3>2, <3>3 DEF Requests
  <2>11. k.dataTotalCount = Len(k.storage.addresses) + Len(k.storage.ports)
    <3>1. PICK m, c : m = Len(s.addresses) /\ c = l.dataTotalCount
      OBVIOUS
    <3>2. c = m + n
      BY <1>1, <2>1, <3>1 DEF ListOK, Counted
    <3>3. c + 1 = m + (n + 1)
      <4>1. n \in Nat /\ m \in Nat
        BY <2>6, <3>1
      <4> QED BY ONLY <3>2, <4>1
    <3> QED BY <2>2, <2>5, <2>7, <3>1, <3>3
  <2>12. ListOK(k, r)
    BY <1>4, <2>5, <2>8, <2>9, <2>10, <2>11, AskedOnce
  <2> QED BY <1>1, <2>5, <2>12
<1> QED BY <1>5, <1>6

-----------------------------------------------------------------------------
(***************************************************************************)
(* Documents: what all of them have in common, those of another make too,  *)
(* which of them the client accepts, and what these do to the contents.    *)
(***************************************************************************)
IsDocument(d) ==
    /\ "srcAddress" \in DOMAIN d => d.srcAddress.value.text \in Address
    /\ "dstAddress" \in DOMAIN d => d.dstAddress.value.text \in Address
    /\ "srcPort" \in DOMAIN d => d.srcPort.value \in Nat
    /\ "dstPort" \in DOMAIN d => d.dstPort.value \in Nat

DocumentFlow(d) ==
    [type |-> TypeToEnum(d.type.value),
     src |-> CreateFromString(d.srcAddress.value), sport |-> d.srcPort.value % PortMod,
     dst |-> CreateFromString(d.dstAddress.value), dport |-> d.dstPort.value % PortMod]

Accepted(d) ==
    /\ Parses(d)
    /\ IsAddressOf(d.srcAddress.value, AddressType(TypeToEnum(d.type.value)))
    /\ IsAddressOf(d.dstAddress.value, AddressType(TypeToEnum(d.type.value)))

Overwrote(C, flow, d) == {Entry(x.flow, IF x.flow = flow THEN Overwritten(x.data, d, flow.type) ELSE x.data) : x \in C}

ParsedData(d, type) == ConnectionData(ParsedTraffic(d), ParsedState(d, type), TypeToString(type))

Applied(C, d) ==
    IF d.action.value = "CREATE"
    THEN Created(C, DocumentFlow(d), ParsedData(d, DocumentFlow(d).type))
    ELSE IF d.action.value = "UPDATE" THEN Overwrote(C, DocumentFlow(d), d) ELSE Removed(C, DocumentFlow(d))

\* The name of a type leads back to it (Connection::TypeToString, TypeToEnum).
LEMMA TypeNamesFit ==
    ASSUME NEW type \in EConnectionType
    PROVE  IsTypeName(TypeToString(type)) /\ TypeToEnum(TypeToString(type)) = type
<1>1. \A t, u \in EConnectionType : TypeNames[t] = TypeNames[u] => t = u
  BY DEF EConnectionType, TypeNames
<1>2. PICK t : t = TypeToEnum(TypeToString(type))
  OBVIOUS
<1>3. t \in EConnectionType /\ TypeNames[t] = TypeNames[type]
  BY <1>2 DEF TypeToEnum, TypeToString
<1> QED BY <1>1, <1>2, <1>3 DEF IsTypeName, TypeToString

\* A name that TypeToEnum accepts is the name of a type.
LEMMA TypeNameHasType ==
    ASSUME NEW name, IsTypeName(name)
    PROVE  TypeToEnum(name) \in EConnectionType
BY DEF IsTypeName, TypeToEnum

\* The addresses and ports that a document with all of its members names (ConnectionData::Deserialize).
LEMMA DocumentPorts ==
    ASSUME NEW d, IsDocument(d), Parses(d), NEW type, type = TypeToEnum(d.type.value)
    PROVE  /\ type \in EConnectionType
           /\ CreateFromString(d.srcAddress.value) \in Address /\ CreateFromString(d.dstAddress.value) \in Address
           /\ NewPort(PortType(type), d.srcPort.value) \in Port /\ NewPort(PortType(type), d.dstPort.value) \in Port
           /\ d.srcPort.value % PortMod \in 0..PortMod - 1 /\ d.dstPort.value % PortMod \in 0..PortMod - 1
<1>1. \A name \in {"type", "srcAddress", "dstAddress", "srcPort", "dstPort"} : name \in DOMAIN d
  BY DEF Parses, IsMember, Always
<1>2. type \in EConnectionType
  BY TypeNameHasType DEF Parses
<1>3. PortType(type) \in {"UDP", "TCP"}
  BY <1>2, TypesFit
<1>4. d.srcPort.value \in Nat /\ d.dstPort.value \in Nat
  BY <1>1 DEF IsDocument
<1>5. /\ NewPort(PortType(type), d.srcPort.value) \in Port /\ NewPort(PortType(type), d.dstPort.value) \in Port
      /\ d.srcPort.value % PortMod \in 0..PortMod - 1 /\ d.dstPort.value % PortMod \in 0..PortMod - 1
  BY <1>3, <1>4, NewPortType
<1> QED BY <1>1, <1>2, <1>5 DEF IsDocument, CreateFromString

\* An accepted document is about a flow, and looks for its ports.
LEMMA AcceptedFlow ==
    ASSUME NEW d, IsDocument(d), Accepted(d), NEW flow, flow = DocumentFlow(d)
    PROVE  /\ IsFlow(flow) /\ flow.type = TypeToEnum(d.type.value)
           /\ flow.src = CreateFromString(d.srcAddress.value) /\ flow.dst = CreateFromString(d.dstAddress.value)
           /\ SPort(flow) = NewPort(PortType(flow.type), d.srcPort.value)
           /\ DPort(flow) = NewPort(PortType(flow.type), d.dstPort.value)
<1>1. PICK type : type = TypeToEnum(d.type.value)
  OBVIOUS
<1>2. /\ type \in EConnectionType
      /\ CreateFromString(d.srcAddress.value) \in Address /\ CreateFromString(d.dstAddress.value) \in Address
      /\ d.srcPort.value % PortMod \in 0..PortMod - 1 /\ d.dstPort.value % PortMod \in 0..PortMod - 1
  BY <1>1, DocumentPorts DEF Accepted
<1>3. /\ CreateFromString(d.srcAddress.value).type = AddressType(type)
      /\ CreateFromString(d.dstAddress.value).type = AddressType(type)
  BY <1>1 DEF Accepted, IsAddressOf, CreateFromString
<1>4. /\ flow.type = type /\ flow.src = CreateFromString(d.srcAddress.value) /\ flow.dst = CreateFromString(d.dstAddress.value)
      /\ flow.sport = d.srcPort.value % PortMod /\ flow.dport = d.dstPort.value % PortMod
  BY <1>1 DEF DocumentFlow
<1>5. IsFlow(flow)
  BY <1>1, <1>2, <1>3, <1>4 DEF IsFlow, DocumentFlow
<1> QED BY <1>1, <1>4, <1>5, FlowPorts DEF NewPort

-----------------------------------------------------------------------------
\* ConnectionData::Deserialize with the list as the receiver.

\* Only the connections of the list are other ones.
LEMMA SameNodes ==
    ASSUME NEW l, NEW r, ListOK(l, r), NEW k, ListShape(k), StorageOK(k.storage), SamePlaces(l.storage, k.storage),
           k.requests = l.requests, k.dataTotalCount = l.dataTotalCount, k.dataResolvedCount = l.dataResolvedCount
    PROVE  ListOK(k, r)
<1>1. k.storage.addresses = l.storage.addresses /\ k.storage.ports = l.storage.ports
  BY DEF SamePlaces
<1>2. \A x : Unresolved(k, x) <=> Unresolved(l, x)
  BY <1>1 DEF Unresolved
<1>3. Waiting(k, k.requests, r)
  BY <1>2 DEF ListOK, Waiting
<1>4. Once(k.requests, r) /\ Counted(k, r)
  BY <1>1 DEF ListOK, Counted
<1> QED BY <1>3, <1>4 DEF ListOK

\* What is thrown, and what is applied.
Outcome(r, d, r2) ==
    /\ r2 = [list |-> r2.list, thrown |-> r2.thrown] /\ r2.thrown \in BOOLEAN
    /\ r.thrown => r2.thrown
    /\ ~Accepted(d) => r2.thrown
    /\ ~r.thrown /\ Accepted(d) =>
            ~r2.thrown /\ Contents(r2.list.storage) = Applied(Contents(r.list.storage), d)

\* The first half: both addresses and both ports of a new connection.
LEMMA ListWithFlow ==
    ASSUME NEW l, NEW e, Len(e) \in Nat, \A i \in 1..Len(e) : e[i].request \in Requests, ListOK(l, e),
           NEW flow, IsFlow(flow),
           NEW k, k = ListAddPort(ListAddPort(ListAddAddress(ListAddAddress(l, flow.src), flow.dst), SPort(flow)), DPort(flow))
    PROVE  ListOK(k, e) /\ k.storage = WithFlow(l.storage, flow)
<1>1. PICK l1, l2, l3 : /\ l1 = ListAddAddress(l, flow.src) /\ l2 = ListAddAddress(l1, flow.dst)
                        /\ l3 = ListAddPort(l2, SPort(flow))
  OBVIOUS
<1>2. flow.src \in Address /\ flow.dst \in Address /\ SPort(flow) \in Port /\ DPort(flow) \in Port
  BY FlowPorts
<1>3. ListOK(l1, e) /\ l1.storage = addAddress(l.storage, flow.src)
  BY <1>1, <1>2, ListAddAddressOK
<1>4. ListOK(l2, e) /\ l2.storage = addAddress(l1.storage, flow.dst)
  BY <1>1, <1>2, <1>3, ListAddAddressOK
<1>5. ListOK(l3, e) /\ l3.storage = addPort(l2.storage, SPort(flow))
  BY <1>1, <1>2, <1>4, ListAddPortOK
<1>6. ListOK(k, e) /\ k.storage = addPort(l3.storage, DPort(flow))
  BY <1>1, <1>2, <1>5, ListAddPortOK
<1> QED BY <1>3, <1>4, <1>5, <1>6 DEF WithFlow, SPort, DPort

\* ConnectionData::Deserialize: the list stays well formed, a document that is not accepted
\* throws, and any other one changes the connections as it says.
LEMMA DeserializeOK ==
    ASSUME NEW r, NEW d, IsDocument(d), r = [list |-> r.list, thrown |-> r.thrown], r.thrown \in BOOLEAN,
           NEW e, Len(e) \in Nat, \A i \in 1..Len(e) : e[i].request \in Requests, ListOK(r.list, e),
           NEW r2, r2 = Deserialize(r, d)
    PROVE  ListOK(r2.list, e) /\ Outcome(r, d, r2)
<1> DEFINE l == r.list
           type == TypeToEnum(d.type.value)
           src == CreateFromString(d.srcAddress.value)
           dst == CreateFromString(d.dstAddress.value)
           srcPort == NewPort(PortType(type), d.srcPort.value)
           dstPort == NewPort(PortType(type), d.dstPort.value)
           l1 == IF d.action.value = "CREATE" THEN ListAddAddress(l, src) ELSE l
           l2 == IF d.action.value = "CREATE" THEN ListAddAddress(l1, dst) ELSE l1
           l3 == IF d.action.value = "CREATE" THEN ListAddPort(ListAddPort(l2, srcPort), dstPort) ELSE l2
           s == l3.storage
           pointers == <<getAddress(s, src), getAddress(s, dst), getPort(s, srcPort), getPort(s, dstPort)>>
           c == NewConnection(s, pointers[1], pointers[3], pointers[2], pointers[4])
<1>4. r2 = IF r.thrown THEN r
           ELSE IF ~Parses(d) \/ ~IsAddressOf(d.srcAddress.value, AddressType(type)) THEN [r EXCEPT !.thrown = TRUE]
           ELSE IF ~IsAddressOf(d.dstAddress.value, AddressType(type)) THEN [list |-> l1, thrown |-> TRUE]
           ELSE IF \E i \in DOMAIN pointers : pointers[i] = nullptr THEN r
           ELSE IF d.action.value = "CREATE"
           THEN [r EXCEPT !.list = [l3 EXCEPT !.storage =
                   addConnection(s, c, ParsedTraffic(d), ParsedState(d, type))]]
           ELSE IF c \notin DOMAIN s.connectionMap THEN r
           ELSE IF d.action.value = "UPDATE"
           THEN [r EXCEPT !.list.storage.connectionMap[c] = Overwritten(@, d, type)]
           ELSE [r EXCEPT !.list.storage = removeConnection(@, c)]
  BY Zenon DEF Deserialize
<1>1. /\ l = r.list /\ type = TypeToEnum(d.type.value)
      /\ src = CreateFromString(d.srcAddress.value) /\ dst = CreateFromString(d.dstAddress.value)
      /\ srcPort = NewPort(PortType(type), d.srcPort.value) /\ dstPort = NewPort(PortType(type), d.dstPort.value)
  OBVIOUS
<1>2. /\ l1 = IF d.action.value = "CREATE" THEN ListAddAddress(l, src) ELSE l
      /\ l2 = IF d.action.value = "CREATE" THEN ListAddAddress(l1, dst) ELSE l1
      /\ l3 = IF d.action.value = "CREATE" THEN ListAddPort(ListAddPort(l2, srcPort), dstPort) ELSE l2
  OBVIOUS
<1>3. /\ s = l3.storage
      /\ pointers = <<getAddress(s, src), getAddress(s, dst), getPort(s, srcPort), getPort(s, dstPort)>>
      /\ c = NewConnection(s, pointers[1], pointers[3], pointers[2], pointers[4])
  OBVIOUS
<1> HIDE DEF l, type, src, dst, srcPort, dstPort, l1, l2, l3, s, pointers, c
<1>5. ListOK(l, e) /\ ListShape(l) /\ StorageOK(l.storage)
  BY <1>1 DEF ListOK
<1>6. CASE r.thrown
  <2>1. r2 = r
    BY <1>4, <1>6
  <2> QED BY <1>6, <2>1 DEF Outcome
<1>7. CASE ~r.thrown /\ (~Parses(d) \/ ~IsAddressOf(d.srcAddress.value, AddressType(type)))
  <2>1. r2 = [r EXCEPT !.thrown = TRUE]
    BY <1>4, <1>7
  <2>2. r2 = [list |-> l, thrown |-> TRUE]
    BY <1>1, <2>1
  <2>3. ~Accepted(d)
    BY <1>1, <1>7 DEF Accepted
  <2> QED BY <1>5, <1>7, <2>2, <2>3 DEF Outcome
<1>8. CASE /\ ~r.thrown /\ Parses(d) /\ IsAddressOf(d.srcAddress.value, AddressType(type))
           /\ ~IsAddressOf(d.dstAddress.value, AddressType(type))
  <2>1. r2 = [list |-> l1, thrown |-> TRUE]
    BY <1>4, <1>8
  <2>2. ~Accepted(d)
    BY <1>1, <1>8 DEF Accepted
  <2>3. src \in Address
    BY <1>1, <1>8, DocumentPorts
  <2>4. ListOK(l1, e)
    BY <1>2, <1>5, <2>3, ListAddAddressOK
  <2> QED BY <1>8, <2>1, <2>2, <2>4 DEF Outcome
<1>9. CASE /\ ~r.thrown /\ Parses(d) /\ IsAddressOf(d.srcAddress.value, AddressType(type))
           /\ IsAddressOf(d.dstAddress.value, AddressType(type))
  <2>1. Accepted(d)
    BY <1>1, <1>9 DEF Accepted
  <2>2. PICK flow : flow = DocumentFlow(d)
    OBVIOUS
  <2>3. /\ IsFlow(flow) /\ flow.type = type /\ flow.src = src /\ flow.dst = dst
        /\ SPort(flow) = srcPort /\ DPort(flow) = dstPort
    BY <1>1, <2>1, <2>2, AcceptedFlow
  <2>4. (\E i \in DOMAIN pointers : pointers[i] = nullptr) <=> ~Found(s, flow)
    BY <1>3, <2>3 DEF Found
  <2>5. c = ConnectionOf(s, flow)
    BY <1>3, <2>3 DEF ConnectionOf, SPort, DPort
  <2>6. CASE d.action.value = "CREATE"
    <3>1. l3 = ListAddPort(ListAddPort(ListAddAddress(ListAddAddress(l, src), dst), srcPort), dstPort)
      BY <1>2, <2>6
    <3>2. ListOK(l3, e) /\ s = WithFlow(l.storage, flow)
      BY <1>3, <1>5, <2>3, <3>1, ListWithFlow
    <3>3. PlacesOK(s) /\ Grown(l.storage, s) /\ Found(s, flow)
      BY <1>5, <2>3, <3>2, WithFlowGrows DEF StorageOK
    <3>4. StorageOK(s) /\ Contents(s) = Contents(l.storage)
      BY <1>5, <3>3, StorageGrows
    <3>5. PICK t : t = addConnection(s, c, ParsedTraffic(d), ParsedState(d, type))
      OBVIOUS
    <3>6. /\ StorageOK(t) /\ SamePlaces(s, t)
          /\ Contents(t) = Created(Contents(s), flow, ParsedData(d, type))
      BY <2>3, <2>5, <3>3, <3>4, <3>5, AddConnectionCreates DEF ParsedData
    <3>7. PICK k : k = [l3 EXCEPT !.storage = t]
      OBVIOUS
    <3>8. r2 = [r EXCEPT !.list = k]
      BY <1>4, <1>9, <2>4, <2>6, <3>3, <3>5, <3>7
    <3>9. r2 = [list |-> k, thrown |-> FALSE]
      BY <1>9, <3>8
    <3>10. ListShape(l3)
      BY <3>2 DEF ListOK
    <3>11. /\ ListShape(k) /\ k.storage = t /\ k.requests = l3.requests /\ k.dataTotalCount = l3.dataTotalCount
           /\ k.dataResolvedCount = l3.dataResolvedCount
      BY <3>7, <3>10 DEF ListShape
    <3>12. ListOK(k, e)
      BY <1>3, <3>2, <3>6, <3>11, SameNodes
    <3>13. Contents(t) = Applied(Contents(l.storage), d)
      BY <2>2, <2>3, <2>6, <3>4, <3>6 DEF Applied
    <3> QED BY <1>1, <1>9, <2>1, <3>9, <3>11, <3>12, <3>13 DEF Outcome
  <2>7. CASE d.action.value # "CREATE"
    <3>1. l3 = l /\ s = l.storage
      BY <1>2, <1>3, <2>7
    <3>2. StorageOK(s)
      BY <1>5, <3>1
    <3>3. CASE ~Found(s, flow) \/ c \notin DOMAIN s.connectionMap
      <4>1. r2 = r
        BY <1>4, <1>9, <2>4, <2>7, <3>3
      <4>2. \A x \in Contents(s) : x.flow # flow
        BY <2>5, <3>2, <3>3, EntryOfFlow
      <4>3. Removed(Contents(s), flow) = Contents(s)
        BY <4>2 DEF Removed
      <4>4. \A x \in Contents(s) : x = Entry(x.flow, x.data)
        BY DEF Contents, Entry
      <4>5. Overwrote(Contents(s), flow, d) = Contents(s)
        BY <4>2, <4>4 DEF Overwrote
      <4>6. Applied(Contents(s), d) = Contents(s)
        BY <2>2, <2>7, <4>3, <4>5 DEF Applied
      <4> QED BY <1>1, <1>5, <1>9, <2>1, <3>1, <4>1, <4>6 DEF Outcome
    <3>4. CASE Found(s, flow) /\ c \in DOMAIN s.connectionMap /\ d.action.value = "UPDATE"
      <4>1. PICK data, t, k : /\ data = Overwritten(s.connectionMap[c], d, type)
                              /\ t = [s EXCEPT !.connectionMap[c] = data] /\ k = [l EXCEPT !.storage = t]
        OBVIOUS
      <4>2. r2 = [r EXCEPT !.list.storage.connectionMap[c] = Overwritten(@, d, type)]
        BY <1>4, <1>9, <2>4, <2>7, <3>4
      <4>3. r2 = [list |-> k, thrown |-> FALSE]
        BY <1>1, <1>9, <3>1, <4>1, <4>2
      <4>4. /\ ListShape(k) /\ k.storage = t /\ k.requests = l.requests /\ k.dataTotalCount = l.dataTotalCount
            /\ k.dataResolvedCount = l.dataResolvedCount
        BY <1>5, <4>1 DEF ListShape
      <4>5. StorageOK(t) /\ SamePlaces(s, t) /\ Contents(t) = Changed(Contents(s), flow, data)
        BY <2>3, <2>5, <3>2, <3>4, <4>1, ConnectionChanges
      <4>6. ListOK(k, e)
        BY <1>5, <3>1, <4>4, <4>5, SameNodes
      <4>7. \A x \in Contents(s) : x.flow = flow => x.data = s.connectionMap[c]
        BY <2>5, <3>2, EntryOfFlow DEF Entry
      <4>8. Changed(Contents(s), flow, data) = Overwrote(Contents(s), flow, d)
        BY <2>3, <4>1, <4>7 DEF Changed, Overwrote
      <4>9. Contents(t) = Applied(Contents(s), d)
        BY <2>2, <3>4, <4>5, <4>8 DEF Applied
      <4> QED BY <1>1, <1>9, <2>1, <3>1, <4>3, <4>4, <4>6, <4>9 DEF Outcome
    <3>5. CASE Found(s, flow) /\ c \in DOMAIN s.connectionMap /\ d.action.value # "UPDATE"
      <4>1. PICK t, k : t = removeConnection(s, c) /\ k = [l EXCEPT !.storage = t]
        OBVIOUS
      <4>2. r2 = [r EXCEPT !.list.storage = removeConnection(@, c)]
        BY <1>4, <1>9, <2>4, <2>7, <3>5
      <4>3. r2 = [list |-> k, thrown |-> FALSE]
        BY <1>1, <1>9, <3>1, <4>1, <4>2
      <4>4. /\ ListShape(k) /\ k.storage = t /\ k.requests = l.requests /\ k.dataTotalCount = l.dataTotalCount
            /\ k.dataResolvedCount = l.dataResolvedCount
        BY <1>5, <4>1 DEF ListShape
      <4>5. StorageOK(t) /\ SamePlaces(s, t) /\ Contents(t) = Removed(Contents(s), flow)
        BY <2>3, <2>5, <3>2, <3>5, <4>1, RemoveConnectionRemoves
      <4>6. ListOK(k, e)
        BY <1>5, <3>1, <4>4, <4>5, SameNodes
      <4>7. Contents(t) = Applied(Contents(s), d)
        BY <2>2, <2>7, <3>5, <4>5 DEF Applied
      <4> QED BY <1>1, <1>9, <2>1, <3>1, <4>3, <4>4, <4>6, <4>7 DEF Outcome
    <3> QED BY <3>3, <3>4, <3>5
  <2> QED BY <2>6, <2>7
<1> QED BY <1>6, <1>7, <1>8, <1>9

-----------------------------------------------------------------------------
(***************************************************************************)
(* Sequences of documents.  Where they lead, by value: the contents in     *)
(* between are bound by an existential quantifier.                         *)
(***************************************************************************)
IsSeq(q) == \E T : q \in Seq(T)

\* A sequence with one more element.
LEMMA SeqAppends ==
    ASSUME NEW q, IsSeq(q), NEW x, NEW r, r = Append(q, x)
    PROVE  /\ IsSeq(r) /\ Len(q) \in Nat /\ Len(r) = Len(q) + 1 /\ r[Len(q) + 1] = x
           /\ \A i \in 1..Len(q) : r[i] = q[i]
<1>1. PICK T : q \in Seq(T)
  BY DEF IsSeq
<1>2. PICK U : U = T \cup {x}
  OBVIOUS
<1>3. q \in Seq(U) /\ x \in U
  BY <1>1, <1>2
<1>4. r \in Seq(U)
  BY <1>3
<1> QED BY <1>3, <1>4 DEF IsSeq

\* A function on 1..n is a sequence.
LEMMA SeqOfFunction ==
    ASSUME NEW q, NEW n \in Nat, DOMAIN q = 1..n, q = [i \in 1..n |-> q[i]]
    PROVE  IsSeq(q) /\ Len(q) = n
<1>1. PICK T : T = {q[i] : i \in 1..n}
  OBVIOUS
<1>2. q \in [1..n -> T]
  BY <1>1
<1>3. q \in Seq(T)
  BY <1>2
<1> QED BY <1>3 DEF IsSeq

\* A set of numbers has a least one.
LEMMA NaturalMinimum ==
    ASSUME NEW U, U \subseteq Nat, U # {}
    PROVE  \E x \in U : \A y \in U : ~(y < x)
<1> DEFINE Less == {ss \in Nat \X Nat : ss[1] < ss[2]}
<1>1. IsWellFoundedOn(Less, Nat)
  BY NatLessThanWellFounded DEF OpToRel
<1>2. PICK x \in U : \A y \in U : ~(<<y, x>> \in Less)
  <2> HIDE DEF Less
  <2> QED BY <1>1, WFMin
<1> QED BY <1>2

IsReplay(f, C, q) == f = [n \in 0..Len(q) |-> IF n = 0 THEN C ELSE Applied(f[n - 1], q[n])]

Leads(C, q, D) == \E f : IsReplay(f, C, q) /\ f[Len(q)] = D

\* No document changes nothing.
LEMMA LeadsNowhere ==
    ASSUME NEW C
    PROVE  Leads(C, <<>>, C)
<1>1. PICK f : f = [n \in 0..0 |-> C]
  OBVIOUS
<1>2. Len(<<>>) = 0
  OBVIOUS
<1>3. IsReplay(f, C, <<>>)
  BY <1>1, <1>2 DEF IsReplay
<1>4. f[0] = C
  BY <1>1
<1> QED BY <1>2, <1>3, <1>4 DEF Leads

\* One more document.
LEMMA LeadsOn ==
    ASSUME NEW q, IsSeq(q), NEW x, NEW C, NEW D, Leads(C, q, D), NEW r, r = Append(q, x)
    PROVE  Leads(C, r, Applied(D, x))
<1>1. PICK f : IsReplay(f, C, q) /\ f[Len(q)] = D
  BY DEF Leads
<1>2. PICK m : m = Len(q)
  OBVIOUS
<1>3. m \in Nat /\ Len(r) = m + 1 /\ r[m + 1] = x /\ \A n \in 1..m : r[n] = q[n]
  BY <1>2, SeqAppends
<1>4. PICK g : g = [n \in 0..m + 1 |-> IF n <= m THEN f[n] ELSE Applied(D, x)]
  OBVIOUS
<1>5. \A n \in 0..m : f[n] = IF n = 0 THEN C ELSE Applied(f[n - 1], q[n])
  BY <1>1, <1>2 DEF IsReplay
<1>6. ASSUME NEW n \in 0..m + 1 PROVE g[n] = IF n = 0 THEN C ELSE Applied(g[n - 1], r[n])
  <2>1. CASE n = 0
    BY <1>3, <1>4, <1>5, <2>1
  <2>2. CASE n \in 1..m
    <3>1. n - 1 \in 0..m + 1 /\ n - 1 <= m /\ n <= m /\ n # 0 /\ n \in 0..m
      BY <1>3, <2>2
    <3>2. g[n] = f[n] /\ g[n - 1] = f[n - 1] /\ r[n] = q[n]
      BY <1>3, <1>4, <2>2, <3>1
    <3> QED BY <1>5, <3>1, <3>2
  <2>3. CASE n = m + 1
    <3>1. m \in 0..m + 1 /\ n - 1 = m /\ n # 0 /\ ~(n <= m) /\ m <= m
      BY <1>3, <2>3
    <3>2. g[n] = Applied(D, x) /\ g[m] = f[m] /\ r[n] = x
      BY <1>3, <1>4, <2>3, <3>1
    <3> QED BY <1>1, <1>2, <3>1, <3>2
  <2>4. n = 0 \/ n \in 1..m \/ n = m + 1
    BY <1>3
  <2> QED BY <2>1, <2>2, <2>3, <2>4
<1>7. IsReplay(g, C, r)
  <2>1. g = [n \in 0..m + 1 |-> g[n]]
    BY <1>4
  <2>2. [n \in 0..m + 1 |-> g[n]] = [n \in 0..m + 1 |-> IF n = 0 THEN C ELSE Applied(g[n - 1], r[n])]
    BY ONLY <1>6
  <2> QED BY <1>3, <2>1, <2>2 DEF IsReplay
<1>8. g[Len(r)] = Applied(D, x)
  BY <1>3, <1>4
<1> QED BY <1>7, <1>8 DEF Leads

\* The first n documents of a message.
IsRun(f, l, q, n) ==
    f = [m \in 0..n |-> IF m = 0 THEN [list |-> l, thrown |-> FALSE] ELSE Deserialize(f[m - 1], q[m])]

\* The loop of Client::onSessionData is defined for every message.
LEMMA RunExists ==
    ASSUME NEW q, NEW l, NEW N \in Nat
    PROVE  \E f : IsRun(f, l, q, N)
<1>1. PICK U : U = {n \in 0..N : ~\E f : IsRun(f, l, q, n)}
  OBVIOUS
<1>2. ASSUME U # {} PROVE FALSE
  <2>1. PICK x \in U : \A y \in U : ~(y < x)
    <3>1. U \subseteq Nat
      BY <1>1
    <3> QED BY ONLY <1>2, <3>1, NaturalMinimum
  <2>2. x \in 0..N /\ ~\E f : IsRun(f, l, q, x)
    BY <1>1
  <2>3. CASE x = 0
    <3>1. PICK f : f = [m \in 0..0 |-> [list |-> l, thrown |-> FALSE]]
      OBVIOUS
    <3>2. IsRun(f, l, q, 0)
      BY <3>1 DEF IsRun
    <3> QED BY <2>2, <2>3, <3>2
  <2>4. CASE x # 0
    <3>1. PICK k : k = x - 1
      OBVIOUS
    <3>2. k \in 0..N /\ k < x /\ k \in Nat /\ x = k + 1
      BY <2>2, <2>4, <3>1
    <3>3. PICK f : IsRun(f, l, q, k)
      BY <1>1, <2>1, <3>2
    <3>4. PICK g : g = [m \in 0..k + 1 |-> IF m <= k THEN f[m] ELSE Deserialize(f[k], q[k + 1])]
      OBVIOUS
    <3>5. \A m \in 0..k : f[m] = IF m = 0 THEN [list |-> l, thrown |-> FALSE] ELSE Deserialize(f[m - 1], q[m])
      BY <3>3 DEF IsRun
    <3>6. ASSUME NEW m \in 0..k + 1
          PROVE  g[m] = IF m = 0 THEN [list |-> l, thrown |-> FALSE] ELSE Deserialize(g[m - 1], q[m])
      <4>1. CASE m = 0
        <5>1. 0 \in 0..k /\ 0 \in 0..k + 1 /\ 0 <= k
          BY <3>2
        <5>2. g[0] = f[0]
          BY <3>4, <5>1
        <5> QED BY <3>5, <4>1, <5>1, <5>2
      <4>2. CASE m \in 1..k
        <5>1. m - 1 \in 0..k + 1 /\ m - 1 <= k /\ m <= k /\ m # 0 /\ m \in 0..k
          BY <3>2, <4>2
        <5>2. g[m] = f[m] /\ g[m - 1] = f[m - 1]
          BY <3>2, <3>4, <4>2, <5>1
        <5> QED BY <3>5, <5>1, <5>2
      <4>3. CASE m = k + 1
        <5>1. k \in 0..k + 1 /\ m - 1 = k /\ m # 0 /\ ~(m <= k) /\ k <= k
          BY <3>2, <4>3
        <5>2. g[m] = Deserialize(f[k], q[k + 1]) /\ g[k] = f[k]
          BY <3>2, <3>4, <4>3, <5>1
        <5> QED BY <4>3, <5>1, <5>2
      <4>4. m = 0 \/ m \in 1..k \/ m = k + 1
        BY <3>2
      <4> QED BY <4>1, <4>2, <4>3, <4>4
    <3>7. IsRun(g, l, q, k + 1)
      <4>1. g = [m \in 0..k + 1 |-> g[m]]
        BY <3>4
      <4>2. [m \in 0..k + 1 |-> g[m]]
              = [m \in 0..k + 1 |-> IF m = 0 THEN [list |-> l, thrown |-> FALSE] ELSE Deserialize(g[m - 1], q[m])]
        BY ONLY <3>6
      <4> QED BY <4>1, <4>2 DEF IsRun
    <3> QED BY <2>2, <3>2, <3>7
  <2> QED BY <2>3, <2>4
<1> QED BY <1>1, <1>2

\* The loop of Client::onSessionData runs through all of the documents.
LEMMA DeserializedRuns ==
    ASSUME NEW q, NEW l, Len(q) \in Nat
    PROVE  \E f : IsRun(f, l, q, Len(q)) /\ Deserialized(l, q) = f[Len(q)]
<1>1. PICK g : g = CHOOSE h : IsRun(h, l, q, Len(q))
  OBVIOUS
<1>2. IsRun(g, l, q, Len(q))
  BY <1>1, RunExists
<1>3. Deserialized(l, q) = g[Len(q)]
  BY <1>1, Zenon DEF Deserialized, IsRun
<1> QED BY <1>2, <1>3

\* What a message does to the list.
Result(r, e) ==
    r = [list |-> r.list, thrown |-> r.thrown] /\ r.thrown \in BOOLEAN /\ ListOK(r.list, e)

MessageOutcome(l, q, r) ==
    /\ (\E i \in 1..Len(q) : ~Accepted(q[i])) => r.thrown
    /\ \A C : (\A i \in 1..Len(q) : Accepted(q[i])) /\ Leads(Contents(l.storage), q, C) =>
            ~r.thrown /\ Contents(r.list.storage) = C

\* Client::onSessionData: the documents of a message, one after another.
LEMMA MessageOK ==
    ASSUME NEW q, IsSeq(q), \A i \in 1..Len(q) : IsDocument(q[i]),
           NEW e, Len(e) \in Nat, \A i \in 1..Len(e) : e[i].request \in Requests, NEW l, ListOK(l, e),
           NEW r, r = Deserialized(l, q)
    PROVE  Result(r, e) /\ MessageOutcome(l, q, r)
<1>1. PICK N : N = Len(q)
  OBVIOUS
<1>2. N \in Nat
  BY <1>1 DEF IsSeq
<1>3. PICK f : IsRun(f, l, q, N) /\ r = f[N]
  BY <1>1, <1>2, DeserializedRuns
<1>4. \A n \in 0..N : f[n] = IF n = 0 THEN [list |-> l, thrown |-> FALSE] ELSE Deserialize(f[n - 1], q[n])
  BY <1>3 DEF IsRun
<1>5. f[0] = [list |-> l, thrown |-> FALSE]
  <2>1. 0 \in 0..N
    BY <1>2
  <2> QED BY <1>4, <2>1, Zenon
<1>6. \A n \in 1..N : f[n] = Deserialize(f[n - 1], q[n])
  BY <1>2, <1>4
<1>7. \A n \in 0..N : Result(f[n], e)
  <2>1. PICK U : U = {n \in 0..N : ~Result(f[n], e)}
    OBVIOUS
  <2>2. ASSUME U # {} PROVE FALSE
    <3>1. PICK x \in U : \A y \in U : ~(y < x)
      <4>1. U \subseteq Nat
        BY <2>1
      <4> QED BY ONLY <2>2, <4>1, NaturalMinimum
    <3>2. x \in 0..N /\ ~Result(f[x], e)
      BY <2>1
    <3>3. Result(f[0], e)
      BY <1>5 DEF Result
    <3>4. PICK k : k = x - 1
      OBVIOUS
    <3>5. x \in 1..N /\ k \in 0..N /\ k < x
      <4>1. x # 0
        BY <3>2, <3>3
      <4> QED BY <1>2, <3>2, <3>4, <4>1
    <3>6. Result(f[k], e)
      BY <2>1, <3>1, <3>5
    <3>7. f[x] = Deserialize(f[k], q[x]) /\ IsDocument(q[x])
      BY <1>1, <1>6, <3>4, <3>5
    <3>8. ListOK(f[x].list, e) /\ Outcome(f[k], q[x], f[x])
      BY <3>6, <3>7, DeserializeOK DEF Result
    <3> QED BY <3>2, <3>8 DEF Result, Outcome
  <2> QED BY <2>1, <2>2
<1>8. ASSUME NEW n \in 1..N, NEW k, k = n - 1 PROVE Outcome(f[k], q[n], f[n])
  <2>1. k \in 0..N
    BY <1>2, <1>8
  <2>2. Result(f[k], e)
    BY <1>7, <2>1
  <2>3. f[n] = Deserialize(f[k], q[n]) /\ IsDocument(q[n])
    BY <1>1, <1>6, <1>8
  <2> QED BY <2>2, <2>3, DeserializeOK DEF Result
<1>9. N \in 0..N
  BY <1>2
<1>10. ASSUME NEW i \in 1..N, ~Accepted(q[i]) PROVE r.thrown
  <2>1. PICK U : U = {n \in i..N : ~f[n].thrown}
    OBVIOUS
  <2>2. ASSUME U # {} PROVE FALSE
    <3>1. PICK x \in U : \A y \in U : ~(y < x)
      <4>1. U \subseteq Nat
        BY <1>2, <2>1
      <4> QED BY ONLY <2>2, <4>1, NaturalMinimum
    <3>2. x \in i..N /\ x \in 1..N /\ ~f[x].thrown
      BY <1>2, <2>1
    <3>3. PICK k : k = x - 1
      OBVIOUS
    <3>4. Outcome(f[k], q[x], f[x])
      BY <1>8, <3>2, <3>3
    <3>5. CASE x = i
      BY <1>10, <3>2, <3>4, <3>5 DEF Outcome
    <3>6. CASE x # i
      <4>1. k \in i..N /\ k < x
        BY <1>2, <3>2, <3>3, <3>6
      <4>2. f[k].thrown
        BY <2>1, <3>1, <4>1
      <4> QED BY <3>2, <3>4, <4>2 DEF Outcome
    <3> QED BY <3>5, <3>6
  <2>3. N \in i..N
    BY <1>2
  <2> QED BY <1>3, <2>1, <2>2, <2>3
<1>11. ASSUME NEW C, \A i \in 1..N : Accepted(q[i]), Leads(Contents(l.storage), q, C)
       PROVE  ~r.thrown /\ Contents(r.list.storage) = C
  <2>1. PICK g : IsReplay(g, Contents(l.storage), q) /\ g[N] = C
    BY <1>1, <1>11 DEF Leads
  <2>2. \A n \in 0..N : g[n] = IF n = 0 THEN Contents(l.storage) ELSE Applied(g[n - 1], q[n])
    BY <1>1, <2>1 DEF IsReplay
  <2>3. PICK U : U = {n \in 0..N : ~(~f[n].thrown /\ Contents(f[n].list.storage) = g[n])}
    OBVIOUS
  <2>4. ASSUME U # {} PROVE FALSE
    <3>1. PICK x \in U : \A y \in U : ~(y < x)
      <4>1. U \subseteq Nat
        BY <2>3
      <4> QED BY ONLY <2>4, <4>1, NaturalMinimum
    <3>2. x \in 0..N /\ ~(~f[x].thrown /\ Contents(f[x].list.storage) = g[x])
      BY <2>3
    <3>3. x # 0
      <4>1. g[0] = Contents(l.storage)
        BY <1>2, <2>2
      <4>2. f[0].thrown = FALSE /\ f[0].list = l
        BY <1>5
      <4>3. ~f[0].thrown /\ Contents(f[0].list.storage) = g[0]
        BY <4>1, <4>2
      <4> QED BY <3>2, <4>3
    <3>4. PICK k : k = x - 1
      OBVIOUS
    <3>5. x \in 1..N /\ k \in 0..N /\ k < x
      BY <1>2, <3>2, <3>3, <3>4
    <3>6. ~f[k].thrown /\ Contents(f[k].list.storage) = g[k]
      BY <2>3, <3>1, <3>5
    <3>7. g[x] = Applied(g[k], q[x])
      BY <2>2, <3>2, <3>3, <3>4
    <3>8. Outcome(f[k], q[x], f[x]) /\ Accepted(q[x])
      BY <1>8, <1>11, <3>4, <3>5
    <3>9. ~f[x].thrown /\ Contents(f[x].list.storage) = Applied(Contents(f[k].list.storage), q[x])
      BY <3>6, <3>8 DEF Outcome
    <3> QED BY <3>2, <3>6, <3>7, <3>9
  <2> QED BY <1>3, <1>9, <2>1, <2>3, <2>4
<1>12. MessageOutcome(l, q, r)
  BY <1>1, <1>10, <1>11 DEF MessageOutcome
<1> QED BY <1>3, <1>7, <1>9, <1>12

-----------------------------------------------------------------------------
(***************************************************************************)
(* The documents that the server makes (ConnectionData::serialize).        *)
(***************************************************************************)
LEMMA FlagNames ==
    /\ EConnectionUpdateFlags = {"PROTO_STATE", "RX_PACKETS", "TX_PACKETS", "RX_BYTES", "TX_BYTES", "RX_SPEED", "TX_SPEED"}
    /\ \A f \in EConnectionUpdateFlags : FlagMembers[f] \in TrafficFields \cup {"state"}
    /\ \A f \in EConnectionUpdateFlags : FlagMembers[f] = "state" <=> f = "PROTO_STATE"
    /\ \A n \in TrafficFields : \E f \in EConnectionUpdateFlags : FlagMembers[f] = n
    /\ FlagMembers["PROTO_STATE"] = "state" /\ "PROTO_STATE" \in EConnectionUpdateFlags
<1>1. EConnectionUpdateFlags = {"PROTO_STATE", "RX_PACKETS", "TX_PACKETS", "RX_BYTES", "TX_BYTES", "RX_SPEED", "TX_SPEED"}
  BY DEF EConnectionUpdateFlags, FlagMembers
<1>2. /\ FlagMembers["PROTO_STATE"] = "state" /\ FlagMembers["RX_PACKETS"] = "rxPackets"
      /\ FlagMembers["TX_PACKETS"] = "txPackets" /\ FlagMembers["RX_BYTES"] = "rxBytes"
      /\ FlagMembers["TX_BYTES"] = "txBytes" /\ FlagMembers["RX_SPEED"] = "rxSpeed"
      /\ FlagMembers["TX_SPEED"] = "txSpeed"
  BY DEF FlagMembers
<1> QED BY <1>1, <1>2 DEF TrafficFields

\* The members of a document that depend on the flags.
Selected(action, flags) == IF action = "CREATE" THEN EConnectionUpdateFlags ELSE flags

\* The members that a document has, by its action and its flags (ConnectionData::serialize).
LEMMA MemberNames ==
    ASSUME NEW action \in EConnectionAction, NEW flags \in SUBSET EConnectionUpdateFlags
    PROVE  /\ Always \subseteq Members(action, flags)
           /\ "updateFlags" \in Members(action, flags) <=> action = "UPDATE"
           /\ action # "REMOVE" => ("state" \in Members(action, flags) <=> "PROTO_STATE" \in Selected(action, flags))
           /\ action # "REMOVE" => \A n \in TrafficFields :
                    n \in Members(action, flags) <=> \E f \in Selected(action, flags) : FlagMembers[f] = n
           /\ Members(action, flags) \subseteq Always \cup {"updateFlags", "state"} \cup TrafficFields
<1>1. PICK S : S = Selected(action, flags)
  OBVIOUS
<1>2. S \subseteq EConnectionUpdateFlags
  BY <1>1 DEF Selected
<1>3. PICK M : M = {FlagMembers[f] : f \in S}
  OBVIOUS
<1>4. /\ M \subseteq TrafficFields \cup {"state"}
      /\ "state" \in M <=> "PROTO_STATE" \in S
      /\ \A n : n \in M <=> \E f \in S : FlagMembers[f] = n
  BY <1>2, <1>3, FlagNames
<1>5. Members(action, flags) = Always \cup (IF action = "UPDATE" THEN {"updateFlags"} ELSE {})
                                      \cup (IF action = "REMOVE" THEN {} ELSE M)
  BY <1>1, <1>3 DEF Members, Selected
<1>6. \A n \in TrafficFields \cup {"state"} : n \notin Always /\ n # "updateFlags"
  BY DEF TrafficFields, Always
<1>7. "updateFlags" \notin Always
  BY DEF Always
<1> QED BY <1>1, <1>4, <1>5, <1>6, <1>7

\* What is in a document of a connection with the data of the storage.
Carries(d, s, c, action, flags) ==
    LET data == s.connectionMap[c]
        flow == FlowOf(s, c)
    IN  /\ DOMAIN d = Members(action, flags) /\ d = [name \in DOMAIN d |-> d[name]]
        /\ \A name \in DOMAIN d : d[name] = [kind |-> Kinds[name], value |-> d[name].value]
        /\ d.action.value = action /\ d.type.value = data.typeName
        /\ d.srcAddress.value = [text |-> flow.src] /\ d.dstAddress.value = [text |-> flow.dst]
        /\ d.srcPort.value = flow.sport /\ d.dstPort.value = flow.dport
        /\ action = "UPDATE" => d.updateFlags.value = flags
        /\ "state" \in DOMAIN d => d.state.value = StateToString(data.state, c.type)
        /\ \A n \in TrafficFields : n \in DOMAIN d => d[n].value = data.traffic[n]

\* ConnectionData::serialize writes the connection, and what the flags select of its data.
LEMMA SerializeCarries ==
    ASSUME NEW s, StorageOK(s), NEW c \in DOMAIN s.connectionMap, NEW action \in EConnectionAction,
           NEW flags \in SUBSET EConnectionUpdateFlags, NEW d, d = serialize(s, c, action, flags)
    PROVE  Carries(d, s, c, action, flags)
<1> DEFINE data == s.connectionMap[c]
           value(name) ==
            CASE name = "action"      -> action
              [] name = "type"        -> data.typeName
              [] name = "srcAddress"  -> getSrcAddr(s, c).numericString
              [] name = "dstAddress"  -> getDstAddr(s, c).numericString
              [] name = "srcPort"     -> getSrcPort(s, c).port.number
              [] name = "dstPort"     -> getDstPort(s, c).port.number
              [] name = "updateFlags" -> flags
              [] name = "state"       -> StateToString(data.state, c.type)
              [] OTHER                -> data.traffic[name]
<1>1. d = [name \in Members(action, flags) |-> [kind |-> Kinds[name], value |-> value(name)]]
  BY Zenon DEF serialize
<1>2. /\ value("action") = action /\ value("type") = data.typeName
      /\ value("srcAddress") = getSrcAddr(s, c).numericString /\ value("dstAddress") = getDstAddr(s, c).numericString
      /\ value("srcPort") = getSrcPort(s, c).port.number /\ value("dstPort") = getDstPort(s, c).port.number
      /\ value("updateFlags") = flags /\ value("state") = StateToString(data.state, c.type)
  OBVIOUS
<1>3. ASSUME NEW n \in TrafficFields PROVE value(n) = data.traffic[n]
  <2>1. n \notin {"action", "type", "srcAddress", "dstAddress", "srcPort", "dstPort", "updateFlags", "state"}
    BY <1>3 DEF TrafficFields
  <2> QED BY <2>1
<1> HIDE DEF data, value
<1>4. DOMAIN d = Members(action, flags) /\ d = [name \in DOMAIN d |-> d[name]]
  BY <1>1
<1>5. \A name \in DOMAIN d : d[name] = [kind |-> Kinds[name], value |-> value(name)]
  BY <1>1
<1>6. \A name \in DOMAIN d : d[name].value = value(name) /\ d[name] = [kind |-> Kinds[name], value |-> d[name].value]
  BY <1>5
<1>7. \A name \in Always : name \in DOMAIN d
  BY <1>4, MemberNames
<1>8. /\ d.action.value = action /\ d.type.value = data.typeName
      /\ d.srcAddress.value = getSrcAddr(s, c).numericString /\ d.dstAddress.value = getDstAddr(s, c).numericString
      /\ d.srcPort.value = getSrcPort(s, c).port.number /\ d.dstPort.value = getDstPort(s, c).port.number
  BY <1>2, <1>6, <1>7 DEF Always
<1>9. action = "UPDATE" => d.updateFlags.value = flags
  BY <1>2, <1>4, <1>6, MemberNames
<1>10. IsConnection(s, c)
  BY DEF StorageOK, ConnectionsOK
<1>11. /\ getSrcAddr(s, c).numericString = [text |-> FlowOf(s, c).src]
       /\ getDstAddr(s, c).numericString = [text |-> FlowOf(s, c).dst]
  <2>1. c.srcAddr \in 1..Len(s.addresses) /\ c.dstAddr \in 1..Len(s.addresses)
    BY <1>10 DEF IsConnection
  <2>2. \A p \in 1..Len(s.addresses) : s.addresses[p].numericString = [text |-> s.addresses[p].address]
    BY DEF StorageOK, PlacesOK, AddressesOK, toString
  <2> QED BY <2>1, <2>2 DEF getSrcAddr, getDstAddr, FlowOf
<1>12. getSrcPort(s, c).port.number = FlowOf(s, c).sport /\ getDstPort(s, c).port.number = FlowOf(s, c).dport
  BY DEF FlowOf
<1>13. "state" \in DOMAIN d => d.state.value = StateToString(data.state, c.type)
  BY <1>2, <1>6
<1>14. \A n \in TrafficFields : n \in DOMAIN d => d[n].value = data.traffic[n]
  BY <1>3, <1>6
<1>15. data = s.connectionMap[c]
  BY DEF data
<1> QED BY <1>4, <1>6, <1>8, <1>9, <1>11, <1>12, <1>13, <1>14, <1>15 DEF Carries

TypeNameSet == {TypeToString(type) : type \in EConnectionType}

\* The data that the server keeps of a connection.
DataOK(data, type) ==
    /\ data \in [traffic : [TrafficFields -> Nat], state : Int, typeName : TypeNameSet]
    /\ data.typeName = TypeToString(type)
    /\ data.state \in States(type)

ServerOK(s) ==
    /\ StorageOK(s)
    /\ \A c \in DOMAIN s.connectionMap : DataOK(s.connectionMap[c], c.type)

\* The flags that a document names.
FlagsOf(d) == IF d.action.value = "UPDATE" THEN d.updateFlags.value ELSE {}

\* A document of our own make: nothing in it is superfluous.
Made(d) ==
    /\ IsDocument(d) /\ Accepted(d)
    /\ d = [name \in DOMAIN d |-> d[name]]
    /\ \A name \in DOMAIN d : d[name] = [kind |-> Kinds[name], value |-> d[name].value]
    /\ DOMAIN d = Members(d.action.value, FlagsOf(d))
    /\ d.action.value \in EConnectionAction /\ FlagsOf(d) \in SUBSET EConnectionUpdateFlags
    /\ d.dstAddress.value = [text |-> d.dstAddress.value.text]
    /\ d.srcPort.value \in 0..PortMod - 1

\* A document of the serializer is one that the client accepts, and names the same flow.
LEMMA CarriesMade ==
    ASSUME NEW s, StorageOK(s), NEW c \in DOMAIN s.connectionMap, s.connectionMap[c].typeName = TypeToString(c.type),
           NEW action \in EConnectionAction, NEW flags \in SUBSET EConnectionUpdateFlags,
           action # "UPDATE" => flags = {}, NEW d, Carries(d, s, c, action, flags)
    PROVE  Made(d) /\ DocumentFlow(d) = FlowOf(s, c)
<1>1. PICK flow : flow = FlowOf(s, c)
  OBVIOUS
<1>2. IsConnection(s, c) /\ PlacesOK(s)
  BY DEF StorageOK, ConnectionsOK
<1>3. IsFlow(flow)
  BY <1>1, <1>2, FlowOfConnection
<1>4. flow.type = c.type
  BY <1>1 DEF FlowOf
<1>5. /\ DOMAIN d = Members(action, flags) /\ d = [name \in DOMAIN d |-> d[name]]
      /\ \A name \in DOMAIN d : d[name] = [kind |-> Kinds[name], value |-> d[name].value]
      /\ d.action.value = action /\ d.type.value = TypeToString(c.type)
      /\ d.srcAddress.value = [text |-> flow.src] /\ d.dstAddress.value = [text |-> flow.dst]
      /\ d.srcPort.value = flow.sport /\ d.dstPort.value = flow.dport
      /\ action = "UPDATE" => d.updateFlags.value = flags
  BY <1>1 DEF Carries
<1>6. /\ flow.type \in EConnectionType /\ flow.src \in Address /\ flow.dst \in Address
      /\ flow.sport \in 0..PortMod - 1 /\ flow.dport \in 0..PortMod - 1
      /\ flow.src.type = AddressType(flow.type) /\ flow.dst.type = AddressType(flow.type)
      /\ flow = [type |-> flow.type, src |-> flow.src, sport |-> flow.sport, dst |-> flow.dst, dport |-> flow.dport]
  BY <1>3 DEF IsFlow
<1>7. flow.sport \in Nat /\ flow.dport \in Nat
  BY <1>6, PortModAssumption
<1>8. flow.sport % PortMod = flow.sport /\ flow.dport % PortMod = flow.dport
  BY <1>6, <1>7, NewPortType
<1>9. IsDocument(d)
  BY <1>5, <1>6, <1>7 DEF IsDocument
<1>10. TypeToEnum(d.type.value) = c.type /\ IsTypeName(d.type.value)
  BY <1>4, <1>5, <1>6, TypeNamesFit
<1>11. \A name \in DOMAIN d : IsMember(d, name)
  BY <1>5 DEF IsMember
<1>12. FlagsOf(d) = flags
  BY <1>5 DEF FlagsOf
<1>13. Parses(d)
  <2>1. \A name \in Always : IsMember(d, name)
    BY <1>5, <1>11, MemberNames
  <2>2. action = "UPDATE" => IsMember(d, "updateFlags")
    BY <1>5, <1>11, MemberNames
  <2>3. \A name \in Members(d.action.value, FlagsOf(d)) : IsMember(d, name)
    BY <1>5, <1>11, <1>12
  <2> QED BY <1>5, <1>10, <2>1, <2>2, <2>3 DEF Parses, FlagsOf
<1>14. Accepted(d)
  BY <1>4, <1>5, <1>6, <1>10, <1>13 DEF Accepted, IsAddressOf
<1>15. DocumentFlow(d) = flow
  BY <1>4, <1>5, <1>6, <1>8, <1>10 DEF DocumentFlow, CreateFromString
<1>16. d.dstAddress.value = [text |-> d.dstAddress.value.text]
  BY <1>5
<1> QED BY <1>1, <1>5, <1>6, <1>9, <1>12, <1>14, <1>15, <1>16 DEF Made

\* A state comes back from its name.
LEMMA StateComesBack ==
    ASSUME NEW type \in EConnectionType, NEW state \in States(type), NEW d, d.state.value = StateToString(state, type)
    PROVE  ParsedState(d, type) = state
<1>1. CASE type \in {"UDP4", "UDP6"}
  <2>1. state \in {LISTEN, UNKNOWN}
    BY <1>1 DEF States, PortType
  <2>2. d.state.value = UDPStateToString(state)
    BY <1>1 DEF StateToString
  <2>3. UDPStateToEnum(d.state.value) = state
    BY <2>1, <2>2 DEF UDPStateToString, UDPStateToEnum, LISTEN, UNKNOWN
  <2> QED BY <1>1, <2>3 DEF ParsedState
<1>2. CASE type \notin {"UDP4", "UDP6"}
  <2>1. state \in {UNKNOWN, 3}
    BY <1>2 DEF States, PortType
  <2>2. d.state.value = TCPStateToString(state)
    BY <1>2 DEF StateToString
  <2>3. /\ DOMAIN TCPStates = 1..11 /\ TCPStates[3] = "ESTABLISHED"
        /\ \A i \in 1..11 : TCPStates[i] # "?" /\ (TCPStates[i] = "ESTABLISHED" => i = 3)
    BY DEF TCPStates
  <2>4. CASE state = UNKNOWN
    <3>1. d.state.value = "?"
      BY <2>2, <2>3, <2>4 DEF TCPStateToString, LISTEN, UNKNOWN
    <3>2. TCPStateToEnum("?") = UNKNOWN
      BY <2>3 DEF TCPStateToEnum
    <3> QED BY <1>2, <2>4, <3>1, <3>2 DEF ParsedState
  <2>5. CASE state = 3
    <3>1. d.state.value = "ESTABLISHED"
      BY <2>2, <2>3, <2>5 DEF TCPStateToString, LISTEN
    <3>2. TCPStateToEnum("ESTABLISHED") = 3
      BY <2>3 DEF TCPStateToEnum
    <3> QED BY <1>2, <2>5, <3>1, <3>2 DEF ParsedState
  <2> QED BY <2>1, <2>4, <2>5
<1> QED BY <1>1, <1>2

\* A created connection arrives with its data.
LEMMA CreatedComesBack ==
    ASSUME NEW s, NEW c, NEW d, Carries(d, s, c, "CREATE", {}), c.type \in EConnectionType,
           NEW data, data = s.connectionMap[c], DataOK(data, c.type)
    PROVE  ParsedData(d, c.type) = data
<1>1. /\ DOMAIN d = Members("CREATE", {})
      /\ "state" \in DOMAIN d => d.state.value = StateToString(data.state, c.type)
      /\ \A n \in TrafficFields : n \in DOMAIN d => d[n].value = data.traffic[n]
  BY DEF Carries
<1>2. "state" \in DOMAIN d /\ \A n \in TrafficFields : n \in DOMAIN d
  BY <1>1, MemberNames, FlagNames DEF Selected, EConnectionAction
<1>3. ParsedState(d, c.type) = data.state
  BY <1>1, <1>2, StateComesBack DEF DataOK
<1>4. ParsedTraffic(d) = data.traffic
  <2>1. data.traffic \in [TrafficFields -> Nat]
    BY DEF DataOK
  <2> QED BY <1>1, <1>2, <2>1 DEF ParsedTraffic
<1>5. data = [traffic |-> data.traffic, state |-> data.state, typeName |-> TypeToString(c.type)]
  BY DEF DataOK
<1> QED BY <1>3, <1>4, <1>5 DEF ParsedData, ConnectionData

\* What the flags select is written over the old data, and makes them the new ones.
LEMMA UpdatedComesBack ==
    ASSUME NEW s, NEW c, NEW flags \in SUBSET EConnectionUpdateFlags, NEW d, Carries(d, s, c, "UPDATE", flags),
           c.type \in EConnectionType, NEW old, DataOK(old, c.type), NEW state \in States(c.type),
           NEW data, data = s.connectionMap[c], data = CollectedData(old, flags, state)
    PROVE  DataOK(data, c.type) /\ Overwritten(old, d, c.type) = data
<1>1. /\ DOMAIN d = Members("UPDATE", flags) /\ d.updateFlags.value = flags
      /\ "state" \in DOMAIN d => d.state.value = StateToString(data.state, c.type)
      /\ \A n \in TrafficFields : n \in DOMAIN d => d[n].value = data.traffic[n]
  BY DEF Carries
<1>2. /\ "state" \in DOMAIN d <=> "PROTO_STATE" \in flags
      /\ \A n \in TrafficFields : n \in DOMAIN d <=> \E f \in flags : FlagMembers[f] = n
  BY <1>1, MemberNames DEF Selected, EConnectionAction
<1>3. old \in [traffic : [TrafficFields -> Nat], state : Int, typeName : TypeNameSet]
  BY DEF DataOK
<1>4. /\ data.state = (IF "PROTO_STATE" \in flags THEN state ELSE old.state)
      /\ data.traffic = [f \in TrafficFields |->
            IF \E flag \in flags : FlagMembers[flag] = f THEN old.traffic[f] + 1 ELSE old.traffic[f]]
      /\ data = [traffic |-> data.traffic, state |-> data.state, typeName |-> old.typeName]
  BY <1>3 DEF CollectedData
<1>5. States(c.type) \subseteq Int
  BY DEF States, LISTEN, UNKNOWN
<1>6. DataOK(data, c.type)
  <2>1. data.traffic \in [TrafficFields -> Nat]
    BY <1>3, <1>4
  <2>2. data.state \in States(c.type)
    BY <1>4 DEF DataOK
  <2>3. old.typeName = TypeToString(c.type) /\ old.typeName \in TypeNameSet
    BY <1>3 DEF DataOK
  <2> QED BY <1>4, <1>5, <2>1, <2>2, <2>3 DEF DataOK
<1>7. "PROTO_STATE" \in flags => ParsedState(d, c.type) = data.state
  BY <1>1, <1>2, <1>6, StateComesBack DEF DataOK
<1>8. \A f \in TrafficFields : data.traffic[f] =
        IF \E flag \in flags : FlagMembers[flag] = f THEN d[f].value ELSE old.traffic[f]
  BY <1>1, <1>2, <1>4
<1>9. PICK new : new = Overwritten(old, d, c.type)
  OBVIOUS
<1>10. /\ new.state = (IF "PROTO_STATE" \in flags THEN ParsedState(d, c.type) ELSE old.state)
       /\ new.traffic = [f \in TrafficFields |->
            IF \E flag \in flags : FlagMembers[flag] = f THEN d[f].value ELSE old.traffic[f]]
       /\ new = [traffic |-> new.traffic, state |-> new.state, typeName |-> old.typeName]
  BY <1>1, <1>3, <1>9 DEF Overwritten
<1>11. new.state = data.state
  BY <1>4, <1>7, <1>10
<1>12. new.traffic = data.traffic
  <2>1. data.traffic = [f \in TrafficFields |-> data.traffic[f]]
    BY <1>4
  <2> QED BY <1>8, <1>10, <2>1
<1> QED BY <1>4, <1>6, <1>9, <1>10, <1>11, <1>12

-----------------------------------------------------------------------------
(***************************************************************************)
(* A document of another make is rejected, or does the same.               *)
(***************************************************************************)
Harmless(d, d2) ==
    /\ IsDocument(d2)
    /\ Accepted(d2) => \A C : Applied(C, d2) = Applied(C, d)

\* Nothing that a document has is optional.
LEMMA MemberIsNeeded ==
    ASSUME NEW d, Made(d), NEW name \in DOMAIN d, NEW d2,
           \A n \in DOMAIN d \ {name} : n \in DOMAIN d2 => d2[n] = d[n], ~IsMember(d2, name)
    PROVE  ~Parses(d2)
<1> SUFFICES ASSUME Parses(d2) PROVE FALSE
  OBVIOUS
<1>1. /\ d.action.value \in EConnectionAction /\ FlagsOf(d) \in SUBSET EConnectionUpdateFlags
      /\ DOMAIN d = Members(d.action.value, FlagsOf(d))
  BY DEF Made
<1>2. Always \subseteq DOMAIN d /\ ("updateFlags" \in DOMAIN d <=> d.action.value = "UPDATE")
  BY <1>1, MemberNames
<1>3. \A n \in Always : IsMember(d2, n)
  BY DEF Parses
<1>4. name \notin Always
  BY <1>3
<1>5. "action" \in DOMAIN d \ {name} /\ "action" \in DOMAIN d2
  BY <1>2, <1>3, <1>4 DEF Always, IsMember
<1>6. d2.action = d.action
  BY <1>5
<1>7. name # "updateFlags"
  BY <1>2, <1>6 DEF Parses
<1>8. FlagsOf(d2) = FlagsOf(d)
  <2>1. CASE d.action.value = "UPDATE"
    <3>1. IsMember(d2, "updateFlags")
      BY <1>6, <2>1 DEF Parses
    <3>2. "updateFlags" \in DOMAIN d \ {name} /\ "updateFlags" \in DOMAIN d2
      BY <1>2, <1>7, <2>1, <3>1 DEF IsMember
    <3>3. d2.updateFlags = d.updateFlags
      BY <3>2
    <3> QED BY <1>6, <2>1, <3>3 DEF FlagsOf
  <2>2. CASE d.action.value # "UPDATE"
    BY <1>6, <2>2 DEF FlagsOf
  <2> QED BY <2>1, <2>2
<1>9. \A n \in Members(d2.action.value, FlagsOf(d2)) : IsMember(d2, n)
  BY DEF Parses, FlagsOf
<1> QED BY <1>1, <1>6, <1>8, <1>9

WrittenState(x, d, type) == IF "PROTO_STATE" \in d.updateFlags.value THEN ParsedState(d, type) ELSE x.state

WrittenTraffic(x, d) ==
    [f \in TrafficFields |->
        IF \E flag \in d.updateFlags.value : FlagMembers[flag] = f THEN d[f].value ELSE x.traffic[f]]

\* What an UPDATE writes (ConnectionData::Deserialize).
LEMMA OverwrittenIs ==
    ASSUME NEW x, NEW d, NEW type
    PROVE  Overwritten(x, d, type) = [x EXCEPT !.state = WrittenState(x, d, type), !.traffic = WrittenTraffic(x, d)]
BY Zenon DEF Overwritten, WrittenState, WrittenTraffic

\* A port number that does not fit is cut off.
LEMMA CutPortIsHarmless ==
    ASSUME NEW d, Made(d), NEW d2, d2 = [d EXCEPT !.srcPort.value = @ + PortMod]
    PROVE  Harmless(d, d2)
<1>1. PICK v : v = d.srcPort.value
  OBVIOUS
<1>2. v \in 0..PortMod - 1 /\ d = [name \in DOMAIN d |-> d[name]] /\ IsDocument(d)
  BY <1>1 DEF Made
<1>3. v \in Nat /\ PortMod \in Nat
  BY <1>2, PortModAssumption
<1>4. (v + PortMod) % PortMod = v % PortMod
  <2>1. "UDP" \in {"UDP", "TCP"}
    OBVIOUS
  <2> QED BY <1>2, <1>3, <2>1, NewPortType
<1>5. Always \subseteq DOMAIN d
  BY MemberNames DEF Made
<1>6. "srcPort" \in DOMAIN d
  BY <1>5 DEF Always
<1>7. d["srcPort"] = [kind |-> Kinds["srcPort"], value |-> v]
  BY <1>1, <1>6 DEF Made
<1>8. DOMAIN d2 = DOMAIN d /\ d2["srcPort"].value = v + PortMod /\ \A n \in DOMAIN d : n # "srcPort" => d2[n] = d[n]
  BY <1>1, <1>2, <1>6, <1>7
<1>9. IsDocument(d2)
  <2>1. v + PortMod \in Nat
    BY <1>3
  <2>2. "srcAddress" \in DOMAIN d2 => d2["srcAddress"] = d["srcAddress"]
    BY <1>8
  <2>3. "dstAddress" \in DOMAIN d2 => d2["dstAddress"] = d["dstAddress"]
    BY <1>8
  <2>4. "dstPort" \in DOMAIN d2 => d2["dstPort"] = d["dstPort"]
    BY <1>8
  <2> QED BY <1>2, <1>8, <2>1, <2>2, <2>3, <2>4 DEF IsDocument
<1>10. /\ d2.action = d.action /\ d2.type = d.type /\ d2.srcAddress = d.srcAddress
       /\ d2.dstAddress = d.dstAddress /\ d2.dstPort = d.dstPort
  BY <1>5, <1>8 DEF Always
<1>11. DocumentFlow(d2) = DocumentFlow(d)
  BY <1>1, <1>4, <1>8, <1>10 DEF DocumentFlow
<1>12. /\ d.action.value \in EConnectionAction /\ FlagsOf(d) \in SUBSET EConnectionUpdateFlags
       /\ DOMAIN d = Members(d.action.value, FlagsOf(d))
  BY DEF Made
<1>13. \A n \in TrafficFields \cup {"updateFlags", "state"} : n # "srcPort"
  BY DEF TrafficFields
<1>14. ASSUME d.action.value = "CREATE", NEW type PROVE ParsedData(d2, type) = ParsedData(d, type)
  <2>1. "state" \in DOMAIN d /\ \A n \in TrafficFields : n \in DOMAIN d
    BY <1>12, <1>14, MemberNames, FlagNames DEF Selected
  <2>2. d2.state = d.state /\ \A n \in TrafficFields : d2[n] = d[n]
    BY <1>8, <1>13, <2>1
  <2>3. ParsedTraffic(d2) = ParsedTraffic(d)
    BY <2>2 DEF ParsedTraffic
  <2> QED BY <2>2, <2>3 DEF ParsedData, ParsedState
<1>15. ASSUME d.action.value = "UPDATE", NEW x, NEW type PROVE Overwritten(x, d2, type) = Overwritten(x, d, type)
  <2>1. PICK flags : flags = d.updateFlags.value
    OBVIOUS
  <2>2. flags = FlagsOf(d)
    BY <1>15, <2>1 DEF FlagsOf
  <2>3. d2.updateFlags = d.updateFlags
    BY <1>8, <1>12, <1>13, <1>15, MemberNames
  <2>4. "PROTO_STATE" \in flags => d2.state = d.state
    BY <1>8, <1>12, <1>13, <1>15, <2>2, MemberNames DEF Selected
  <2>5. \A n \in TrafficFields : (\E f \in flags : FlagMembers[f] = n) => d2[n] = d[n]
    BY <1>8, <1>12, <1>13, <1>15, <2>2, MemberNames DEF Selected
  <2>6. "PROTO_STATE" \in flags => ParsedState(d2, type) = ParsedState(d, type)
    BY <2>4 DEF ParsedState
  <2>7. flags = d2.updateFlags.value
    BY <2>1, <2>3
  <2>8. WrittenState(x, d2, type) = WrittenState(x, d, type)
    BY <2>1, <2>6, <2>7 DEF WrittenState
  <2>9. WrittenTraffic(x, d2) = WrittenTraffic(x, d)
    BY <2>1, <2>5, <2>7 DEF WrittenTraffic
  <2> QED BY <2>8, <2>9, OverwrittenIs, Zenon
<1>16. ASSUME NEW C PROVE Applied(C, d2) = Applied(C, d)
  <2>1. PICK flow : flow = DocumentFlow(d)
    OBVIOUS
  <2>2. CASE d.action.value = "CREATE"
    BY <1>10, <1>11, <1>14, <2>2 DEF Applied
  <2>3. CASE d.action.value = "UPDATE"
    <3>1. Overwrote(C, flow, d2) = Overwrote(C, flow, d)
      BY <1>15, <2>3 DEF Overwrote
    <3> QED BY <1>10, <1>11, <2>1, <2>3, <3>1 DEF Applied
  <2>4. CASE d.action.value \notin {"CREATE", "UPDATE"}
    BY <1>10, <1>11, <2>4 DEF Applied
  <2> QED BY <2>2, <2>3, <2>4
<1> QED BY <1>9, <1>16 DEF Harmless

\* A document that a server of another make spoiled is rejected, or says the same.
LEMMA SpoiledIsHarmless ==
    ASSUME NEW d, Made(d), NEW d2 \in Spoiled(d)
    PROVE  Harmless(d, d2)
<1>1. /\ IsDocument(d) /\ d = [name \in DOMAIN d |-> d[name]]
      /\ \A name \in DOMAIN d : d[name] = [kind |-> Kinds[name], value |-> d[name].value]
      /\ d.dstAddress.value = [text |-> d.dstAddress.value.text]
      /\ Accepted(d)
  BY DEF Made
<1>2. Always \subseteq DOMAIN d
  BY MemberNames DEF Made
<1>3. ASSUME NEW name \in DOMAIN d, d2 = Without(d, name) PROVE Harmless(d, d2)
  <2>1. DOMAIN d2 = DOMAIN d \ {name} /\ \A n \in DOMAIN d2 : d2[n] = d[n]
    BY <1>3 DEF Without
  <2>2. ~Accepted(d2)
    BY <2>1, MemberIsNeeded DEF IsMember, Accepted
  <2>3. IsDocument(d2)
    BY <1>1, <2>1 DEF IsDocument
  <2> QED BY <2>2, <2>3 DEF Harmless
<1>4. ASSUME NEW name \in DOMAIN d, d2 = [d EXCEPT ![name].kind = "null"] PROVE Harmless(d, d2)
  <2>1. /\ DOMAIN d2 = DOMAIN d /\ d2[name] = [kind |-> "null", value |-> d[name].value]
        /\ \A n \in DOMAIN d : n # name => d2[n] = d[n]
    BY <1>1, <1>4
  <2>2. Kinds[name] # "null"
    <3>1. name \in Always \cup {"updateFlags", "state"} \cup TrafficFields
      BY <1>4, MemberNames DEF Made
    <3> QED BY <3>1 DEF Kinds, Always, TrafficFields
  <2>3. ~Accepted(d2)
    BY <2>1, <2>2, MemberIsNeeded DEF IsMember, Accepted
  <2>4. \A n \in DOMAIN d2 : d2[n].value = d[n].value
    BY <2>1
  <2>5. IsDocument(d2)
    BY <1>1, <2>1, <2>4 DEF IsDocument
  <2> QED BY <2>3, <2>5 DEF Harmless
<1>5. ASSUME d2 = [d EXCEPT !.dstAddress.value.text.type = IF @ = "IP4" THEN "IP6" ELSE "IP4"] PROVE Harmless(d, d2)
  <2>1. PICK a, b : a = d.dstAddress.value.text /\ b = [a EXCEPT !.type = IF @ = "IP4" THEN "IP6" ELSE "IP4"]
    OBVIOUS
  <2>2. "dstAddress" \in DOMAIN d /\ "type" \in DOMAIN d /\ "srcAddress" \in DOMAIN d
    BY <1>2 DEF Always
  <2>3. d["dstAddress"] = [kind |-> Kinds["dstAddress"], value |-> [text |-> a]]
    BY <1>1, <2>1, <2>2
  <2>4. /\ DOMAIN d2 = DOMAIN d /\ d2["dstAddress"] = [kind |-> Kinds["dstAddress"], value |-> [text |-> b]]
        /\ \A n \in DOMAIN d : n # "dstAddress" => d2[n] = d[n]
    BY <1>1, <1>5, <2>1, <2>2, <2>3
  <2>5. a \in Address
    BY <1>1, <2>1, <2>2 DEF IsDocument
  <2>6. b \in Address /\ b.type # a.type
    BY <2>1, <2>5 DEF Address
  <2>7. a.type = AddressType(TypeToEnum(d.type.value))
    BY <1>1, <2>1 DEF Accepted, IsAddressOf
  <2>8. d2.type = d.type /\ d2.dstAddress.value.text = b
    BY <2>2, <2>4
  <2>9. ~Accepted(d2)
    BY <2>6, <2>7, <2>8 DEF Accepted, IsAddressOf
  <2>10. IsDocument(d2)
    BY <1>1, <2>4, <2>6 DEF IsDocument
  <2> QED BY <2>9, <2>10 DEF Harmless
<1>6. ASSUME d2 = [d EXCEPT !.type.value = "sctp4"] PROVE Harmless(d, d2)
  <2>1. "type" \in DOMAIN d
    BY <1>2 DEF Always
  <2>2. d["type"] = [kind |-> Kinds["type"], value |-> d["type"].value]
    BY <1>1, <2>1
  <2>3. DOMAIN d2 = DOMAIN d /\ d2["type"].value = "sctp4" /\ \A n \in DOMAIN d : n # "type" => d2[n] = d[n]
    BY <1>1, <1>6, <2>1, <2>2
  <2>4. ~IsTypeName("sctp4")
    BY DEF IsTypeName, EConnectionType, TypeNames
  <2>5. ~Accepted(d2)
    BY <2>3, <2>4 DEF Accepted, Parses
  <2>6. IsDocument(d2)
    BY <1>1, <2>3 DEF IsDocument
  <2> QED BY <2>5, <2>6 DEF Harmless
<1>7. ASSUME d2 = [d EXCEPT !.action.value = "MOVE"] PROVE Harmless(d, d2)
  <2>1. "action" \in DOMAIN d
    BY <1>2 DEF Always
  <2>2. d["action"] = [kind |-> Kinds["action"], value |-> d["action"].value]
    BY <1>1, <2>1
  <2>3. DOMAIN d2 = DOMAIN d /\ d2["action"].value = "MOVE" /\ \A n \in DOMAIN d : n # "action" => d2[n] = d[n]
    BY <1>1, <1>7, <2>1, <2>2
  <2>4. "MOVE" \notin EConnectionAction
    BY DEF EConnectionAction
  <2>5. ~Accepted(d2)
    BY <2>3, <2>4 DEF Accepted, Parses
  <2>6. IsDocument(d2)
    BY <1>1, <2>3 DEF IsDocument
  <2> QED BY <2>5, <2>6 DEF Harmless
<1> QED BY <1>3, <1>4, <1>5, <1>6, <1>7, CutPortIsHarmless DEF Spoiled

-----------------------------------------------------------------------------
(***************************************************************************)
(* The resolver's requests and results.                                    *)
(***************************************************************************)
AddressAnswers == [hostname : {"", "found"}, country : {"", "found"}, asn : Nat]
PortAnswers == [service : {"", "found"}]

Results ==
    [request : [kind : {"address"}, data : Nat], resolved : AddressAnswers]
    \cup [request : [kind : {"port"}, data : Nat], resolved : PortAnswers]

\* A ResolverEvent carries the request that it answers.
LEMMA ResultsAreOfRequests ==
    ASSUME NEW r \in Seq(Results)
    PROVE  Len(r) \in Nat /\ \A i \in 1..Len(r) : r[i] \in Results /\ r[i].request \in Requests
BY DEF Results, Requests

\* The first request becomes the last result (Resolver).
LEMMA RequestBecomesResult ==
    ASSUME NEW l, NEW r \in Seq(Results), ListOK(l, r), l.requests # <<>>, NEW x \in Results,
           x.request = Head(l.requests), NEW k, k = [l EXCEPT !.requests = Tail(@)], NEW r2, r2 = Append(r, x)
    PROVE  ListOK(k, r2)
<1>1. PICK q, n, m, q2 : q = l.requests /\ n = Len(q) /\ m = Len(r) /\ q2 = Tail(q)
  OBVIOUS
<1>2. q \in Seq(Requests) /\ n \in Nat \ {0} /\ m \in Nat
  BY <1>1 DEF ListOK
<1>3. /\ q2 \in Seq(Requests) /\ Len(q2) = n - 1 /\ \A i \in 1..n - 1 : q2[i] = q[i + 1]
      /\ Head(q) = q[1]
  BY <1>1, <1>2
<1>4. r2 \in Seq(Results) /\ Len(r2) = m + 1 /\ r2[m + 1] = x /\ \A i \in 1..m : r2[i] = r[i]
  BY <1>1, <1>2
<1>5. /\ ListShape(k) /\ k.requests = q2 /\ k.storage = l.storage /\ k.dataTotalCount = l.dataTotalCount
      /\ k.dataResolvedCount = l.dataResolvedCount
  BY <1>1 DEF ListOK, ListShape
<1>6. \A y : Unresolved(k, y) <=> Unresolved(l, y)
  BY <1>5 DEF Unresolved
<1>7. x.request = q[1]
  BY <1>1, <1>3
<1>8. /\ \A i \in 1..n : Unresolved(l, q[i])
      /\ \A i \in 1..m : Unresolved(l, r[i].request)
      /\ \A y \in Requests : Unresolved(l, y) => (\E i \in 1..n : q[i] = y) \/ (\E i \in 1..m : r[i].request = y)
  BY <1>1 DEF ListOK, Waiting
<1>9. /\ \A i, j \in 1..n : q[i] = q[j] => i = j
      /\ \A i, j \in 1..m : r[i].request = r[j].request => i = j
      /\ \A i \in 1..n, j \in 1..m : q[i] # r[j].request
  BY <1>1 DEF ListOK, Once
<1>10. Waiting(k, q2, r2)
  <2>1. ASSUME NEW i \in 1..n - 1 PROVE Unresolved(k, q2[i])
    <3>1. i + 1 \in 1..n
      BY <1>2
    <3> QED BY <1>3, <1>6, <1>8, <3>1
  <2>2. ASSUME NEW i \in 1..m + 1 PROVE Unresolved(k, r2[i].request)
    <3>1. i \in 1..m \/ i = m + 1
      BY <1>2
    <3>2. 1 \in 1..n
      BY <1>2
    <3> QED BY <1>4, <1>6, <1>7, <1>8, <3>1, <3>2
  <2>3. ASSUME NEW y \in Requests, Unresolved(k, y)
        PROVE  (\E i \in 1..n - 1 : q2[i] = y) \/ (\E i \in 1..m + 1 : r2[i].request = y)
    <3>1. CASE \E i \in 1..n : q[i] = y
      <4>1. PICK i \in 1..n : q[i] = y
        BY <3>1
      <4>2. CASE i = 1
        <5>1. m + 1 \in 1..m + 1
          BY <1>2
        <5> QED BY <1>4, <1>7, <4>1, <4>2, <5>1
      <4>3. CASE i # 1
        <5>1. PICK j : j = i - 1
          OBVIOUS
        <5>2. j \in 1..n - 1 /\ j + 1 = i
          BY <1>2, <4>3, <5>1
        <5> QED BY <1>3, <4>1, <5>2
      <4> QED BY <4>2, <4>3
    <3>2. CASE \E i \in 1..m : r[i].request = y
      <4>1. \A i \in 1..m : i \in 1..m + 1
        BY <1>2
      <4> QED BY <1>4, <3>2, <4>1
    <3> QED BY <1>6, <1>8, <2>3, <3>1, <3>2
  <2> QED BY <1>3, <1>4, <2>1, <2>2, <2>3 DEF Waiting
<1>11. Once(q2, r2)
  <2>1. ASSUME NEW i \in 1..n - 1, NEW j \in 1..n - 1, q2[i] = q2[j] PROVE i = j
    <3>1. i + 1 \in 1..n /\ j + 1 \in 1..n /\ q[i + 1] = q[j + 1]
      BY <1>2, <1>3, <2>1
    <3>2. i + 1 = j + 1
      BY <1>9, <3>1
    <3> QED BY <1>2, <3>2
  <2>2. ASSUME NEW i \in 1..m + 1, NEW j \in 1..m + 1, r2[i].request = r2[j].request PROVE i = j
    <3>1. (i \in 1..m \/ i = m + 1) /\ (j \in 1..m \/ j = m + 1) /\ 1 \in 1..n
      BY <1>2
    <3> QED BY <1>4, <1>7, <1>9, <2>2, <3>1
  <2>3. ASSUME NEW i \in 1..n - 1, NEW j \in 1..m + 1 PROVE q2[i] # r2[j].request
    <3>1. i + 1 \in 1..n /\ i + 1 # 1 /\ 1 \in 1..n /\ (j \in 1..m \/ j = m + 1)
      BY <1>2
    <3>2. q2[i] = q[i + 1] /\ q[i + 1] # q[1]
      BY <1>3, <1>9, <3>1
    <3> QED BY <1>4, <1>7, <1>9, <3>1, <3>2
  <2> QED BY <1>3, <1>4, <2>1, <2>2, <2>3 DEF Once
<1>12. Counted(k, r2)
  <2>1. PICK t, u : t = l.dataTotalCount /\ u = l.dataResolvedCount
    OBVIOUS
  <2>2. n + m = t - u /\ u \in Nat /\ t = Len(l.storage.addresses) + Len(l.storage.ports)
    BY <1>1, <2>1 DEF ListOK, Counted
  <2>3. (n - 1) + (m + 1) = t - u
    <3>1. n + m = t - u
      BY <2>2
    <3> QED BY ONLY <1>2, <3>1
  <2> QED BY <1>3, <1>4, <1>5, <2>1, <2>2, <2>3 DEF Counted
<1>13. StorageOK(k.storage)
  BY <1>5 DEF ListOK
<1> QED BY <1>3, <1>5, <1>10, <1>11, <1>12, <1>13 DEF ListOK

\* The first result is taken, and its node is resolved (ConnectionList::onEvent).
LEMMA ResultIsApplied ==
    ASSUME NEW l, NEW r \in Seq(Results), ListOK(l, r), r # <<>>, NEW x, x = Head(r).request,
           NEW k, ListShape(k), StorageOK(k.storage), k.requests = l.requests,
           k.dataTotalCount = l.dataTotalCount, k.dataResolvedCount = l.dataResolvedCount + 1,
           Len(k.storage.addresses) = Len(l.storage.addresses), Len(k.storage.ports) = Len(l.storage.ports),
           \A y \in Requests : Unresolved(k, y) <=> Unresolved(l, y) /\ y # x
    PROVE  ListOK(k, Tail(r))
<1>1. PICK q, n, m, r2 : q = l.requests /\ n = Len(q) /\ m = Len(r) /\ r2 = Tail(r)
  OBVIOUS
<1>2. q \in Seq(Requests) /\ n \in Nat /\ m \in Nat \ {0}
  BY <1>1 DEF ListOK
<1>3. /\ r2 \in Seq(Results) /\ Len(r2) = m - 1 /\ \A i \in 1..m - 1 : r2[i] = r[i + 1]
      /\ x = r[1].request
  BY <1>1, <1>2
<1>4. /\ \A i \in 1..n : Unresolved(l, q[i])
      /\ \A i \in 1..m : Unresolved(l, r[i].request)
      /\ \A y \in Requests : Unresolved(l, y) => (\E i \in 1..n : q[i] = y) \/ (\E i \in 1..m : r[i].request = y)
  BY <1>1 DEF ListOK, Waiting
<1>5. /\ \A i, j \in 1..n : q[i] = q[j] => i = j
      /\ \A i, j \in 1..m : r[i].request = r[j].request => i = j
      /\ \A i \in 1..n, j \in 1..m : q[i] # r[j].request
  BY <1>1 DEF ListOK, Once
<1>6. 1 \in 1..m /\ \A i \in 1..m : r[i].request \in Requests
  BY <1>1, <1>2, ResultsAreOfRequests
<1>7. Waiting(k, q, r2)
  <2>1. ASSUME NEW i \in 1..n PROVE Unresolved(k, q[i])
    <3>1. q[i] \in Requests /\ q[i] # x
      BY <1>1, <1>2, <1>3, <1>5, <1>6
    <3> QED BY <1>4, <3>1
  <2>2. ASSUME NEW i \in 1..m - 1 PROVE Unresolved(k, r2[i].request)
    <3>1. i + 1 \in 1..m /\ i + 1 # 1
      BY <1>2
    <3>2. r2[i] = r[i + 1] /\ r[i + 1].request # x /\ r[i + 1].request \in Requests
      BY <1>3, <1>5, <1>6, <3>1
    <3> QED BY <1>4, <3>1, <3>2
  <2>3. ASSUME NEW y \in Requests, Unresolved(k, y)
        PROVE  (\E i \in 1..n : q[i] = y) \/ (\E i \in 1..m - 1 : r2[i].request = y)
    <3>1. Unresolved(l, y) /\ y # x
      BY <2>3
    <3>2. CASE \E i \in 1..m : r[i].request = y
      <4>1. PICK i \in 1..m : r[i].request = y
        BY <3>2
      <4>2. i # 1
        BY <1>3, <3>1, <4>1
      <4>3. PICK j : j = i - 1
        OBVIOUS
      <4>4. j \in 1..m - 1 /\ j + 1 = i
        BY <1>2, <4>2, <4>3
      <4> QED BY <1>3, <4>1, <4>4
    <3> QED BY <1>4, <3>1, <3>2
  <2> QED BY <1>1, <1>3, <2>1, <2>2, <2>3 DEF Waiting
<1>8. Once(q, r2)
  <2>1. ASSUME NEW i \in 1..m - 1, NEW j \in 1..m - 1, r2[i].request = r2[j].request PROVE i = j
    <3>1. i + 1 \in 1..m /\ j + 1 \in 1..m /\ r[i + 1].request = r[j + 1].request
      BY <1>2, <1>3, <2>1
    <3>2. i + 1 = j + 1
      BY <1>5, <3>1
    <3> QED BY <1>2, <3>2
  <2>2. ASSUME NEW i \in 1..n, NEW j \in 1..m - 1 PROVE q[i] # r2[j].request
    <3>1. j + 1 \in 1..m
      BY <1>2
    <3> QED BY <1>3, <1>5, <3>1
  <2> QED BY <1>1, <1>3, <1>5, <2>1, <2>2 DEF Once
<1>9. Counted(k, r2)
  <2>1. PICK t, u : t = l.dataTotalCount /\ u = l.dataResolvedCount
    OBVIOUS
  <2>2. n + m = t - u /\ u \in Nat /\ t = Len(l.storage.addresses) + Len(l.storage.ports)
    BY <1>1, <2>1 DEF ListOK, Counted
  <2>3. t \in Nat
    <3>1. PICK a, b : a = Len(l.storage.addresses) /\ b = Len(l.storage.ports)
      OBVIOUS
    <3>2. a \in Nat /\ b \in Nat
      BY <3>1 DEF ListOK, StorageOK, PlacesOK, AddressesOK, PortsOK
    <3>3. t = a + b
      BY <2>2, <3>1
    <3> QED BY ONLY <3>2, <3>3
  <2>4. n + (m - 1) = t - (u + 1) /\ u + 1 \in Nat
    <3>1. n + m = t - u /\ u \in Nat
      BY <2>2
    <3> QED BY ONLY <1>2, <2>3, <3>1
  <2> QED BY <1>1, <1>3, <2>1, <2>2, <2>4 DEF Counted
<1> QED BY <1>1, <1>2, <1>7, <1>8, <1>9 DEF ListOK

\* The data behind a pointer p of the storage s are the ones that t has.
AddressReplaced(s, p, t) ==
    /\ StorageOK(t) /\ Contents(t) = Contents(s) /\ Len(t.addresses) = Len(s.addresses)
    /\ \A i \in 1..Len(s.addresses) : i # p => t.addresses[i] = s.addresses[i]
    /\ t.ports = s.ports

PortReplaced(s, p, t) ==
    /\ StorageOK(t) /\ Contents(t) = Contents(s) /\ Len(t.ports) = Len(s.ports)
    /\ \A i \in 1..Len(s.ports) : i # p => t.ports[i] = s.ports[i]
    /\ t.addresses = s.addresses

\* The data behind a pointer are other ones, of the same address.
LEMMA AddressIsResolved ==
    ASSUME NEW s, StorageOK(s), NEW p \in 1..Len(s.addresses), NEW x \in AddressDatas,
           x.address = s.addresses[p].address, x.numericString = s.addresses[p].numericString,
           NEW t, t = [s EXCEPT !.addresses[p] = x]
    PROVE  AddressReplaced(s, p, t) /\ t.addresses[p] = x
<1>1. PICK A, n : A = s.addresses /\ n = Len(A)
  OBVIOUS
<1>2. A \in Seq(AddressDatas) /\ n \in Nat /\ p \in 1..n
  BY <1>1 DEF StorageOK, PlacesOK, AddressesOK
<1>3. /\ Shape(t) /\ t.addresses = [A EXCEPT ![p] = x] /\ t.addressIP4Map = s.addressIP4Map
      /\ t.addressIP6Map = s.addressIP6Map /\ t.portMap = s.portMap /\ t.ports = s.ports
      /\ t.connectionMap = s.connectionMap
  BY <1>1 DEF StorageOK, PlacesOK, Shape
<1>4. PICK B : B = t.addresses
  OBVIOUS
<1>5. B \in Seq(AddressDatas) /\ Len(B) = n /\ B[p] = x /\ \A i \in 1..n : i # p => B[i] = A[i]
  BY <1>1, <1>2, <1>3, <1>4
<1>6. \A i \in 1..n : B[i].address = A[i].address /\ B[i].numericString = A[i].numericString
  BY <1>1, <1>5
<1>7. \A a : getAddress(t, a) = getAddress(s, a)
  BY <1>3 DEF getAddress, getIP4Address, getIP6Address
<1>8. AddressesOK(t)
  <2>1. /\ \A i \in 1..n : A[i].numericString = toString(A[i].address)
        /\ \A i \in 1..n : getAddress(s, A[i].address) = i
        /\ \A a \in Address : getAddress(s, a) # nullptr =>
                getAddress(s, a) \in 1..n /\ A[getAddress(s, a)].address = a
    BY <1>1 DEF StorageOK, PlacesOK, AddressesOK
  <2>2. \A i \in 1..n : B[i].numericString = toString(B[i].address)
    BY <1>6, <2>1
  <2>3. \A i \in 1..n : getAddress(t, B[i].address) = i
    BY <1>6, <1>7, <2>1
  <2>4. \A a \in Address : getAddress(t, a) # nullptr =>
                getAddress(t, a) \in 1..n /\ B[getAddress(t, a)].address = a
    BY <1>6, <1>7, <2>1
  <2> QED BY <1>4, <1>5, <2>2, <2>3, <2>4 DEF AddressesOK
<1>9. PlacesOK(t)
  <2>1. PortsOK(t)
    BY <1>3 DEF StorageOK, PlacesOK, PortsOK, getPort
  <2>2. MapsOK(t)
    BY <1>3 DEF StorageOK, PlacesOK, MapsOK
  <2> QED BY <1>3, <1>8, <2>1, <2>2 DEF PlacesOK
<1>10. ASSUME NEW c, IsConnection(s, c) PROVE IsConnection(t, c) /\ FlowOf(t, c) = FlowOf(s, c)
  <2>1. c.srcAddr \in 1..n /\ c.dstAddr \in 1..n
    BY <1>1, <1>10 DEF IsConnection
  <2>2. B[c.srcAddr].address = A[c.srcAddr].address /\ B[c.dstAddr].address = A[c.dstAddr].address
    BY <1>6, <2>1
  <2>3. IsConnection(t, c)
    BY <1>1, <1>3, <1>4, <1>5, <1>10, <2>2 DEF IsConnection
  <2>4. FlowOf(t, c) = FlowOf(s, c)
    BY <1>1, <1>3, <1>4, <2>2 DEF FlowOf, getSrcAddr, getDstAddr, getSrcPort, getDstPort
  <2> QED BY <2>3, <2>4
<1>11. ConnectionsOK(t)
  BY <1>3, <1>10 DEF StorageOK, ConnectionsOK
<1>12. Contents(t) = Contents(s)
  <2>1. \A c \in DOMAIN s.connectionMap : FlowOf(t, c) = FlowOf(s, c)
    BY <1>10 DEF StorageOK, ConnectionsOK
  <2> QED BY <1>3, <2>1, Zenon DEF Contents
<1> QED BY <1>1, <1>3, <1>4, <1>5, <1>9, <1>11, <1>12 DEF StorageOK, AddressReplaced

\* The data behind a pointer are other ones, of the same port.
LEMMA PortIsResolved ==
    ASSUME NEW s, StorageOK(s), NEW p \in 1..Len(s.ports), NEW x \in PortDatas, x.port = s.ports[p].port,
           NEW t, t = [s EXCEPT !.ports[p] = x]
    PROVE  PortReplaced(s, p, t) /\ t.ports[p] = x
<1>1. PICK A, n : A = s.ports /\ n = Len(A)
  OBVIOUS
<1>2. A \in Seq(PortDatas) /\ n \in Nat /\ p \in 1..n
  BY <1>1 DEF StorageOK, PlacesOK, PortsOK
<1>3. /\ Shape(t) /\ t.ports = [A EXCEPT ![p] = x] /\ t.addressIP4Map = s.addressIP4Map
      /\ t.addressIP6Map = s.addressIP6Map /\ t.portMap = s.portMap /\ t.addresses = s.addresses
      /\ t.connectionMap = s.connectionMap
  BY <1>1 DEF StorageOK, PlacesOK, Shape
<1>4. PICK B : B = t.ports
  OBVIOUS
<1>5. B \in Seq(PortDatas) /\ Len(B) = n /\ B[p] = x /\ \A i \in 1..n : i # p => B[i] = A[i]
  BY <1>1, <1>2, <1>3, <1>4
<1>6. \A i \in 1..n : B[i].port = A[i].port
  BY <1>1, <1>5
<1>7. \A a : getPort(t, a) = getPort(s, a)
  BY <1>3 DEF getPort
<1>8. PortsOK(t)
  <2>1. /\ \A i \in 1..n : getPort(s, A[i].port) = i
        /\ \A a \in Port : getPort(s, a) # nullptr => getPort(s, a) \in 1..n /\ A[getPort(s, a)].port = a
    BY <1>1 DEF StorageOK, PlacesOK, PortsOK
  <2>2. \A i \in 1..n : getPort(t, B[i].port) = i
    BY <1>6, <1>7, <2>1
  <2>3. \A a \in Port : getPort(t, a) # nullptr => getPort(t, a) \in 1..n /\ B[getPort(t, a)].port = a
    BY <1>6, <1>7, <2>1
  <2> QED BY <1>4, <1>5, <2>2, <2>3 DEF PortsOK
<1>9. PlacesOK(t)
  <2>1. AddressesOK(t)
    BY <1>3 DEF StorageOK, PlacesOK, AddressesOK, getAddress, getIP4Address, getIP6Address
  <2>2. MapsOK(t)
    BY <1>3 DEF StorageOK, PlacesOK, MapsOK
  <2> QED BY <1>3, <1>8, <2>1, <2>2 DEF PlacesOK
<1>10. ASSUME NEW c, IsConnection(s, c) PROVE IsConnection(t, c) /\ FlowOf(t, c) = FlowOf(s, c)
  <2>1. c.srcPort \in 1..n /\ c.dstPort \in 1..n
    BY <1>1, <1>10 DEF IsConnection
  <2>2. B[c.srcPort].port = A[c.srcPort].port /\ B[c.dstPort].port = A[c.dstPort].port
    BY <1>6, <2>1
  <2>3. IsConnection(t, c)
    BY <1>1, <1>3, <1>4, <1>5, <1>10, <2>2 DEF IsConnection
  <2>4. FlowOf(t, c) = FlowOf(s, c)
    BY <1>1, <1>3, <1>4, <2>2 DEF FlowOf, getSrcAddr, getDstAddr, getSrcPort, getDstPort
  <2> QED BY <2>3, <2>4
<1>11. ConnectionsOK(t)
  BY <1>3, <1>10 DEF StorageOK, ConnectionsOK
<1>12. Contents(t) = Contents(s)
  <2>1. \A c \in DOMAIN s.connectionMap : FlowOf(t, c) = FlowOf(s, c)
    BY <1>10 DEF StorageOK, ConnectionsOK
  <2> QED BY <1>3, <2>1, Zenon DEF Contents
<1> QED BY <1>1, <1>3, <1>4, <1>5, <1>9, <1>11, <1>12 DEF StorageOK, PortReplaced

\* ConnectionList::ResolverCallbackAddress: the address is resolved and waits no more.
LEMMA AddressCallbackOK ==
    ASSUME NEW l, NEW r \in Seq(Results), ListOK(l, r), r # <<>>, NEW x, x = Head(r), x.request.kind = "address",
           NEW k, k = ResolverCallbackAddress(l, x.request.data, x.resolved)
    PROVE  ListOK(k, Tail(r)) /\ Contents(k.storage) = Contents(l.storage)
<1>1. PICK s, p, a, h : s = l.storage /\ p = x.request.data /\ a = s.addresses[p] /\ h = x.resolved
  OBVIOUS
<1>2. x \in Results /\ x = r[1] /\ 1 \in 1..Len(r)
  OBVIOUS
<1>3. h \in AddressAnswers /\ x.request \in Requests
  BY <1>1, <1>2 DEF Results, Requests
<1>4. Unresolved(l, x.request)
  BY <1>2 DEF ListOK, Waiting
<1>5. p \in 1..Len(s.addresses) /\ ~a.isHostnameResolved
  BY <1>1, <1>4 DEF Unresolved
<1>6. StorageOK(s) /\ a \in AddressDatas /\ ListShape(l)
  BY <1>1, <1>5 DEF ListOK, StorageOK, PlacesOK, AddressesOK
<1>7. PICK b, t : /\ b = setResolvedASN(setResolvedCountry(setResolvedHostname(a, h.hostname), h.country), h.asn)
                  /\ t = [s EXCEPT !.addresses[p] = b]
  OBVIOUS
<1>8. b \in AddressDatas /\ b.address = a.address /\ b.numericString = a.numericString /\ b.isHostnameResolved
  BY <1>3, <1>6, <1>7 DEF AddressDatas, AddressAnswers, setResolvedASN, setResolvedCountry, setResolvedHostname
<1>9. k = [l EXCEPT !.storage = t, !.dataResolvedCount = @ + 1]
  BY <1>1, <1>6, <1>7 DEF ResolverCallbackAddress, ListShape
<1>10. /\ ListShape(k) /\ k.storage = t /\ k.requests = l.requests /\ k.dataTotalCount = l.dataTotalCount
       /\ k.dataResolvedCount = l.dataResolvedCount + 1
  BY <1>6, <1>9 DEF ListShape
<1>11. /\ StorageOK(t) /\ Contents(t) = Contents(s) /\ Len(t.addresses) = Len(s.addresses)
       /\ t.addresses[p] = b /\ \A i \in 1..Len(s.addresses) : i # p => t.addresses[i] = s.addresses[i]
       /\ t.ports = s.ports
  <2>1. b \in AddressDatas /\ b.address = s.addresses[p].address /\ b.numericString = s.addresses[p].numericString
    BY <1>1, <1>8
  <2>2. p \in 1..Len(s.addresses) /\ t = [s EXCEPT !.addresses[p] = b] /\ StorageOK(s)
    BY <1>5, <1>6, <1>7
  <2>3. AddressReplaced(s, p, t) /\ t.addresses[p] = b
    BY ONLY <2>1, <2>2, AddressIsResolved
  <2> QED BY <2>3 DEF AddressReplaced
<1>12. ASSUME NEW y \in Requests PROVE Unresolved(k, y) <=> Unresolved(l, y) /\ y # x.request
  <2>1. CASE y.kind = "port"
    BY <1>1, <1>10, <1>11, <2>1 DEF Unresolved
  <2>2. CASE y.kind = "address" /\ y.data = p
    <3>1. y = x.request
      BY <1>1, <1>3, <2>2 DEF Requests
    <3>2. ~Unresolved(k, y)
      BY <1>8, <1>10, <1>11, <2>2 DEF Unresolved
    <3> QED BY <3>1, <3>2
  <2>3. CASE y.kind = "address" /\ y.data # p
    <3>1. y # x.request
      BY <1>1, <2>3
    <3> QED BY <1>1, <1>10, <1>11, <2>3, <3>1 DEF Unresolved
  <2> QED BY <2>1, <2>2, <2>3 DEF Requests
<1>13. ListOK(k, Tail(r))
  BY <1>1, <1>10, <1>11, <1>12, ResultIsApplied
<1> QED BY <1>1, <1>10, <1>11, <1>13

\* ConnectionList::ResolverCallbackPort: the port is resolved and waits no more.
LEMMA PortCallbackOK ==
    ASSUME NEW l, NEW r \in Seq(Results), ListOK(l, r), r # <<>>, NEW x, x = Head(r), x.request.kind # "address",
           NEW k, k = ResolverCallbackPort(l, x.request.data, x.resolved)
    PROVE  ListOK(k, Tail(r)) /\ Contents(k.storage) = Contents(l.storage)
<1>1. PICK s, p, a, h : s = l.storage /\ p = x.request.data /\ a = s.ports[p] /\ h = x.resolved
  OBVIOUS
<1>2. x \in Results /\ x = r[1] /\ 1 \in 1..Len(r)
  OBVIOUS
<1>3. h \in PortAnswers /\ x.request \in Requests
  BY <1>1, <1>2 DEF Results, Requests
<1>4. Unresolved(l, x.request)
  BY <1>2 DEF ListOK, Waiting
<1>5. p \in 1..Len(s.ports) /\ ~a.isServiceResolved
  BY <1>1, <1>4 DEF Unresolved
<1>6. StorageOK(s) /\ a \in PortDatas /\ ListShape(l)
  BY <1>1, <1>5 DEF ListOK, StorageOK, PlacesOK, PortsOK
<1>7. PICK b, t : b = setResolvedService(a, h.service) /\ t = [s EXCEPT !.ports[p] = b]
  OBVIOUS
<1>8. b \in PortDatas /\ b.port = a.port /\ b.isServiceResolved
  BY <1>3, <1>6, <1>7 DEF PortDatas, PortAnswers, setResolvedService
<1>9. k = [l EXCEPT !.storage = t, !.dataResolvedCount = @ + 1]
  BY <1>1, <1>6, <1>7 DEF ResolverCallbackPort, ListShape
<1>10. /\ ListShape(k) /\ k.storage = t /\ k.requests = l.requests /\ k.dataTotalCount = l.dataTotalCount
       /\ k.dataResolvedCount = l.dataResolvedCount + 1
  BY <1>6, <1>9 DEF ListShape
<1>11. /\ StorageOK(t) /\ Contents(t) = Contents(s) /\ Len(t.ports) = Len(s.ports)
       /\ t.ports[p] = b /\ \A i \in 1..Len(s.ports) : i # p => t.ports[i] = s.ports[i]
       /\ t.addresses = s.addresses
  <2>1. b \in PortDatas /\ b.port = s.ports[p].port
    BY <1>1, <1>8
  <2>2. p \in 1..Len(s.ports) /\ t = [s EXCEPT !.ports[p] = b] /\ StorageOK(s)
    BY <1>5, <1>6, <1>7
  <2>3. PortReplaced(s, p, t) /\ t.ports[p] = b
    BY ONLY <2>1, <2>2, PortIsResolved
  <2> QED BY <2>3 DEF PortReplaced
<1>12. ASSUME NEW y \in Requests PROVE Unresolved(k, y) <=> Unresolved(l, y) /\ y # x.request
  <2>1. CASE y.kind = "address"
    BY <1>1, <1>10, <1>11, <2>1 DEF Unresolved
  <2>2. CASE y.kind = "port" /\ y.data = p
    <3>1. y = x.request
      BY <1>1, <1>3, <2>2 DEF Requests
    <3>2. ~Unresolved(k, y)
      BY <1>8, <1>10, <1>11, <2>2 DEF Unresolved
    <3> QED BY <3>1, <3>2
  <2>3. CASE y.kind = "port" /\ y.data # p
    <3>1. y # x.request
      BY <1>1, <2>3
    <3> QED BY <1>1, <1>10, <1>11, <2>3, <3>1 DEF Unresolved
  <2> QED BY <2>1, <2>2, <2>3 DEF Requests
<1>13. ListOK(k, Tail(r))
  BY <1>1, <1>10, <1>11, <1>12, ResultIsApplied
<1> QED BY <1>1, <1>10, <1>11, <1>13

-----------------------------------------------------------------------------
\* The server's storage and the documents that it writes.

\* The document d says what has become of the storage s.
Documented(s, d, t) == ServerOK(t) /\ Made(d) /\ Contents(t) = Applied(Contents(s), d)

\* ConnectionUpdateSerializer::add.
LEMMA ServerAdds ==
    ASSUME NEW s, ServerOK(s), NEW flow, IsFlow(flow), NEW state \in States(flow.type),
           NEW w, w = WithFlow(s, flow), NEW c, c = ConnectionOf(w, flow), c \notin DOMAIN s.connectionMap,
           NEW t, t = addConnection(w, c, NoTraffic, state), NEW d, d = serialize(t, c, "CREATE", {})
    PROVE  Documented(s, d, t)
<1>1. StorageOK(s) /\ PlacesOK(s)
  BY DEF ServerOK, StorageOK
<1>2. PlacesOK(w) /\ Grown(s, w) /\ Found(w, flow)
  BY <1>1, WithFlowGrows
<1>3. StorageOK(w) /\ Contents(w) = Contents(s)
  BY <1>1, <1>2, StorageGrows
<1>4. IsConnection(w, c) /\ FlowOf(w, c) = flow
  BY <1>2, ConnectionOfFlow
<1>5. c.type = flow.type /\ c.type \in EConnectionType
  <2>1. FlowOf(w, c).type = c.type
    BY DEF FlowOf
  <2> QED BY <1>4, <2>1 DEF IsConnection
<1>6. PICK D : D = ConnectionData(NoTraffic, state, TypeToString(c.type))
  OBVIOUS
<1>7. StorageOK(t) /\ SamePlaces(w, t) /\ Contents(t) = Created(Contents(w), flow, D)
  <2>1. D = ConnectionData(NoTraffic, state, TypeToString(flow.type))
    BY <1>5, <1>6
  <2> QED BY <1>2, <1>3, <2>1, AddConnectionCreates
<1>8. w.connectionMap = s.connectionMap
  BY <1>2 DEF Grown
<1>9. t.connectionMap = Put(w.connectionMap, c, D)
  <2>1. c \notin DOMAIN w.connectionMap
    BY <1>8
  <2>2. t = [w EXCEPT !.connectionMap = Put(w.connectionMap, c, D)]
    BY <1>6, <2>1 DEF addConnection
  <2> QED BY <1>2, <2>2 DEF PlacesOK, Shape
<1>10. /\ DOMAIN t.connectionMap = DOMAIN s.connectionMap \cup {c} /\ t.connectionMap[c] = D
       /\ \A e \in DOMAIN s.connectionMap : t.connectionMap[e] = s.connectionMap[e]
  BY <1>8, <1>9 DEF Put
<1>11. DataOK(D, c.type)
  <2>1. NoTraffic \in [TrafficFields -> Nat]
    BY DEF NoTraffic
  <2>2. state \in Int
    BY DEF States, LISTEN, UNKNOWN
  <2>3. TypeToString(c.type) \in TypeNameSet
    BY <1>5 DEF TypeNameSet
  <2>4. state \in States(c.type)
    BY <1>5
  <2> QED BY <1>6, <2>1, <2>2, <2>3, <2>4 DEF DataOK, ConnectionData
<1>12. ServerOK(t)
  BY <1>7, <1>10, <1>11 DEF ServerOK
<1>13. c \in DOMAIN t.connectionMap /\ "CREATE" \in EConnectionAction /\ {} \in SUBSET EConnectionUpdateFlags
  BY <1>10 DEF EConnectionAction
<1>14. Carries(d, t, c, "CREATE", {})
  BY <1>7, <1>13, SerializeCarries
<1>15. t.connectionMap[c].typeName = TypeToString(c.type)
  BY <1>10, <1>11 DEF DataOK
<1>16. Made(d) /\ DocumentFlow(d) = FlowOf(t, c)
  BY <1>7, <1>13, <1>14, <1>15, CarriesMade
<1>17. DocumentFlow(d) = flow
  BY <1>2, <1>4, <1>7, <1>16, SamePlacesKeep
<1>18. ParsedData(d, c.type) = D
  BY <1>5, <1>10, <1>11, <1>14, CreatedComesBack
<1>19. d.action.value = "CREATE"
  BY <1>14 DEF Carries
<1>20. Applied(Contents(s), d) = Created(Contents(s), flow, D)
  BY <1>5, <1>17, <1>18, <1>19 DEF Applied
<1> QED BY <1>3, <1>7, <1>12, <1>16, <1>20 DEF Documented

\* ConnectionUpdateSerializer::update.
LEMMA ServerUpdates ==
    ASSUME NEW s, ServerOK(s), NEW c \in DOMAIN s.connectionMap, NEW flags \in SUBSET EConnectionUpdateFlags,
           NEW state \in States(c.type), NEW data, data = CollectedData(s.connectionMap[c], flags, state),
           NEW t, t = [s EXCEPT !.connectionMap[c] = data], NEW d, d = serialize(t, c, "UPDATE", flags)
    PROVE  Documented(s, d, t)
<1>1. StorageOK(s) /\ PlacesOK(s) /\ IsConnection(s, c) /\ DataOK(s.connectionMap[c], c.type)
  BY DEF ServerOK, StorageOK, ConnectionsOK
<1>2. PICK flow, old : flow = FlowOf(s, c) /\ old = s.connectionMap[c]
  OBVIOUS
<1>3. IsFlow(flow) /\ Found(s, flow) /\ ConnectionOf(s, flow) = c
  BY <1>1, <1>2, FlowOfConnection
<1>4. c.type = flow.type /\ c.type \in EConnectionType
  <2>1. FlowOf(s, c).type = c.type
    BY DEF FlowOf
  <2> QED BY <1>1, <1>2, <2>1 DEF IsConnection
<1>5. StorageOK(t) /\ SamePlaces(s, t) /\ Contents(t) = Changed(Contents(s), flow, data)
  BY <1>1, <1>3, ConnectionChanges
<1>6. t.connectionMap = [s.connectionMap EXCEPT ![c] = data]
  BY <1>1 DEF PlacesOK, Shape
<1>7. /\ DOMAIN t.connectionMap = DOMAIN s.connectionMap /\ t.connectionMap[c] = data
      /\ \A e \in DOMAIN s.connectionMap : e # c => t.connectionMap[e] = s.connectionMap[e]
  BY <1>6
<1>8. c \in DOMAIN t.connectionMap /\ "UPDATE" \in EConnectionAction
  BY <1>7 DEF EConnectionAction
<1>9. Carries(d, t, c, "UPDATE", flags)
  BY <1>5, <1>8, SerializeCarries
<1>10. DataOK(data, c.type) /\ Overwritten(old, d, c.type) = data
  <2>1. DataOK(old, c.type) /\ data = t.connectionMap[c] /\ data = CollectedData(old, flags, state)
    BY <1>1, <1>2, <1>7
  <2>2. flags \in SUBSET EConnectionUpdateFlags /\ state \in States(c.type) /\ c.type \in EConnectionType
    BY <1>4
  <2> QED BY ONLY <1>9, <2>1, <2>2, UpdatedComesBack
<1>11. ServerOK(t)
  BY <1>5, <1>7, <1>10 DEF ServerOK
<1>12. t.connectionMap[c].typeName = TypeToString(c.type)
  BY <1>7, <1>10 DEF DataOK
<1>13. Made(d) /\ DocumentFlow(d) = FlowOf(t, c)
  BY <1>5, <1>8, <1>9, <1>12, CarriesMade
<1>14. DocumentFlow(d) = flow
  BY <1>1, <1>2, <1>5, <1>13, SamePlacesKeep
<1>15. d.action.value = "UPDATE"
  BY <1>9 DEF Carries
<1>16. Applied(Contents(s), d) = Overwrote(Contents(s), flow, d)
  BY <1>14, <1>15 DEF Applied
<1>17. \A x \in Contents(s) : (IF x.flow = flow THEN Overwritten(x.data, d, flow.type) ELSE x.data)
                                = (IF x.flow = flow THEN data ELSE x.data)
  <2> TAKE x \in Contents(s)
  <2>1. CASE x.flow = flow
    <3>1. x = Entry(flow, s.connectionMap[ConnectionOf(s, flow)])
      BY <1>1, <2>1, EntryOfFlow
    <3>2. x.data = old
      BY <1>2, <1>3, <3>1 DEF Entry
    <3>3. Overwritten(x.data, d, flow.type) = data
      BY <1>4, <1>10, <3>2
    <3> QED BY <2>1, <3>3
  <2>2. CASE x.flow # flow
    BY <2>2
  <2> QED BY <2>1, <2>2
<1>18. Overwrote(Contents(s), flow, d) = Changed(Contents(s), flow, data)
  BY <1>17, Zenon DEF Overwrote, Changed
<1> QED BY <1>5, <1>11, <1>13, <1>16, <1>18 DEF Documented

\* ConnectionUpdateSerializer::remove.
LEMMA ServerRemoves ==
    ASSUME NEW s, ServerOK(s), NEW c \in DOMAIN s.connectionMap, NEW t, t = removeConnection(s, c),
           NEW d, d = serialize(s, c, "REMOVE", {})
    PROVE  Documented(s, d, t)
<1>1. StorageOK(s) /\ PlacesOK(s) /\ IsConnection(s, c) /\ DataOK(s.connectionMap[c], c.type)
  BY DEF ServerOK, StorageOK, ConnectionsOK
<1>2. PICK flow : flow = FlowOf(s, c)
  OBVIOUS
<1>3. IsFlow(flow) /\ Found(s, flow) /\ ConnectionOf(s, flow) = c
  BY <1>1, <1>2, FlowOfConnection
<1>4. StorageOK(t) /\ SamePlaces(s, t) /\ Contents(t) = Removed(Contents(s), flow)
  BY <1>1, <1>3, RemoveConnectionRemoves
<1>5. t.connectionMap = Without(s.connectionMap, c)
  BY <1>1 DEF PlacesOK, Shape, removeConnection
<1>6. /\ DOMAIN t.connectionMap \subseteq DOMAIN s.connectionMap
      /\ \A e \in DOMAIN t.connectionMap : t.connectionMap[e] = s.connectionMap[e]
  BY <1>5 DEF Without
<1>7. ServerOK(t)
  BY <1>4, <1>6 DEF ServerOK
<1>8. "REMOVE" \in EConnectionAction /\ "REMOVE" # "UPDATE" /\ {} \in SUBSET EConnectionUpdateFlags
  BY DEF EConnectionAction
<1>9. Carries(d, s, c, "REMOVE", {})
  BY <1>1, <1>8, SerializeCarries
<1>10. s.connectionMap[c].typeName = TypeToString(c.type)
  BY <1>1 DEF DataOK
<1>11. Made(d) /\ DocumentFlow(d) = flow
  BY <1>1, <1>2, <1>8, <1>9, <1>10, CarriesMade
<1>12. d.action.value = "REMOVE"
  BY <1>9 DEF Carries
<1>13. Applied(Contents(s), d) = Removed(Contents(s), flow)
  BY <1>11, <1>12 DEF Applied
<1> QED BY <1>4, <1>7, <1>11, <1>13 DEF Documented

\* The documents of a whole storage make it again, in whatever order they come
\* (ConnectionAllDataSerializer).
LEMMA AllLead ==
    ASSUME NEW s, ServerOK(s), NEW order \in SetToSeqs(DOMAIN s.connectionMap),
           NEW q, q = [i \in DOMAIN order |-> serialize(s, order[i], "CREATE", {})]
    PROVE  IsSeq(q) /\ (\A i \in 1..Len(q) : Made(q[i])) /\ Leads({}, q, Contents(s))
<1>1. PICK S, N : S = DOMAIN s.connectionMap /\ N = Cardinality(S)
  OBVIOUS
<1>2. StorageOK(s) /\ PlacesOK(s) /\ IsFiniteSet(S) /\ \A c \in S : IsConnection(s, c) /\ DataOK(s.connectionMap[c], c.type)
  BY <1>1 DEF ServerOK, StorageOK, ConnectionsOK
<1>3. N \in Nat
  BY <1>1, <1>2, FS_CardinalityType
<1>4. order \in [1..N -> S] /\ \A i, j \in 1..N : i # j => order[i] # order[j]
  BY <1>1 DEF SetToSeqs
<1>5. order \in Surjection(1..N, S)
  <2>1. order \in Injection(1..N, S)
    BY <1>4 DEF Injection, IsInjective
  <2>2. Cardinality(1..N) = N
    <3>1. Cardinality(1..N) = IF 1 > N THEN 0 ELSE N - 1 + 1
      BY <1>3, FS_Interval
    <3> QED BY <1>3, <3>1
  <2> QED BY <1>1, <1>2, <2>1, <2>2, FS_Injection
<1>6. \A c \in S : \E i \in 1..N : order[i] = c
  BY <1>5 DEF Surjection
<1>7. /\ DOMAIN q = 1..N /\ q = [i \in 1..N |-> q[i]]
      /\ \A i \in 1..N : q[i] = serialize(s, order[i], "CREATE", {})
  BY <1>4
<1>8. IsSeq(q) /\ Len(q) = N
  BY <1>3, <1>7, SeqOfFunction
<1>9. ASSUME NEW i \in 1..N
      PROVE  /\ Made(q[i])
             /\ \A C : Applied(C, q[i]) = Created(C, FlowOf(s, order[i]), s.connectionMap[order[i]])
  <2>1. PICK c, d, data : c = order[i] /\ d = q[i] /\ data = s.connectionMap[c]
    OBVIOUS
  <2>2. c \in DOMAIN s.connectionMap /\ d = serialize(s, c, "CREATE", {})
    BY <1>1, <1>4, <1>7, <2>1
  <2>3. IsConnection(s, c) /\ DataOK(data, c.type)
    BY <1>1, <1>2, <2>1, <2>2
  <2>4. "CREATE" \in EConnectionAction /\ {} \in SUBSET EConnectionUpdateFlags
    BY DEF EConnectionAction
  <2>5. Carries(d, s, c, "CREATE", {})
    BY <1>2, <2>2, <2>4, SerializeCarries
  <2>6. s.connectionMap[c].typeName = TypeToString(c.type) /\ c.type \in EConnectionType
    BY <2>1, <2>3 DEF DataOK, IsConnection
  <2>7. Made(d) /\ DocumentFlow(d) = FlowOf(s, c)
    BY <1>2, <2>2, <2>4, <2>5, <2>6, CarriesMade
  <2>8. ParsedData(d, c.type) = data
    BY <2>1, <2>3, <2>5, <2>6, CreatedComesBack
  <2>9. d.action.value = "CREATE" /\ FlowOf(s, c).type = c.type
    BY <2>5 DEF Carries, FlowOf
  <2>10. ASSUME NEW C PROVE Applied(C, d) = Created(C, FlowOf(s, c), data)
    BY <2>7, <2>8, <2>9 DEF Applied
  <2> QED BY <2>1, <2>7, <2>10
<1>10. PICK e : e = [i \in 1..N |-> Entry(FlowOf(s, order[i]), s.connectionMap[order[i]])]
  OBVIOUS
<1>11. PICK f : f = [n \in 0..N |-> {e[i] : i \in 1..n}]
  OBVIOUS
<1>12. ASSUME NEW n \in 0..N PROVE f[n] = IF n = 0 THEN {} ELSE Applied(f[n - 1], q[n])
  <2>1. CASE n = 0
    <3>1. f[0] = {e[i] : i \in 1..0}
      BY <1>3, <1>11
    <3>2. 1..0 = {}
      OBVIOUS
    <3> QED BY <2>1, <3>1, <3>2
  <2>2. CASE n # 0
    <3>1. n \in 1..N /\ n - 1 \in 0..N /\ 1..n = 1..(n - 1) \cup {n} /\ \A i \in 1..(n - 1) : i \in 1..N /\ i # n
      BY <1>3, <2>2
    <3>2. f[n] = {e[i] : i \in 1..n} /\ f[n - 1] = {e[i] : i \in 1..(n - 1)}
      BY <1>11, <3>1
    <3>3. f[n] = f[n - 1] \cup {e[n]}
      BY <3>1, <3>2
    <3>4. \A x \in f[n - 1] : x.flow # FlowOf(s, order[n])
      <4>1. SUFFICES ASSUME NEW i \in 1..(n - 1) PROVE e[i].flow # FlowOf(s, order[n])
        BY <3>2
      <4>2. i \in 1..N /\ i # n
        BY <3>1
      <4>3. order[i] # order[n] /\ order[i] \in S /\ order[n] \in S
        BY <1>4, <3>1, <4>2
      <4>4. IsConnection(s, order[i]) /\ IsConnection(s, order[n])
        BY <1>2, <4>3
      <4>5. FlowOf(s, order[i]) # FlowOf(s, order[n])
        BY <1>2, <4>3, <4>4, FlowsDiffer
      <4>6. e[i].flow = FlowOf(s, order[i])
        BY <1>10, <4>2 DEF Entry
      <4> QED BY <4>5, <4>6
    <3>5. e[n] = Entry(FlowOf(s, order[n]), s.connectionMap[order[n]])
      BY <1>10, <3>1
    <3>6. Applied(f[n - 1], q[n]) = Created(f[n - 1], FlowOf(s, order[n]), s.connectionMap[order[n]])
      BY <1>9, <3>1
    <3>7. Applied(f[n - 1], q[n]) = f[n - 1] \cup {e[n]}
      BY <3>4, <3>5, <3>6 DEF Created
    <3> QED BY <2>2, <3>3, <3>7
  <2> QED BY <2>1, <2>2
<1>13. IsReplay(f, {}, q)
  <2>1. f = [n \in 0..N |-> f[n]]
    BY <1>11
  <2>2. [n \in 0..N |-> f[n]] = [n \in 0..N |-> IF n = 0 THEN {} ELSE Applied(f[n - 1], q[n])]
    BY ONLY <1>12
  <2> QED BY <1>8, <2>1, <2>2 DEF IsReplay
<1>14. f[N] = Contents(s)
  <2>1. f[N] = {e[i] : i \in 1..N}
    BY <1>3, <1>11
  <2>2. \A i \in 1..N : e[i] \in Contents(s)
    BY <1>1, <1>4, <1>10 DEF Contents, Entry
  <2>3. ASSUME NEW x \in Contents(s) PROVE \E i \in 1..N : x = e[i]
    <3>1. PICK c \in S : x = Entry(FlowOf(s, c), s.connectionMap[c])
      BY <1>1 DEF Contents, Entry
    <3>2. PICK i \in 1..N : order[i] = c
      BY <1>6
    <3>3. x = e[i]
      BY <1>10, <3>1, <3>2
    <3> QED BY <3>3
  <2> QED BY <2>1, <2>2, <2>3
<1>15. Leads({}, q, Contents(s))
  BY <1>8, <1>13, <1>14 DEF Leads
<1> QED BY <1>8, <1>9, <1>15

-----------------------------------------------------------------------------
(***************************************************************************)
(* The inductive invariant.                                                *)
(***************************************************************************)

\* The difference that has not been sent.
DocumentsOK(q) == IsSeq(q) /\ \A i \in 1..Len(q) : Made(q[i])

\* A message: what comes off the wire may be spoiled, but has values of the kinds
\* that the reader found.
IsMessage(m) ==
    /\ m = [isUpdate |-> m.isUpdate, data |-> m.data] /\ m.isUpdate \in BOOLEAN
    /\ IsSeq(m.data) /\ \A i \in 1..Len(m.data) : IsDocument(m.data[i])

WireOK(w) == w = <<>> \/ \E m : w = <<m>> /\ IsMessage(m)

\* The client will reject the message in transit.
Rejected(w) == w # <<>> /\ \E i \in 1..Len(w[1].data) : ~Accepted(w[1].data[i])

\* The connections C that the client has after the message in transit, which
\* starts from B.
Arrives(B, w, C) ==
    IF w = <<>> THEN C = B ELSE Leads(IF w[1].isUpdate THEN B ELSE {}, w[1].data, C)

\* What the client has, what is on its way and what the server has still to send
\* make up the server's connections D, unless the client will ask for all again.
Mirrors(B, w, q, D) == Rejected(w) \/ \E C : Arrives(B, w, C) /\ Leads(C, q, D)

SessionOK == session \in {"open", "failed"} /\ (session = "failed" => wire = <<>>)

IInv ==
    /\ ServerOK(server)
    /\ DocumentsOK(documents)
    /\ WireOK(wire)
    /\ results \in Seq(Results)
    /\ ListOK(list, results)
    /\ SessionOK
    /\ session = "open" => Mirrors(Contents(list.storage), wire, documents, Contents(server))

\* No document leads to what was there.
LEMMA NothingIsReplayed ==
    ASSUME NEW C, NEW D, Leads(C, <<>>, D)
    PROVE  C = D
<1>1. PICK f : IsReplay(f, C, <<>>) /\ f[Len(<<>>)] = D
  BY DEF Leads
<1>2. Len(<<>>) = 0
  OBVIOUS
<1>3. f = [n \in 0..0 |-> IF n = 0 THEN C ELSE Applied(f[n - 1], <<>>[n])]
  BY <1>1, <1>2 DEF IsReplay
<1>4. f[0] = C
  BY <1>3
<1> QED BY <1>1, <1>2, <1>4

\* There is no difference after it was sent.
LEMMA EmptyDocuments ==
    DocumentsOK(<<>>)
<1>1. <<>> \in Seq({}) /\ Len(<<>>) = 0
  OBVIOUS
<1> QED BY <1>1 DEF DocumentsOK, IsSeq

\* The empty storage.
LEMMA EmptyStorageOK ==
    StorageOK(EmptyStorage) /\ ServerOK(EmptyStorage) /\ Contents(EmptyStorage) = {}
<1>1. PICK s : s = EmptyStorage
  OBVIOUS
<1>2. /\ s.addressIP4Map = <<>> /\ s.addressIP6Map = <<>> /\ s.portMap = <<>> /\ s.connectionMap = <<>>
      /\ s.addresses = <<>> /\ s.ports = <<>> /\ Shape(s)
  BY <1>1 DEF EmptyStorage, Shape
<1>3. DOMAIN <<>> = {} /\ Len(<<>>) = 0 /\ <<>> \in Seq(AddressDatas) /\ <<>> \in Seq(PortDatas)
  OBVIOUS
<1>4. MapsOK(s)
  BY <1>2, <1>3 DEF MapsOK
<1>5. \A a : getAddress(s, a) = nullptr /\ getPort(s, a) = nullptr
  BY <1>2, <1>3 DEF getAddress, getIP4Address, getIP6Address, getPort, Find
<1>6. AddressesOK(s) /\ PortsOK(s)
  BY <1>2, <1>3, <1>5 DEF AddressesOK, PortsOK
<1>7. ConnectionsOK(s)
  BY <1>2, <1>3, FS_EmptySet DEF ConnectionsOK
<1>8. Contents(s) = {}
  BY <1>2, <1>3 DEF Contents
<1>9. StorageOK(s)
  BY <1>2, <1>4, <1>6, <1>7 DEF StorageOK, PlacesOK
<1>10. ServerOK(s)
  BY <1>2, <1>3, <1>9 DEF ServerOK
<1> QED BY <1>1, <1>8, <1>9, <1>10

\* The invariant holds when both ends start.
LEMMA InitIInv ==
    Init => IInv
<1> SUFFICES ASSUME Init PROVE IInv
  OBVIOUS
<1>1. /\ server = EmptyStorage /\ documents = <<>> /\ wire = <<>> /\ session = "open"
      /\ list = EmptyList /\ results = <<>>
  BY DEF Init
<1>2. /\ ListShape(list) /\ list.storage = EmptyStorage /\ list.requests = <<>>
      /\ list.dataTotalCount = 0 /\ list.dataResolvedCount = 0
  BY <1>1 DEF EmptyList, ListShape
<1>3. Len(<<>>) = 0 /\ <<>> \in Seq(Requests) /\ <<>> \in Seq(Results)
  OBVIOUS
<1>4. EmptyStorage.addresses = <<>> /\ EmptyStorage.ports = <<>>
  BY DEF EmptyStorage
<1>5. \A x : ~Unresolved(list, x)
  BY <1>2, <1>3, <1>4 DEF Unresolved
<1>6. Waiting(list, list.requests, results)
  BY <1>1, <1>2, <1>3, <1>5 DEF Waiting
<1>7. Once(list.requests, results)
  BY <1>1, <1>2, <1>3 DEF Once
<1>8. Counted(list, results)
  BY <1>1, <1>2, <1>3, <1>4 DEF Counted
<1>9. ListOK(list, results)
  BY <1>2, <1>3, <1>6, <1>7, <1>8, EmptyStorageOK DEF ListOK
<1>10. Leads({}, <<>>, {})
  BY LeadsNowhere
<1>11. Mirrors(Contents(list.storage), wire, documents, Contents(server))
  BY <1>1, <1>2, <1>10, EmptyStorageOK DEF Mirrors, Arrives
<1> QED BY <1>1, <1>3, <1>9, <1>11, EmptyDocuments, EmptyStorageOK DEF IInv, WireOK, SessionOK

\* A step of the collector: the next document joins the difference.
LEMMA DocumentJoins ==
    ASSUME IInv, NEW d, NEW s, s = server', Documented(server, d, s), documents' = Append(documents, d),
           UNCHANGED <<wire, list, results, session>>
    PROVE  IInv'
<1>1. PICK q, r, D, E, B : /\ q = documents /\ r = documents' /\ D = Contents(server) /\ E = Contents(s)
                           /\ B = Contents(list.storage)
  OBVIOUS
<1>2. r = Append(q, d) /\ DocumentsOK(q) /\ Made(d) /\ E = Applied(D, d)
  BY <1>1 DEF IInv, Documented
<1>3. /\ IsSeq(r) /\ Len(q) \in Nat /\ Len(r) = Len(q) + 1 /\ r[Len(q) + 1] = d
      /\ \A i \in 1..Len(q) : r[i] = q[i]
  <2>1. IsSeq(q) /\ r = Append(q, d)
    BY <1>2 DEF DocumentsOK
  <2>2. IsSeq(r)
    BY ONLY <2>1, SeqAppends
  <2>3. Len(q) \in Nat /\ Len(r) = Len(q) + 1 /\ r[Len(q) + 1] = d /\ \A i \in 1..Len(q) : r[i] = q[i]
    BY ONLY <2>1, SeqAppends
  <2> QED BY <2>2, <2>3
<1>4. DocumentsOK(r)
  BY <1>2, <1>3 DEF DocumentsOK
<1>5. \A C : Leads(C, q, D) => Leads(C, r, E)
  BY <1>2, LeadsOn DEF DocumentsOK
<1>6. Mirrors(B, wire, q, D) => Mirrors(B, wire, r, E)
  BY <1>5 DEF Mirrors
<1>7. ServerOK(server')
  BY DEF Documented
<1>8. WireOK(wire)' /\ (results \in Seq(Results))' /\ ListOK(list, results)' /\ SessionOK'
  BY DEF IInv, SessionOK
<1>9. (session = "open" => Mirrors(Contents(list.storage), wire, documents, Contents(server)))'
  BY <1>1, <1>6 DEF IInv
<1> QED BY <1>1, <1>4, <1>7, <1>8, <1>9 DEF IInv

\* ConnectionUpdateSerializer::add keeps the invariant.
LEMMA AddKeeps ==
    ASSUME IInv, NEW flow \in Flows, NEW state \in States(flow.type), add(flow, state)
    PROVE  IInv'
<1>1. PICK s, w, c, t, d : /\ s = server /\ w = WithFlow(s, flow) /\ c = ConnectionOf(w, flow)
                           /\ t = addConnection(w, c, NoTraffic, state) /\ d = serialize(t, c, "CREATE", {})
  OBVIOUS
<1>2. c \notin DOMAIN s.connectionMap /\ server' = t /\ documents' = Append(documents, d)
  BY <1>1 DEF add
<1>3. IsFlow(flow) /\ ServerOK(s)
  BY <1>1, TransferAssumption DEF IInv
<1>4. Documented(s, d, t)
  BY <1>1, <1>2, <1>3, ServerAdds
<1>5. UNCHANGED <<wire, list, results, session>>
  BY DEF add, Change
<1> QED BY <1>1, <1>2, <1>4, <1>5, DocumentJoins

\* ConnectionUpdateSerializer::update keeps the invariant.
LEMMA UpdateKeeps ==
    ASSUME IInv, NEW c \in DOMAIN server.connectionMap, NEW flags \in UpdateFlags, NEW state \in States(c.type),
           update(c, flags, state)
    PROVE  IInv'
<1>1. PICK s, data, t, d : /\ s = server /\ data = CollectedData(s.connectionMap[c], flags, state)
                           /\ t = [s EXCEPT !.connectionMap[c] = data] /\ d = serialize(t, c, "UPDATE", flags)
  OBVIOUS
<1>2. ServerOK(s) /\ Shape(s) /\ c \in DOMAIN s.connectionMap
  BY <1>1 DEF IInv, ServerOK, StorageOK, PlacesOK
<1>3. [server EXCEPT !.connectionMap[c] = CollectedData(@, flags, state)] = t
  BY <1>1
<1>4. server' = t /\ documents' = Append(documents, d)
  BY <1>1, <1>3 DEF update
<1>5. flags \in SUBSET EConnectionUpdateFlags
  BY TransferAssumption
<1>6. Documented(s, d, t)
  BY <1>1, <1>2, <1>5, ServerUpdates
<1>7. UNCHANGED <<wire, list, results, session>>
  BY DEF update, Change
<1> QED BY <1>1, <1>4, <1>6, <1>7, DocumentJoins

\* ConnectionUpdateSerializer::remove keeps the invariant.
LEMMA RemoveKeeps ==
    ASSUME IInv, NEW c \in DOMAIN server.connectionMap, remove(c)
    PROVE  IInv'
<1>1. PICK s, t, d : s = server /\ t = removeConnection(s, c) /\ d = serialize(s, c, "REMOVE", {})
  OBVIOUS
<1>2. server' = t /\ documents' = Append(documents, d)
  BY <1>1 DEF remove
<1>3. ServerOK(s) /\ c \in DOMAIN s.connectionMap
  BY <1>1 DEF IInv
<1>4. Documented(s, d, t)
  BY <1>1, <1>3, ServerRemoves
<1>5. UNCHANGED <<wire, list, results, session>>
  BY DEF remove, Change
<1> QED BY <1>1, <1>2, <1>4, <1>5, DocumentJoins

-----------------------------------------------------------------------------
\* A message leaves the server.
LEMMA MessageLeaves ==
    ASSUME IInv, NEW u \in BOOLEAN, NEW q, IsSeq(q), \A i \in 1..Len(q) : IsDocument(q[i]),
           wire' = <<[isUpdate |-> u, data |-> q]>>, documents' = <<>>, session' = "open",
           UNCHANGED <<server, list, results>>,
           \/ \E i \in 1..Len(q) : ~Accepted(q[i])
           \/ Leads(IF u THEN Contents(list.storage) ELSE {}, q, Contents(server))
    PROVE  IInv'
<1>1. PICK w, m, B, D : w = wire' /\ m = [isUpdate |-> u, data |-> q] /\ B = Contents(list.storage) /\ D = Contents(server)
  OBVIOUS
<1>2. w = <<m>> /\ w # <<>> /\ w[1] = m /\ m.isUpdate = u /\ m.data = q
  BY <1>1
<1>3. WireOK(w)
  BY <1>1, <1>2 DEF WireOK, IsMessage
<1>4. Mirrors(B, w, <<>>, D)
  <2>1. CASE \E i \in 1..Len(q) : ~Accepted(q[i])
    BY <1>2, <2>1 DEF Mirrors, Rejected
  <2>2. CASE Leads(IF u THEN B ELSE {}, q, D)
    <3>1. Arrives(B, w, D)
      BY <1>2, <2>2 DEF Arrives
    <3>2. Leads(D, <<>>, D)
      BY LeadsNowhere
    <3> QED BY <3>1, <3>2 DEF Mirrors
  <2> QED BY <1>1, <2>1, <2>2
<1>5. DocumentsOK(documents)'
  BY EmptyDocuments
<1>6. ServerOK(server)' /\ (results \in Seq(Results))' /\ ListOK(list, results)'
  BY DEF IInv
<1>7. SessionOK'
  BY DEF SessionOK
<1>8. Mirrors(Contents(list.storage), wire, documents, Contents(server))'
  BY <1>1, <1>4
<1>9. WireOK(wire)'
  BY <1>1, <1>3
<1> QED BY <1>5, <1>6, <1>7, <1>8, <1>9 DEF IInv

\* The difference goes to the client (ConnectionUpdateSerializer).
LEMMA SendUpdateKeeps ==
    ASSUME IInv, SendUpdate
    PROVE  IInv'
<1>1. /\ wire = <<>> /\ session = "open" /\ wire' = <<[isUpdate |-> TRUE, data |-> documents]>>
      /\ documents' = <<>> /\ session' = "open" /\ UNCHANGED <<server, list, results>>
  BY DEF SendUpdate, Send
<1>2. IsSeq(documents) /\ \A i \in 1..Len(documents) : IsDocument(documents[i])
  BY DEF IInv, DocumentsOK, Made
<1>3. Leads(Contents(list.storage), documents, Contents(server))
  BY <1>1 DEF IInv, Mirrors, Rejected, Arrives
<1> QED BY <1>1, <1>2, <1>3, MessageLeaves

\* All connections: after a reconnection, or for a client that asked for them.
LEMMA AllLeave ==
    ASSUME IInv, NEW order \in SetToSeqs(DOMAIN server.connectionMap),
           wire' = <<[isUpdate |-> FALSE, data |-> [i \in DOMAIN order |-> serialize(server, order[i], "CREATE", {})]]>>,
           documents' = <<>>, session' = "open", UNCHANGED <<server, list, results>>
    PROVE  IInv'
<1>1. PICK s, q : s = server /\ q = [i \in DOMAIN order |-> serialize(s, order[i], "CREATE", {})]
  OBVIOUS
<1>2. ServerOK(s) /\ order \in SetToSeqs(DOMAIN s.connectionMap)
  BY <1>1 DEF IInv
<1>3. IsSeq(q) /\ (\A i \in 1..Len(q) : Made(q[i])) /\ Leads({}, q, Contents(s))
  BY ONLY <1>1, <1>2, AllLead
<1>4. \A i \in 1..Len(q) : IsDocument(q[i])
  BY <1>3 DEF Made
<1>5. wire' = <<[isUpdate |-> FALSE, data |-> q]>>
  BY <1>1
<1>6. Leads(IF FALSE THEN Contents(list.storage) ELSE {}, q, Contents(server))
  BY <1>1, <1>3
<1> QED BY <1>3, <1>4, <1>5, <1>6, MessageLeaves

\* All connections go to the client (ConnectionStorageSerializer).
LEMMA SendAllKeeps ==
    ASSUME IInv, SendAll
    PROVE  IInv'
<1>1. PICK order \in SetToSeqs(DOMAIN server.connectionMap) :
            Send(FALSE, [i \in DOMAIN order |-> serialize(server, order[i], "CREATE", {})])
  BY DEF SendAll
<1>2. /\ wire' = <<[isUpdate |-> FALSE, data |-> [i \in DOMAIN order |-> serialize(server, order[i], "CREATE", {})]]>>
      /\ documents' = <<>> /\ session' = "open" /\ UNCHANGED <<server, list, results>>
  BY <1>1 DEF Send
<1> QED BY <1>2, AllLeave

\* The client connects again and asks for all connections (Client::onSessionEstablished).
LEMMA ReconnectKeeps ==
    ASSUME IInv, Reconnect
    PROVE  IInv'
<1>1. PICK order \in SetToSeqs(DOMAIN server.connectionMap) :
        wire' = <<[isUpdate |-> FALSE, data |-> [i \in DOMAIN order |-> serialize(server, order[i], "CREATE", {})]]>>
  BY DEF Reconnect
<1>2. documents' = <<>> /\ session' = "open" /\ UNCHANGED <<server, list, results>>
  BY DEF Reconnect
<1> QED BY <1>1, <1>2, AllLeave

\* One document of a difference is another one.
LEMMA ForeignLeads ==
    ASSUME NEW q, DocumentsOK(q), NEW i \in DOMAIN q, NEW x, Harmless(q[i], x), NEW r, r = [q EXCEPT ![i] = x],
           NEW C, NEW D, Leads(C, q, D)
    PROVE  /\ IsSeq(r) /\ \A j \in 1..Len(r) : IsDocument(r[j])
           /\ (\E j \in 1..Len(r) : ~Accepted(r[j])) \/ Leads(C, r, D)
<1>1. PICK n : n = Len(q)
  OBVIOUS
<1>2. n \in Nat /\ DOMAIN q = 1..n
  BY <1>1 DEF DocumentsOK, IsSeq
<1>3. DOMAIN r = 1..n /\ r = [j \in 1..n |-> r[j]] /\ r[i] = x /\ \A j \in 1..n : j # i => r[j] = q[j]
  BY <1>2
<1>4. IsSeq(r) /\ Len(r) = n
  BY <1>2, <1>3, SeqOfFunction
<1>5. \A j \in 1..n : IsDocument(r[j])
  BY <1>1, <1>3 DEF DocumentsOK, Made, Harmless
<1>6. ASSUME Accepted(x) PROVE Leads(C, r, D)
  <2>1. PICK f : IsReplay(f, C, q) /\ f[n] = D
    BY <1>1 DEF Leads
  <2>2. \A m \in 0..n : f[m] = IF m = 0 THEN C ELSE Applied(f[m - 1], q[m])
    BY <1>1, <2>1 DEF IsReplay
  <2>3. ASSUME NEW m \in 0..n PROVE f[m] = IF m = 0 THEN C ELSE Applied(f[m - 1], r[m])
    <3>1. CASE m = 0
      BY <2>2, <3>1
    <3>2. CASE m # 0 /\ m # i
      <4>1. m \in 1..n
        BY <1>2, <3>2
      <4> QED BY <1>3, <2>2, <3>2, <4>1
    <3>3. CASE m # 0 /\ m = i
      <4>1. Applied(f[m - 1], q[m]) = Applied(f[m - 1], r[m])
        BY <1>3, <1>6, <3>3 DEF Harmless
      <4> QED BY <2>2, <3>3, <4>1
    <3> QED BY <3>1, <3>2, <3>3
  <2>4. IsReplay(f, C, r)
    <3>1. f = [m \in 0..n |-> f[m]]
      BY <1>1, <2>1 DEF IsReplay
    <3>2. [m \in 0..n |-> f[m]] = [m \in 0..n |-> IF m = 0 THEN C ELSE Applied(f[m - 1], r[m])]
      BY ONLY <2>3
    <3> QED BY <1>4, <3>1, <3>2 DEF IsReplay
  <2> QED BY <1>4, <2>1, <2>4 DEF Leads
<1>7. ASSUME ~Accepted(x) PROVE \E j \in 1..Len(r) : ~Accepted(r[j])
  BY <1>2, <1>3, <1>4, <1>7
<1> QED BY <1>4, <1>5, <1>6, <1>7

\* A server of another make sends the difference with one document spoiled.
LEMMA SendForeignKeeps ==
    ASSUME IInv, SendForeign
    PROVE  IInv'
<1>1. /\ wire = <<>> /\ session = "open" /\ documents' = <<>> /\ session' = "open"
      /\ UNCHANGED <<server, list, results>>
  BY DEF SendForeign
<1>2. PICK i \in DOMAIN documents : \E document \in Spoiled(documents[i]) :
        wire' = <<[isUpdate |-> TRUE, data |-> [documents EXCEPT ![i] = document]]>>
  BY DEF SendForeign
<1>3. PICK x \in Spoiled(documents[i]) : wire' = <<[isUpdate |-> TRUE, data |-> [documents EXCEPT ![i] = x]]>>
  BY <1>2
<1>4. PICK q, r, C, D : /\ q = documents /\ r = [q EXCEPT ![i] = x]
                        /\ C = Contents(list.storage) /\ D = Contents(server)
  OBVIOUS
<1>5. DocumentsOK(q) /\ i \in DOMAIN q
  BY <1>4 DEF IInv
<1>6. Leads(C, q, D)
  BY <1>1, <1>4 DEF IInv, Mirrors, Rejected, Arrives
<1>7. Made(q[i])
  <2>1. DOMAIN q = 1..Len(q)
    BY <1>5 DEF DocumentsOK, IsSeq
  <2> QED BY <1>5, <2>1 DEF DocumentsOK
<1>8. Harmless(q[i], x)
  BY <1>4, <1>7, SpoiledIsHarmless
<1>9. /\ IsSeq(r) /\ \A j \in 1..Len(r) : IsDocument(r[j])
      /\ (\E j \in 1..Len(r) : ~Accepted(r[j])) \/ Leads(C, r, D)
  BY ONLY <1>4, <1>5, <1>6, <1>8, ForeignLeads
<1>10. wire' = <<[isUpdate |-> TRUE, data |-> r]>>
  BY <1>3, <1>4
<1>11. (\E j \in 1..Len(r) : ~Accepted(r[j])) \/ Leads(IF TRUE THEN Contents(list.storage) ELSE {}, r, Contents(server))
  BY <1>4, <1>9
<1> QED BY <1>1, <1>9, <1>10, <1>11, MessageLeaves

-----------------------------------------------------------------------------
\* Client::onSessionData: the list before the documents of a message.
LEMMA BeforeMessage ==
    ASSUME NEW l, NEW e, ListOK(l, e), NEW u \in BOOLEAN,
           NEW k, k = IF u THEN l ELSE [l EXCEPT !.storage = clearConnections(@)]
    PROVE  ListOK(k, e) /\ Contents(k.storage) = IF u THEN Contents(l.storage) ELSE {}
<1>1. CASE u
  BY <1>1
<1>2. CASE ~u
  <2>1. PICK s, t : s = l.storage /\ t = clearConnections(s)
    OBVIOUS
  <2>2. ListShape(l) /\ StorageOK(s)
    BY <2>1 DEF ListOK
  <2>3. k = [l EXCEPT !.storage = t]
    BY <1>2, <2>1
  <2>4. /\ ListShape(k) /\ k.storage = t /\ k.requests = l.requests /\ k.dataTotalCount = l.dataTotalCount
        /\ k.dataResolvedCount = l.dataResolvedCount
    BY <2>2, <2>3 DEF ListShape
  <2>5. StorageOK(t) /\ SamePlaces(s, t) /\ Contents(t) = {}
    BY <2>1, <2>2, ClearConnectionsClears
  <2>6. StorageOK(k.storage) /\ SamePlaces(l.storage, k.storage)
    BY <2>1, <2>4, <2>5
  <2>7. ListOK(k, e)
    BY <2>4, <2>6, SameNodes
  <2> QED BY <1>2, <2>4, <2>5, <2>7
<1> QED BY <1>1, <1>2

\* Client::onSessionData keeps the invariant: it throws, and the session fails, or the list is
\* what the message leads to.
LEMMA ReceiveKeeps ==
    ASSUME IInv, Receive
    PROVE  IInv'
<1>1. wire # <<>> /\ session = "open" /\ wire' = Tail(wire) /\ UNCHANGED <<server, documents, results>>
  BY DEF Receive
<1>2. PICK m : wire = <<m>> /\ IsMessage(m)
  BY <1>1 DEF IInv, WireOK
<1>3. Head(wire) = m /\ wire[1] = m /\ wire' = <<>>
  BY <1>1, <1>2
<1>4. PICK u, q, l, e : u = m.isUpdate /\ q = m.data /\ l = list /\ e = results
  OBVIOUS
<1>5. PICK k, r : k = (IF u THEN l ELSE [l EXCEPT !.storage = clearConnections(@)]) /\ r = Deserialized(k, q)
  OBVIOUS
<1>6. list' = r.list /\ session' = IF r.thrown THEN "failed" ELSE "open"
  BY <1>3, <1>4, <1>5 DEF Receive
<1>7. u \in BOOLEAN /\ IsSeq(q) /\ \A i \in 1..Len(q) : IsDocument(q[i])
  BY <1>2, <1>4 DEF IsMessage
<1>8. e \in Seq(Results) /\ ListOK(l, e)
  BY <1>4 DEF IInv
<1>9. Len(e) \in Nat /\ \A i \in 1..Len(e) : e[i].request \in Requests
  BY <1>8, ResultsAreOfRequests
<1>10. ListOK(k, e) /\ Contents(k.storage) = IF u THEN Contents(l.storage) ELSE {}
  BY ONLY <1>5, <1>7, <1>8, BeforeMessage
<1>11. Result(r, e) /\ MessageOutcome(k, q, r)
  BY ONLY <1>5, <1>7, <1>9, <1>10, MessageOK
<1>12. ListOK(list, results)'
  BY <1>1, <1>4, <1>6, <1>11 DEF Result
<1>13. ASSUME session' = "open"
       PROVE  Mirrors(Contents(list.storage), wire, documents, Contents(server))'
  <2>1. ~r.thrown
    BY <1>6, <1>13
  <2>2. \A i \in 1..Len(q) : Accepted(q[i])
    BY <1>11, <2>1 DEF MessageOutcome
  <2>3. PICK C : Arrives(Contents(list.storage), wire, C) /\ Leads(C, documents, Contents(server))
    BY <1>1, <1>3, <1>4, <2>2 DEF IInv, Mirrors, Rejected
  <2>4. Leads(Contents(k.storage), q, C)
    BY <1>1, <1>3, <1>4, <1>10, <2>3 DEF Arrives
  <2>5. Contents(r.list.storage) = C
    BY <1>11, <2>2, <2>4 DEF MessageOutcome
  <2>6. Arrives(C, <<>>, C)
    BY DEF Arrives
  <2>7. Mirrors(C, <<>>, documents, Contents(server))
    BY <2>3, <2>6 DEF Mirrors
  <2> QED BY <1>1, <1>3, <1>6, <2>5, <2>7
<1>14. SessionOK'
  BY <1>3, <1>6 DEF SessionOK
<1>15. ServerOK(server)' /\ DocumentsOK(documents)' /\ (results \in Seq(Results))'
  BY <1>1 DEF IInv
<1>16. WireOK(wire)'
  BY <1>3 DEF WireOK
<1> QED BY <1>12, <1>13, <1>14, <1>15, <1>16 DEF IInv

\* A step of the resolver or of its events leaves the connections alone.
LEMMA OnlyNodesChange ==
    ASSUME IInv, results' \in Seq(Results), ListOK(list', results'),
           Contents(list'.storage) = Contents(list.storage), UNCHANGED <<server, documents, wire, session>>
    PROVE  IInv'
BY DEF IInv, SessionOK

\* The resolver thread answers a request (Resolver::Impl::resolverLoop).
LEMMA ResolveKeeps ==
    ASSUME IInv, Resolve
    PROVE  IInv'
<1>1. PICK l, r, q : l = list /\ r = results /\ q = Head(list.requests)
  OBVIOUS
<1>2. PICK y : y = IF q.kind = "address" THEN processAddress(l.storage.addresses[q.data].address)
                   ELSE processPort(l.storage.ports[q.data].port)
  OBVIOUS
<1>3. PICK x, k, r2 : x = [request |-> q, resolved |-> y] /\ k = [l EXCEPT !.requests = Tail(@)] /\ r2 = Append(r, x)
  OBVIOUS
<1>4. /\ l.requests # <<>> /\ results' = r2 /\ list' = k /\ UNCHANGED <<server, documents, wire, session>>
  BY <1>1, <1>2, <1>3 DEF Resolve
<1>5. r \in Seq(Results) /\ ListOK(l, r)
  BY <1>1 DEF IInv
<1>6. l.requests \in Seq(Requests) /\ ListShape(l)
  BY <1>5 DEF ListOK
<1>7. q \in Requests
  BY <1>1, <1>4, <1>6
<1>8. x \in Results
  <2>1. \A a : processAddress(a) \in AddressAnswers
    BY DEF processAddress, AddressAnswers
  <2>2. \A p : processPort(p) \in PortAnswers
    BY DEF processPort, PortAnswers
  <2>3. CASE q.kind = "address"
    <3>1. y \in AddressAnswers
      BY <1>2, <2>1, <2>3
    <3>2. q \in [kind : {"address"}, data : Nat]
      BY <1>7, <2>3 DEF Requests
    <3> QED BY <1>3, <3>1, <3>2 DEF Results
  <2>4. CASE q.kind # "address"
    <3>1. y \in PortAnswers
      BY <1>2, <2>2, <2>4
    <3>2. q \in [kind : {"port"}, data : Nat]
      BY <1>7, <2>4 DEF Requests
    <3> QED BY <1>3, <3>1, <3>2 DEF Results
  <2> QED BY <2>3, <2>4
<1>9. x.request = Head(l.requests)
  BY <1>1, <1>3
<1>10. ListOK(k, r2)
  BY ONLY <1>3, <1>4, <1>5, <1>8, <1>9, RequestBecomesResult
<1>11. r2 \in Seq(Results)
  BY <1>3, <1>5, <1>8
<1>12. k.storage = l.storage
  BY <1>3, <1>6 DEF ListShape
<1> QED BY <1>1, <1>4, <1>10, <1>11, <1>12, OnlyNodesChange

\* The main thread dispatches an answer (Resolver::Impl::onEvent).
LEMMA OnEventKeeps ==
    ASSUME IInv, onEvent
    PROVE  IInv'
<1>1. PICK l, r, x, k : l = list /\ r = results /\ x = Head(r) /\ k = list'
  OBVIOUS
<1>2. /\ r # <<>> /\ results' = Tail(r) /\ UNCHANGED <<server, documents, wire, session>>
      /\ k = IF x.request.kind = "address" THEN ResolverCallbackAddress(l, x.request.data, x.resolved)
             ELSE ResolverCallbackPort(l, x.request.data, x.resolved)
  BY <1>1 DEF onEvent
<1>3. r \in Seq(Results) /\ ListOK(l, r)
  BY <1>1 DEF IInv
<1>4. ListOK(k, Tail(r)) /\ Contents(k.storage) = Contents(l.storage)
  <2>1. CASE x.request.kind = "address"
    <3>1. k = ResolverCallbackAddress(l, x.request.data, x.resolved)
      BY <1>2, <2>1
    <3> QED BY <1>1, <1>2, <1>3, <2>1, <3>1, AddressCallbackOK
  <2>2. CASE x.request.kind # "address"
    <3>1. k = ResolverCallbackPort(l, x.request.data, x.resolved)
      BY <1>2, <2>2
    <3> QED BY <1>1, <1>2, <1>3, <2>2, <3>1, PortCallbackOK
  <2> QED BY <2>1, <2>2
<1>5. Tail(r) \in Seq(Results)
  BY <1>2, <1>3
<1> QED BY <1>1, <1>2, <1>4, <1>5, OnlyNodesChange

\* Every step of server, client and resolver keeps the invariant.
LEMMA NextKeeps ==
    IInv /\ [Next]_vars => IInv'
<1> SUFFICES ASSUME IInv, [Next]_vars PROVE IInv'
  OBVIOUS
<1>1. ASSUME NEW flow \in Flows, NEW state \in States(flow.type), add(flow, state) PROVE IInv'
  BY <1>1, AddKeeps
<1>2. ASSUME NEW c \in DOMAIN server.connectionMap, NEW flags \in UpdateFlags, NEW state \in States(c.type),
             update(c, flags, state)
      PROVE  IInv'
  BY <1>2, UpdateKeeps
<1>3. ASSUME NEW c \in DOMAIN server.connectionMap, remove(c) PROVE IInv'
  BY <1>3, RemoveKeeps
<1>4. CASE SendUpdate
  BY <1>4, SendUpdateKeeps
<1>5. CASE SendAll
  BY <1>5, SendAllKeeps
<1>6. CASE SendForeign
  BY <1>6, SendForeignKeeps
<1>7. CASE Receive
  BY <1>7, ReceiveKeeps
<1>8. CASE Reconnect
  BY <1>8, ReconnectKeeps
<1>9. CASE Resolve
  BY <1>9, ResolveKeeps
<1>10. CASE onEvent
  BY <1>10, OnEventKeeps
<1>11. CASE UNCHANGED vars
  BY <1>11 DEF vars, IInv, SessionOK
<1> QED BY <1>1, <1>2, <1>3, <1>4, <1>5, <1>6, <1>7, <1>8, <1>9, <1>10, <1>11 DEF Next

-----------------------------------------------------------------------------
\* The invariant holds for any flows, any names that the resolver knows, any
\* flags of the collector's updates and any number of changes and of foreign
\* documents: the storages are well formed, the resolver's requests are the
\* unresolved nodes of the list, each once, and what is on its way to the client
\* (Client::onSessionData) makes its list the server's storage.
THEOREM TransferInductive == Spec => []IInv
<1> QED BY InitIInv, NextKeeps, PTL DEF Spec

\* The pointers of the list's connections are values: Connection::operator== may
\* compare them.
THEOREM PointersNameFlows == Spec => []PointersAreValues
<1>1. ASSUME IInv PROVE PointersAreValues
  <2>1. PICK s : s = list.storage
    OBVIOUS
  <2>2. PlacesOK(s) /\ \A c \in DOMAIN s.connectionMap : IsConnection(s, c)
    BY <1>1, <2>1 DEF IInv, ListOK, StorageOK, ConnectionsOK
  <2>3. ASSUME NEW c \in DOMAIN s.connectionMap PROVE ConnectionOf(s, FlowOf(s, c)) = c
    BY <2>2, FlowOfConnection
  <2>4. ASSUME NEW c \in DOMAIN s.connectionMap, NEW d \in DOMAIN s.connectionMap, FlowOf(s, c) = FlowOf(s, d)
        PROVE  c = d
    BY <2>3, <2>4
  <2> QED BY <2>1, <2>3, <2>4 DEF PointersAreValues
<1> QED BY <1>1, TransferInductive, PTL

\* The client's list is the server's storage whenever nothing is on its way
\* (ConnectionData::Serialize and Deserialize, ConnectionStorage): what a server
\* of another make sends is rejected, or does no harm.
THEOREM ListMirrorsServer == Spec => []MirrorsServer
<1>1. ASSUME IInv PROVE MirrorsServer
  <2> SUFFICES ASSUME wire = <<>>, documents = <<>>, session = "open"
               PROVE  Contents(list.storage) = Contents(server)
    BY DEF MirrorsServer
  <2>1. Leads(Contents(list.storage), <<>>, Contents(server))
    BY <1>1 DEF IInv, Mirrors, Rejected, Arrives
  <2> QED BY <2>1, NothingIsReplayed
<1> QED BY <1>1, TransferInductive, PTL

\* The nodes that are not resolved are the ones that someone waits for.
LEMMA UnresolvedNodes ==
    ASSUME IInv, NEW x
    PROVE  x \in {node \in Nodes : ~IsResolved(node)} <=> x \in Requests /\ Unresolved(list, x)
<1>1. PICK A, P : A = list.storage.addresses /\ P = list.storage.ports
  OBVIOUS
<1>2. A \in Seq(AddressDatas) /\ P \in Seq(PortDatas)
  BY <1>1 DEF IInv, ListOK, StorageOK, PlacesOK, AddressesOK, PortsOK
<1>3. DOMAIN A = 1..Len(A) /\ DOMAIN P = 1..Len(P) /\ Len(A) \in Nat /\ Len(P) \in Nat
  BY <1>2
<1>4. x \in Nodes <=> \/ \E a \in 1..Len(A) : x = [kind |-> "address", data |-> a]
                      \/ \E p \in 1..Len(P) : x = [kind |-> "port", data |-> p]
  BY <1>1, <1>3 DEF Nodes, Request
<1>5. ASSUME x \in Nodes, ~IsResolved(x) PROVE x \in Requests /\ Unresolved(list, x)
  <2>1. CASE \E a \in 1..Len(A) : x = [kind |-> "address", data |-> a]
    <3>1. x.kind = "address" /\ x.data \in 1..Len(A) /\ x \in Requests
      BY <1>3, <2>1 DEF Requests
    <3> QED BY <1>1, <1>5, <3>1 DEF IsResolved, Unresolved
  <2>2. CASE \E p \in 1..Len(P) : x = [kind |-> "port", data |-> p]
    <3>1. x.kind = "port" /\ x.data \in 1..Len(P) /\ x \in Requests
      BY <1>3, <2>2 DEF Requests
    <3> QED BY <1>1, <1>5, <3>1 DEF IsResolved, Unresolved
  <2> QED BY <1>4, <1>5, <2>1, <2>2
<1>6. ASSUME x \in Requests, Unresolved(list, x) PROVE x \in Nodes /\ ~IsResolved(x)
  <2>1. x = [kind |-> x.kind, data |-> x.data]
    BY <1>6 DEF Requests
  <2>2. CASE x.kind = "address"
    BY <1>1, <1>4, <1>6, <2>1, <2>2 DEF Unresolved, IsResolved
  <2>3. CASE x.kind = "port"
    BY <1>1, <1>4, <1>6, <2>1, <2>3 DEF Unresolved, IsResolved
  <2> QED BY <1>6, <2>2, <2>3 DEF Requests
<1> QED BY <1>5, <1>6

\* Each address and each port of the list is asked for once (ConnectionList,
\* Resolver), however often it comes, and the counters of the status line say
\* how many are resolved.
THEOREM NodesAreResolvedOnce == Spec => []EachIsResolvedOnce
<1>1. ASSUME IInv PROVE EachIsResolvedOnce
  <2>1. PICK q, r : q = list.requests /\ r = results
    OBVIOUS
  <2>2. r \in Seq(Results) /\ ListOK(list, r) /\ q \in Seq(Requests)
    BY <1>1, <2>1 DEF IInv, ListOK
  <2>3. Len(r) \in Nat /\ \A i \in 1..Len(r) : r[i].request \in Requests
    BY <2>2, ResultsAreOfRequests
  <2>4. PICK z : z = [i \in DOMAIN r |-> r[i].request]
    OBVIOUS
  <2>5. z \in Seq(Requests) /\ Len(z) = Len(r) /\ \A i \in 1..Len(r) : z[i] = r[i].request
    <3>1. DOMAIN r = 1..Len(r)
      BY <2>2
    <3>2. z \in [1..Len(r) -> Requests]
      BY <2>3, <2>4, <3>1
    <3> QED BY <2>3, <2>4, <3>1, <3>2
  <2>6. PICK w : w = q \o z
    OBVIOUS
  <2>7. /\ w \in Seq(Requests) /\ Len(w) = Len(q) + Len(r) /\ Len(q) \in Nat /\ DOMAIN w = 1..Len(w)
        /\ \A i \in 1..Len(q) : w[i] = q[i]
        /\ \A i \in 1..Len(r) : w[Len(q) + i] = r[i].request
    <3>1. w \in Seq(Requests) /\ Len(w) = Len(q) + Len(z) /\ Len(q) \in Nat /\ Len(z) \in Nat
      <4>1. q \in Seq(Requests) /\ z \in Seq(Requests)
        BY <2>2, <2>5
      <4>2. Len(q) \in Nat /\ Len(z) \in Nat
        BY ONLY <4>1
      <4>3. Len(w) = Len(q) + Len(z)
        BY ONLY <2>6, <4>1
      <4>4. w \in Seq(Requests)
        BY ONLY <2>6, <4>1
      <4> QED BY <4>2, <4>3, <4>4
    <3>2. DOMAIN w = 1..Len(w)
      BY <3>1
    <3>3. \A i \in 1..Len(q) + Len(z) : w[i] = IF i <= Len(q) THEN q[i] ELSE z[i - Len(q)]
      BY <2>2, <2>5, <2>6
    <3>4. \A i \in 1..Len(q) : w[i] = q[i]
      BY <3>1, <3>3
    <3>5. ASSUME NEW i \in 1..Len(r) PROVE w[Len(q) + i] = r[i].request
      <4>1. Len(q) + i \in 1..Len(q) + Len(z) /\ ~(Len(q) + i <= Len(q)) /\ Len(q) + i - Len(q) = i
        BY <2>3, <2>5, <3>1
      <4>2. w[Len(q) + i] = z[Len(q) + i - Len(q)]
        BY <3>3, <4>1
      <4> QED BY <2>5, <4>1, <4>2
    <3> QED BY <2>5, <3>1, <3>2, <3>4, <3>5
  <2>8. \A i \in DOMAIN w : i \in 1..Len(q) \/ \E j \in 1..Len(r) : i = Len(q) + j
    <3> TAKE i \in DOMAIN w
    <3>1. i \in 1..Len(q) + Len(r)
      BY <2>7
    <3>2. CASE i <= Len(q)
      BY <2>3, <2>7, <3>1, <3>2
    <3>3. CASE ~(i <= Len(q))
      <4>1. i - Len(q) \in 1..Len(r) /\ i = Len(q) + (i - Len(q))
        BY <2>3, <2>7, <3>1, <3>3
      <4> QED BY <4>1
    <3> QED BY <3>2, <3>3
  <2>9. Waiting(list, q, r) /\ Counted(list, r)
    BY <2>1, <2>2 DEF ListOK
  <2>10. ASSUME NEW x PROVE x \in {w[i] : i \in DOMAIN w} <=> x \in Requests /\ Unresolved(list, x)
    <3>1. ASSUME NEW i \in DOMAIN w PROVE w[i] \in Requests /\ Unresolved(list, w[i])
      <4>1. w[i] \in Requests
        BY <2>7
      <4>2. CASE i \in 1..Len(q)
        BY <2>7, <2>9, <4>1, <4>2 DEF Waiting
      <4>3. CASE \E j \in 1..Len(r) : i = Len(q) + j
        BY <2>7, <2>9, <4>1, <4>3 DEF Waiting
      <4> QED BY <2>8, <4>2, <4>3
    <3>2. ASSUME x \in Requests, Unresolved(list, x) PROVE \E i \in DOMAIN w : w[i] = x
      <4>1. (\E i \in 1..Len(q) : q[i] = x) \/ (\E i \in 1..Len(r) : r[i].request = x)
        BY <2>9, <3>2 DEF Waiting
      <4>2. ASSUME NEW i \in 1..Len(q), q[i] = x PROVE \E j \in DOMAIN w : w[j] = x
        <5>1. i \in DOMAIN w
          BY <2>3, <2>7
        <5> QED BY <2>7, <4>2, <5>1
      <4>3. ASSUME NEW i \in 1..Len(r), r[i].request = x PROVE \E j \in DOMAIN w : w[j] = x
        <5>1. Len(q) + i \in DOMAIN w
          BY <2>3, <2>7
        <5> QED BY <2>7, <4>3, <5>1
      <4> QED BY <4>1, <4>2, <4>3
    <3> QED BY <3>1, <3>2
  <2>11. {w[i] : i \in DOMAIN w} = {node \in Nodes : ~IsResolved(node)}
    <3>1. \A x : x \in {w[i] : i \in DOMAIN w} <=> x \in {node \in Nodes : ~IsResolved(node)}
      BY <1>1, <2>10, UnresolvedNodes
    <3>2. PICK U, V : U = {w[i] : i \in DOMAIN w} /\ V = {node \in Nodes : ~IsResolved(node)}
      OBVIOUS
    <3>3. \A x : x \in U <=> x \in V
      BY <3>1, <3>2
    <3>4. U = V
      BY ONLY <3>3
    <3> QED BY <3>2, <3>4
  <2>12. Len(w) = list.dataTotalCount - list.dataResolvedCount
    BY <2>1, <2>7, <2>9 DEF Counted
  <2>13. list.dataTotalCount = Len(list.storage.addresses) + Len(list.storage.ports)
    BY <2>9 DEF Counted
  <2>14. w = list.requests \o [i \in DOMAIN results |-> results[i].request]
    BY <2>1, <2>4, <2>6
  <2> QED BY <2>11, <2>12, <2>13, <2>14, Zenon DEF EachIsResolvedOnce
<1> QED BY <1>1, TransferInductive, PTL

=============================================================================

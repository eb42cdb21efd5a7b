-------------------------- MODULE ConntrackProofs --------------------------
(***************************************************************************)
(* Proofs about Conntrack, for any connections, any capacity of the event  *)
(* socket and any modulus of the counters: the types, that the storage     *)
(* follows the kernel's table, and that the differences reproduce it.      *)
(***************************************************************************)
EXTENDS Conntrack, WellFoundedInduction, TLAPS

-----------------------------------------------------------------------------
\* Lemmas on sequences of events.

(***************************************************************************)
(* Nothing happens in the empty sequence, and a last event is an event.    *)
(***************************************************************************)
LEMMA AfterEmpty ==
    ASSUME NEW c
    PROVE  ~Mentions(<<>>, c) /\ ~LastIs(<<>>, c, "NEW")
BY DEF Mentions, LastIs

LEMMA LastIsMentioned ==
    ASSUME NEW q, NEW c, ~Mentions(q, c)
    PROVE  ~LastIs(q, c, "NEW")
BY DEF Mentions, LastIs

(***************************************************************************)
(* An appended event is the last one of its connection (Emit).             *)
(***************************************************************************)
LEMMA AfterAppend ==
    ASSUME NEW q \in Seq(Event), NEW e \in Event, NEW c
    PROVE  /\ Mentions(Append(q, e), c) <=> e.conn = c \/ Mentions(q, c)
           /\ e.conn = c => (LastIs(Append(q, e), c, "NEW") <=> e.type = "NEW")
           /\ e.conn # c => (LastIs(Append(q, e), c, "NEW") <=> LastIs(q, c, "NEW"))
<1>1. /\ DOMAIN Append(q, e) = 1..Len(q) + 1 /\ DOMAIN q = 1..Len(q) /\ Len(q) \in Nat
      /\ Append(q, e)[Len(q) + 1] = e
      /\ \A i \in 1..Len(q) : Append(q, e)[i] = q[i]
  OBVIOUS
<1>2. Mentions(Append(q, e), c) <=> e.conn = c \/ Mentions(q, c)
  BY <1>1 DEF Mentions
<1>3. ASSUME e.conn = c
      PROVE  LastIs(Append(q, e), c, "NEW") <=> e.type = "NEW"
  BY <1>1, <1>3 DEF LastIs
<1>4. ASSUME e.conn # c
      PROVE  LastIs(Append(q, e), c, "NEW") <=> LastIs(q, c, "NEW")
  BY <1>1, <1>4 DEF LastIs
<1> QED BY <1>2, <1>3, <1>4

(***************************************************************************)
(* Reading the first event of a sequence (EventCallback).                  *)
(***************************************************************************)
LEMMA AfterTail ==
    ASSUME NEW q \in Seq(Event), q # <<>>, NEW c
    PROVE  /\ Mentions(q, c) <=> Head(q).conn = c \/ Mentions(Tail(q), c)
           /\ Mentions(Tail(q), c) => (LastIs(q, c, "NEW") <=> LastIs(Tail(q), c, "NEW"))
           /\ Head(q).conn = c /\ ~Mentions(Tail(q), c) => (LastIs(q, c, "NEW") <=> Head(q).type = "NEW")
<1>1. /\ DOMAIN q = 1..Len(q) /\ Len(q) \in Nat /\ Len(q) >= 1 /\ q[1] = Head(q)
      /\ DOMAIN Tail(q) = 1..Len(q) - 1
      /\ \A i \in 1..Len(q) - 1 : Tail(q)[i] = q[i + 1]
  OBVIOUS
<1>2. \A i \in DOMAIN q : i = 1 \/ (i - 1 \in DOMAIN Tail(q) /\ Tail(q)[i - 1] = q[i])
  BY <1>1
<1>3. \A i \in DOMAIN Tail(q) : i + 1 \in DOMAIN q /\ q[i + 1] = Tail(q)[i]
  BY <1>1
<1>4. Mentions(q, c) <=> Head(q).conn = c \/ Mentions(Tail(q), c)
  <2>1. ASSUME Mentions(q, c), Head(q).conn # c PROVE Mentions(Tail(q), c)
    <3>1. PICK i \in DOMAIN q : q[i].conn = c
      BY <2>1 DEF Mentions
    <3>2. i # 1
      BY <1>1, <2>1, <3>1
    <3> QED BY <1>2, <3>1, <3>2 DEF Mentions
  <2>2. ASSUME Head(q).conn = c \/ Mentions(Tail(q), c) PROVE Mentions(q, c)
    BY <1>1, <1>3, <2>2 DEF Mentions
  <2> QED BY <2>1, <2>2
<1>5. ASSUME Mentions(Tail(q), c)
      PROVE  LastIs(q, c, "NEW") <=> LastIs(Tail(q), c, "NEW")
  <2>1. ASSUME LastIs(q, c, "NEW") PROVE LastIs(Tail(q), c, "NEW")
    <3>1. PICK i \in DOMAIN q : /\ q[i].conn = c /\ q[i].type = "NEW"
                                /\ \A j \in DOMAIN q : j > i => q[j].conn # c
      BY <2>1 DEF LastIs
    <3>2. PICK k \in DOMAIN Tail(q) : Tail(q)[k].conn = c
      BY <1>5 DEF Mentions
    <3>3. i # 1
      BY <1>1, <1>3, <3>1, <3>2
    <3>4. \A j \in DOMAIN Tail(q) : j > i - 1 => Tail(q)[j].conn # c
      BY <1>1, <1>3, <3>1
    <3> QED BY <1>2, <3>1, <3>3, <3>4 DEF LastIs
  <2>2. ASSUME LastIs(Tail(q), c, "NEW") PROVE LastIs(q, c, "NEW")
    <3>1. PICK i \in DOMAIN Tail(q) : /\ Tail(q)[i].conn = c /\ Tail(q)[i].type = "NEW"
                                      /\ \A j \in DOMAIN Tail(q) : j > i => Tail(q)[j].conn # c
      BY <2>2 DEF LastIs
    <3>2. \A j \in DOMAIN q : j > i + 1 => q[j].conn # c
      <4> TAKE j \in DOMAIN q
      <4> HAVE j > i + 1
      <4>1. j - 1 \in DOMAIN Tail(q) /\ Tail(q)[j - 1] = q[j] /\ j - 1 > i
        BY <1>1, <1>2, <3>1
      <4> QED BY <3>1, <4>1
    <3> QED BY <1>1, <1>3, <3>1, <3>2 DEF LastIs
  <2> QED BY <2>1, <2>2
<1>6. ASSUME Head(q).conn = c, ~Mentions(Tail(q), c)
      PROVE  LastIs(q, c, "NEW") <=> Head(q).type = "NEW"
  <2>1. \A j \in DOMAIN q : q[j].conn = c <=> j = 1
    BY <1>1, <1>2, <1>6 DEF Mentions
  <2> QED BY <1>1, <2>1 DEF LastIs
<1> QED BY <1>4, <1>5, <1>6

(***************************************************************************)
(* The queued events and then those in the socket have the effect of both  *)
(* together.                                                               *)
(***************************************************************************)
LEMMA AfterConcat ==
    ASSUME NEW q \in Seq(Event), NEW s \in Seq(Event), NEW c
    PROVE  /\ Mentions(q \o s, c) <=> Mentions(q, c) \/ Mentions(s, c)
           /\ LastIs(q \o s, c, "NEW") <=> LastIs(s, c, "NEW") \/ (~Mentions(s, c) /\ LastIs(q, c, "NEW"))
<1>1. /\ DOMAIN q = 1..Len(q) /\ DOMAIN s = 1..Len(s) /\ DOMAIN (q \o s) = 1..Len(q) + Len(s)
      /\ Len(q) \in Nat /\ Len(s) \in Nat
      /\ \A i \in 1..Len(q) : (q \o s)[i] = q[i]
  OBVIOUS
<1>2. \A i \in 1..Len(s) : (q \o s)[Len(q) + i] = s[i]
  OBVIOUS
<1>3. \A i \in DOMAIN (q \o s) : i \in DOMAIN q \/ (i - Len(q) \in DOMAIN s /\ (q \o s)[i] = s[i - Len(q)])
  BY <1>1, <1>2
<1>4. \A i \in DOMAIN s : Len(q) + i \in DOMAIN (q \o s)
  BY <1>1
<1>5. Mentions(q \o s, c) <=> Mentions(q, c) \/ Mentions(s, c)
  BY <1>1, <1>2, <1>3, <1>4 DEF Mentions
<1>6. ASSUME LastIs(s, c, "NEW") PROVE LastIs(q \o s, c, "NEW")
  <2>1. PICK i \in DOMAIN s : /\ s[i].conn = c /\ s[i].type = "NEW"
                              /\ \A j \in DOMAIN s : j > i => s[j].conn # c
    BY <1>6 DEF LastIs
  <2>2. \A j \in DOMAIN (q \o s) : j > Len(q) + i => (q \o s)[j].conn # c
    BY <1>1, <1>3, <2>1
  <2> QED BY <1>1, <1>2, <1>4, <2>1, <2>2 DEF LastIs
<1>7. ASSUME LastIs(q \o s, c, "NEW"), Mentions(s, c) PROVE LastIs(s, c, "NEW")
  <2>1. PICK i \in DOMAIN (q \o s) : /\ (q \o s)[i].conn = c /\ (q \o s)[i].type = "NEW"
                                     /\ \A j \in DOMAIN (q \o s) : j > i => (q \o s)[j].conn # c
    BY <1>7 DEF LastIs
  <2>2. PICK k \in DOMAIN s : s[k].conn = c
    BY <1>7 DEF Mentions
  <2>3. i \notin DOMAIN q
    BY <1>1, <1>2, <1>4, <2>1, <2>2
  <2>4. \A j \in DOMAIN s : j > i - Len(q) => s[j].conn # c
    BY <1>1, <1>2, <1>4, <2>1
  <2> QED BY <1>3, <2>1, <2>3, <2>4 DEF LastIs
<1>8. ASSUME ~Mentions(s, c) PROVE LastIs(q \o s, c, "NEW") <=> LastIs(q, c, "NEW")
  <2>1. \A i \in DOMAIN (q \o s) : (q \o s)[i].conn = c => i \in DOMAIN q
    BY <1>3, <1>8 DEF Mentions
  <2>2. \A i \in DOMAIN q : i \in DOMAIN (q \o s)
    BY <1>1
  <2> QED BY <1>1, <2>1, <2>2 DEF LastIs
<1> QED BY <1>5, <1>6, <1>7, <1>8, LastIsMentioned

-----------------------------------------------------------------------------
(***************************************************************************)
(* Types.  That an appended item is an item needs items to be a sequence,  *)
(* which TypeOK does not say: a value is a number or a name, and TLC does  *)
(* not compare the two.  That the addresses of the stored connections are  *)
(* known rests on those of the queued events.                              *)
(***************************************************************************)
Item == [action : {"CREATE", "UPDATE", "REMOVE"}, conn : Conns,
         values : UNION {[written -> Counter \cup EState \cup {"?"}] : written \in SUBSET EConnectionUpdateFlags}]

Typed ==
    /\ TypeOK
    /\ items \in Seq(Item)
    /\ serialized \in [isEmpty : BOOLEAN, items : Seq(Item)]
    /\ \A i \in DOMAIN eventQueue : eventQueue[i].conn \in known

(***************************************************************************)
(* The data that add and update write, whatever the counters do.           *)
(***************************************************************************)
LEMMA DataTypes ==
    /\ NewData \in Data
    /\ \A entry \in Entry : FilledData(entry) \in Data
    /\ \A data \in Data, entry \in Entry : UpdatedData(data, entry) \in Data
<1>1. \A raw \in RawState : TCPStateToEnum(raw) \in EState
  BY DEF EState
<1>2. "UNKNOWN" \in EState /\ 0 \in Counter
  BY CounterModAssumption DEF EState, TCPStateToEnum, RawState, Counter
<1>3. \A x, y \in Counter : (x - y) % CounterMod \in Counter
  BY CounterModAssumption DEF Counter
<1>4. NewData \in Data
  BY <1>2 DEF NewData, Data
<1>5. \A entry \in Entry : FilledData(entry) \in Data
  BY <1>1, <1>2 DEF FilledData, Data, Entry
<1>6. \A data \in Data, entry \in Entry : UpdatedData(data, entry) \in Data
  BY <1>1, <1>3 DEF UpdatedData, Data, Entry
<1> QED BY <1>4, <1>5, <1>6

(***************************************************************************)
(* What serialize writes is an item.                                       *)
(***************************************************************************)
LEMMA SerializeType ==
    ASSUME NEW c \in Conns, NEW data \in Data, NEW action \in {"CREATE", "UPDATE", "REMOVE"},
           NEW flags \in SUBSET EConnectionUpdateFlags
    PROVE  serialize(c, data, action, flags) \in Item
<1> DEFINE written == CASE action = "CREATE" -> EConnectionUpdateFlags
                        [] action = "UPDATE" -> flags
                        [] action = "REMOVE" -> {}
<1>1. written \in SUBSET EConnectionUpdateFlags
  OBVIOUS
<1>2. \A f \in written : Value(data, f) \in Counter \cup EState \cup {"?"}
  BY <1>1 DEF EConnectionUpdateFlags, Value, Data, StateToString
<1>3. [f \in written |-> Value(data, f)] \in [written -> Counter \cup EState \cup {"?"}]
  BY <1>2
<1> QED BY <1>1, <1>3 DEF serialize, Item

(***************************************************************************)
(* An item is what TypeOK asks of it.                                      *)
(***************************************************************************)
LEMMA ItemIsItem ==
    ASSUME NEW q \in Seq(Item), NEW i \in DOMAIN q
    PROVE  IsItem(q[i])
<1>1. q[i] \in Item
  OBVIOUS
<1> QED BY <1>1 DEF Item, IsItem

(***************************************************************************)
(* The three changes of the storage keep it and the items typed.           *)
(***************************************************************************)
LEMMA AddTypes ==
    ASSUME Typed, NEW k \in SUBSET Conns, known \subseteq k, NEW c \in k, NEW data \in Data, add(c, data)
    PROVE  DOMAIN storage' \subseteq k /\ storage' \in [DOMAIN storage' -> Data] /\ items' \in Seq(Item)
<1>1. DOMAIN storage \subseteq known /\ storage \in [DOMAIN storage -> Data] /\ items \in Seq(Item)
  BY DEF Typed, TypeOK
<1>2. DOMAIN storage' \subseteq k /\ storage' \in [DOMAIN storage' -> Data]
  BY <1>1 DEF add, addConnection
<1>3. serialize(c, data, "CREATE", {}) \in Item
  BY SerializeType
<1>4. items' \in Seq(Item)
  BY <1>1, <1>3 DEF add, Record
<1> QED BY <1>2, <1>4

LEMMA RemoveTypes ==
    ASSUME Typed, NEW c \in Conns, remove(c)
    PROVE  DOMAIN storage' \subseteq known /\ storage' \in [DOMAIN storage' -> Data] /\ items' \in Seq(Item)
<1>1. DOMAIN storage \subseteq known /\ storage \in [DOMAIN storage -> Data] /\ items \in Seq(Item)
  BY DEF Typed, TypeOK
<1>2. DOMAIN storage' \subseteq known /\ storage' \in [DOMAIN storage' -> Data]
  BY <1>1 DEF remove, removeConnection
<1>3. c \in DOMAIN storage => serialize(c, storage[c], "REMOVE", {}) \in Item
  BY <1>1, SerializeType
<1>4. items' \in Seq(Item)
  BY <1>1, <1>3 DEF remove, Record
<1> QED BY <1>2, <1>4

LEMMA UpdateTypes ==
    ASSUME Typed, NEW c \in DOMAIN storage, c \in DOMAIN table, update(c)
    PROVE  DOMAIN storage' = DOMAIN storage /\ storage' \in [DOMAIN storage' -> Data] /\ items' \in Seq(Item)
<1>1. /\ DOMAIN storage \subseteq known /\ storage \in [DOMAIN storage -> Data] /\ items \in Seq(Item)
      /\ known \subseteq Conns /\ table \in [DOMAIN table -> Entry]
  BY DEF Typed, TypeOK
<1> DEFINE data == UpdatedData(storage[c], table[c])
           flags == UpdateFlags(storage[c], table[c])
<1>2. data \in Data
  BY <1>1, DataTypes
<1>3. flags \in SUBSET EConnectionUpdateFlags
  BY DEF UpdateFlags
<1>4. /\ storage' = [storage EXCEPT ![c] = data]
      /\ items' = IF flags # {} THEN Record(c, data, "UPDATE", flags) ELSE items
  BY DEF update
<1> HIDE DEF data, flags
<1>5. serialize(c, data, "UPDATE", flags) \in Item
  BY <1>1, <1>2, <1>3, SerializeType
<1>6. items' \in Seq(Item)
  BY <1>1, <1>4, <1>5 DEF Record
<1> QED BY <1>1, <1>2, <1>4, <1>6

(***************************************************************************)
(* Every step keeps the types.                                             *)
(***************************************************************************)
LEMMA TypedInit == Init => Typed
<1> SUFFICES ASSUME Init PROVE Typed
  OBVIOUS
<1>1. /\ DOMAIN table \subseteq Conns
      /\ table \in [DOMAIN table -> Entry]
  BY ConntrackAssumption, CounterModAssumption DEF Init, Entry, Counter
<1>2. DOMAIN EmptyStorage = {} /\ EmptyStorage \in [{} -> Data]
  BY DEF EmptyStorage
<1>3. <<>> \in Seq(Event) /\ <<>> \in Seq(Item) /\ Len(<<>>) = 0 /\ DOMAIN <<>> = {}
  OBVIOUS
<1>4. NoDifference \in [isEmpty : BOOLEAN, items : Seq(Item)]
  BY <1>3 DEF NoDifference
<1>5. /\ socket \in Seq(Event) /\ Len(socket) <= SocketCapacity /\ eventQueue \in Seq(Event)
      /\ \A i \in DOMAIN eventQueue : eventQueue[i].conn \in known
  BY <1>3, ConntrackAssumption DEF Init
<1>6. /\ DOMAIN storage \subseteq known /\ storage \in [DOMAIN storage -> Data]
      /\ DOMAIN before \subseteq known /\ before \in [DOMAIN before -> Data]
  BY <1>2 DEF Init
<1>7. /\ items \in Seq(Item) /\ serialized \in [isEmpty : BOOLEAN, items : Seq(Item)]
      /\ \A i \in DOMAIN items : IsItem(items[i])
      /\ \A i \in DOMAIN serialized.items : IsItem(serialized.items[i])
  BY <1>3, <1>4 DEF Init, NoDifference
<1>8. budget \in [kernel : 0..MaxKernelSteps, commands : 0..MaxCommands]
  BY ConntrackAssumption DEF Init
<1>9. /\ overrun \in BOOLEAN /\ congested \in BOOLEAN /\ isRefillRequired \in BOOLEAN
      /\ isPaused \in BOOLEAN /\ isServer \in BOOLEAN /\ serializing \in BOOLEAN
      /\ serialized.isEmpty \in BOOLEAN
  BY ConntrackAssumption, Zenon DEF Init, NoDifference
<1>10. /\ reported \subseteq {"INPUT", "ERROR"} /\ known \subseteq Conns /\ todo \subseteq Conns
       /\ activity \in {"idle", "catch", "events", "dump"} /\ failed \in {"no", "poll", "catch", "dump"}
       /\ suspect \subseteq Conns
  BY DEF Init
<1> QED BY <1>1, <1>5, <1>6, <1>7, <1>8, <1>9, <1>10, Zenon DEF Typed, TypeOK

LEMMA EmitTypes ==
    ASSUME Typed, NEW c \in Conns, NEW type \in {"NEW", "DESTROY"}, Emit(type, c)
    PROVE  /\ socket' \in Seq(Event) /\ Len(socket') <= SocketCapacity
           /\ overrun' \in BOOLEAN /\ congested' \in BOOLEAN
           /\ suspect' \subseteq Conns
<1>1. /\ socket \in Seq(Event) /\ Len(socket) <= SocketCapacity /\ suspect \subseteq Conns
      /\ overrun \in BOOLEAN /\ congested \in BOOLEAN
  BY DEF Typed, TypeOK
<1>2. [type |-> type, conn |-> c] \in Event
  BY DEF Event
<1>3. socket' \in Seq(Event) /\ Len(socket') <= SocketCapacity
  BY <1>1, <1>2, ConntrackAssumption DEF Emit
<1>4. overrun' \in BOOLEAN /\ congested' \in BOOLEAN
  BY <1>1, Zenon DEF Emit
<1>5. suspect' \subseteq Conns
  BY <1>1 DEF Emit
<1> QED BY <1>3, <1>4, <1>5

LEMMA TypedStep == Typed /\ [Next]_vars => Typed'
<1> SUFFICES ASSUME Typed, [Next]_vars PROVE Typed'
  OBVIOUS
<1> USE DEF kernel, server
<1>k. ASSUME KernelStep
      PROVE  budget' \in [kernel : 0..MaxKernelSteps, commands : 0..MaxCommands]
  <2>1. budget \in [kernel : 0..MaxKernelSteps, commands : 0..MaxCommands]
    BY DEF Typed, TypeOK
  <2>2. budget' = [budget EXCEPT !.kernel = @ - 1] /\ budget.kernel > 0
    BY <1>k DEF KernelStep
  <2>3. budget.kernel - 1 \in 0..MaxKernelSteps
    BY <2>1, <2>2, ConntrackAssumption
  <2> QED BY <2>1, <2>2, <2>3
<1>1. ASSUME NEW c \in Conns, KernelNew(c) PROVE Typed'
  <2>1. table' \in [DOMAIN table' -> Entry] /\ DOMAIN table' \subseteq Conns
    BY <1>1, ConntrackAssumption, CounterModAssumption DEF KernelNew, Typed, TypeOK, Entry, Counter
  <2>2. Emit("NEW", c) /\ KernelStep
    BY <1>1 DEF KernelNew
  <2> QED BY <1>k, <2>1, <2>2, EmitTypes DEF KernelStep, Typed, TypeOK
<1>2. ASSUME NEW c \in Conns, KernelDestroy(c) PROVE Typed'
  <2>1. table' \in [DOMAIN table' -> Entry] /\ DOMAIN table' \subseteq Conns
    BY <1>2 DEF KernelDestroy, Typed, TypeOK
  <2>2. Emit("DESTROY", c) /\ KernelStep
    BY <1>2 DEF KernelDestroy
  <2> QED BY <1>k, <2>1, <2>2, EmitTypes DEF KernelStep, Typed, TypeOK
<1>3. ASSUME NEW c \in Conns, KernelTraffic(c) PROVE Typed'
  <2>1. \A x \in Counter : (x + 1) % CounterMod \in Counter
    BY CounterModAssumption DEF Counter
  <2>2. table' \in [DOMAIN table' -> Entry] /\ DOMAIN table' \subseteq Conns
    BY <1>3, <2>1, ConntrackAssumption DEF KernelTraffic, Typed, TypeOK, Entry
  <2> QED BY <1>3, <1>k, <2>2 DEF KernelTraffic, KernelStep, Typed, TypeOK
<1>4. ASSUME PollSocket PROVE Typed'
  BY <1>4 DEF PollSocket, Typed, TypeOK
<1>5. ASSUME EventPollHandler PROVE Typed'
  BY <1>5 DEF EventPollHandler, Typed, TypeOK
<1>6. ASSUME EventCallback PROVE Typed'
  <2>1. /\ socket \in Seq(Event) /\ eventQueue \in Seq(Event) /\ socket # <<>>
        /\ known \subseteq Conns /\ Len(socket) <= SocketCapacity
    BY <1>6 DEF EventCallback, Typed, TypeOK
  <2>2. Tail(socket) \in Seq(Event) /\ Len(Tail(socket)) <= SocketCapacity
    BY <2>1, ConntrackAssumption
  <2>3. Head(socket) \in Event /\ Head(socket).conn \in Conns
    <3>1. Head(socket) \in Event
      BY <2>1
    <3> QED BY <3>1 DEF Event
  <2>4. /\ eventQueue' \in Seq(Event) /\ known \subseteq known' /\ known' \subseteq Conns
        /\ \A i \in DOMAIN eventQueue' : eventQueue'[i].conn \in known'
    <3>1. \/ UNCHANGED <<eventQueue, known>>
          \/ eventQueue' = Append(eventQueue, Head(socket)) /\ known' = known \cup {Head(socket).conn}
      BY <1>6 DEF EventCallback, handleEvent
    <3>2. CASE UNCHANGED <<eventQueue, known>>
      BY <2>1, <3>2 DEF Typed
    <3>3. CASE eventQueue' = Append(eventQueue, Head(socket)) /\ known' = known \cup {Head(socket).conn}
      <4>1. \A i \in DOMAIN eventQueue' : \/ i \in DOMAIN eventQueue /\ eventQueue'[i] = eventQueue[i]
                                          \/ eventQueue'[i] = Head(socket)
        BY <2>1, <2>3, <3>3
      <4> QED BY <2>1, <2>3, <3>3, <4>1 DEF Typed
    <3> QED BY <3>1, <3>2, <3>3
  <2>5. congested' \in BOOLEAN
    BY <1>6, Zenon DEF EventCallback, Typed, TypeOK
  <2> QED BY <1>6, <2>2, <2>4, <2>5 DEF EventCallback, Typed, TypeOK
<1>7. ASSUME EventPollHandlerDone PROVE Typed'
  BY <1>7 DEF EventPollHandlerDone, Caught, Typed, TypeOK
<1>8. ASSUME onUpdate PROVE Typed'
  <2>1. DOMAIN EmptyStorage = {} /\ EmptyStorage \in [{} -> Data]
    BY DEF EmptyStorage
  <2>2. <<>> \in Seq(Event) /\ <<>> \in Seq(Item) /\ DOMAIN <<>> = {}
    OBVIOUS
  <2> QED BY <1>8, <2>1, <2>2 DEF onUpdate, clear, Typed, TypeOK
<1>9. ASSUME applyEvent PROVE Typed'
  <2> DEFINE e == Head(eventQueue)
  <2>1. eventQueue \in Seq(Event) /\ eventQueue # <<>> /\ known \subseteq Conns
    BY <1>9 DEF applyEvent, Typed, TypeOK
  <2>2. e.conn \in known
    BY <2>1 DEF Typed
  <2>3. /\ Tail(eventQueue) \in Seq(Event)
        /\ \A i \in DOMAIN Tail(eventQueue) : Tail(eventQueue)[i].conn \in known
    BY <2>1 DEF Typed
  <2>4. add(e.conn, NewData) \/ remove(e.conn)
    BY <1>9 DEF applyEvent
  <2>5. DOMAIN storage' \subseteq known /\ storage' \in [DOMAIN storage' -> Data] /\ items' \in Seq(Item)
    BY <2>1, <2>2, <2>4, AddTypes, RemoveTypes, DataTypes
  <2>6. \A i \in DOMAIN items' : IsItem(items'[i])
    BY <2>5, ItemIsItem
  <2> QED BY <1>9, <2>3, <2>5, <2>6 DEF applyEvent, Typed, TypeOK
<1>10. ASSUME dump PROVE Typed'
  BY <1>10 DEF dump, Typed, TypeOK
<1>11. ASSUME NEW c \in Conns, handleQuery(c) PROVE Typed'
  <2>1. /\ known \subseteq known' /\ known' \subseteq Conns
        /\ DOMAIN storage' \subseteq known' /\ storage' \in [DOMAIN storage' -> Data]
        /\ items' \in Seq(Item)
    <3>1. CASE c \notin DOMAIN table
      BY <1>11, <3>1 DEF handleQuery, Typed, TypeOK
    <3>2. CASE c \in DOMAIN table /\ isRefillRequired
      <4>1. add(c, FilledData(table[c])) /\ known' = known \cup {c}
        BY <1>11, <3>2 DEF handleQuery, QueryEntry
      <4>2. FilledData(table[c]) \in Data /\ known' \in SUBSET Conns
        BY <3>2, <4>1, DataTypes DEF Typed, TypeOK
      <4> QED BY <4>1, <4>2, AddTypes
    <3>3. CASE c \in DOMAIN table /\ ~isRefillRequired /\ c \in DOMAIN storage
      <4>1. update(c) /\ known' = known
        BY <1>11, <3>3 DEF handleQuery, QueryEntry
      <4> QED BY <3>3, <4>1, UpdateTypes DEF Typed, TypeOK
    <3>4. CASE c \in DOMAIN table /\ ~isRefillRequired /\ c \notin DOMAIN storage
      BY <1>11, <3>4 DEF handleQuery, QueryEntry, Typed, TypeOK
    <3> QED BY <3>1, <3>2, <3>3, <3>4
  <2>2. \A i \in DOMAIN items' : IsItem(items'[i])
    BY <2>1, ItemIsItem
  <2> QED BY <1>11, <2>1, <2>2 DEF handleQuery, Typed, TypeOK
<1>12. ASSUME updateDone PROVE Typed'
  <2>1. <<>> \in Seq(Item) /\ DOMAIN <<>> = {}
    OBVIOUS
  <2>2. serialized' \in [isEmpty : BOOLEAN, items : Seq(Item)]
    BY <1>12, <2>1 DEF updateDone, Difference, NoDifference, Typed
  <2>3. \A i \in DOMAIN serialized'.items : IsItem(serialized'.items[i])
    BY <2>2, ItemIsItem
  <2> QED BY <1>12, <2>1, <2>2, <2>3 DEF updateDone, Typed, TypeOK
<1>13. ASSUME Fail PROVE Typed'
  BY <1>13 DEF Fail, Typed, TypeOK
<1>14. ASSUME setSerializationEnabled PROVE Typed'
  BY <1>14 DEF setSerializationEnabled, Typed, TypeOK
<1>15. ASSUME setPaused PROVE Typed'
  <2>1. budget \in [kernel : 0..MaxKernelSteps, commands : 0..MaxCommands]
    BY DEF Typed, TypeOK
  <2>2. budget' = [budget EXCEPT !.commands = @ - 1] /\ budget.commands > 0
    BY <1>15 DEF setPaused
  <2>3. budget' \in [kernel : 0..MaxKernelSteps, commands : 0..MaxCommands]
    BY <2>1, <2>2, ConntrackAssumption
  <2> QED BY <1>15, <2>3 DEF setPaused, Typed, TypeOK
<1>16. ASSUME UNCHANGED vars PROVE Typed'
  BY <1>16 DEF vars, Typed, TypeOK
<1> QED
  BY <1>1, <1>2, <1>3, <1>4, <1>5, <1>6, <1>7, <1>8, <1>9, <1>10, <1>11, <1>12, <1>13, <1>14, <1>15,
     <1>16 DEF Next, Query

LEMMA TypedAlways == Spec => []Typed
BY TypedInit, TypedStep, PTL DEF Spec

(***************************************************************************)
(* The types of Conntrack hold in every state; in particular the speed is  *)
(* a counter even if the connection was replaced, only known connections   *)
(* are stored, and the socket never holds more than it can.                *)
(***************************************************************************)
THEOREM TypeCorrect == Spec => []TypeOK
<1>1. Typed => TypeOK
  BY DEF Typed
<1> QED BY <1>1, TypedAlways, PTL

-----------------------------------------------------------------------------
(***************************************************************************)
(* The storage follows the table.  StorageFollowsTable says nothing about  *)
(* a refill, where it is established connection by connection:             *)
(*   - CaughtUp connections follow: all of them unless a refill is due,    *)
(*     and during a refill those the dump has come to;                     *)
(*   - of a connection mentioned in the socket the last event there tells  *)
(*     whether it is in the table (so that an event older than the refill  *)
(*     does no harm);                                                      *)
(*   - a refill has no queued events, and no entries but those of the dump.*)
(***************************************************************************)
CaughtUp(c) == ~isRefillRequired \/ (activity = "dump" /\ c \notin todo)

AllFollow == failed = "no" /\ ~overrun => \A c \in Conns \ suspect : CaughtUp(c) => Follows(c)

SocketAgrees ==
    \A c \in Conns \ suspect : Mentions(socket, c) => (LastIs(socket, c, "NEW") <=> c \in DOMAIN table)

RefillIsClean ==
    /\ activity # "dump" => todo = {}
    /\ activity = "dump" => eventQueue = <<>>
    /\ activity = "dump" /\ isRefillRequired => DOMAIN storage \cap todo = {}
    /\ activity = "events" /\ isRefillRequired => eventQueue = <<>> /\ DOMAIN storage = {}

FollowInv == AllFollow /\ SocketAgrees /\ RefillIsClean

LEMMA FollowInit == Init => FollowInv
BY AfterEmpty DEF Init, FollowInv, AllFollow, SocketAgrees, RefillIsClean, CaughtUp

(***************************************************************************)
(* The kernel changes c and reports it, or drops the report.               *)
(***************************************************************************)
LEMMA KernelFollows ==
    ASSUME Typed, FollowInv, NEW c \in Conns, NEW type \in {"NEW", "DESTROY"}, KernelStep, Emit(type, c),
           c \in DOMAIN table' <=> type = "NEW",
           \A d \in Conns \ {c} : d \in DOMAIN table' <=> d \in DOMAIN table
    PROVE  FollowInv'
<1> DEFINE e == [type |-> type, conn |-> c]
<1>1. socket \in Seq(Event) /\ eventQueue \in Seq(Event) /\ e \in Event /\ e.conn = c /\ e.type = type
  BY DEF Typed, TypeOK, Event
<1>2. UNCHANGED <<eventQueue, isRefillRequired, storage, todo, activity, failed>>
  BY DEF KernelStep
<1>3. RefillIsClean'
  BY <1>2 DEF FollowInv, RefillIsClean
<1> HIDE DEF e
<1>4. CASE socket' = Append(socket, e) /\ UNCHANGED <<overrun, suspect>>
  <2>1. SocketAgrees'
    BY <1>1, <1>4, AfterAppend DEF FollowInv, SocketAgrees
  <2>2. ASSUME NEW d \in Conns, Follows(d)
        PROVE  Follows(d)'
    <3> DEFINE q == eventQueue \o socket
               was == d \in DOMAIN storage
    <3>1. q \in Seq(Event) /\ q' = Append(q, e) /\ was' = was
      BY <1>1, <1>2, <1>4
    <3> HIDE DEF q, was
    <3>2. /\ Mentions(Append(q, e), d) <=> c = d \/ Mentions(q, d)
          /\ c = d => (LastIs(Append(q, e), d, "NEW") <=> type = "NEW")
          /\ c # d => (LastIs(Append(q, e), d, "NEW") <=> LastIs(q, d, "NEW"))
      BY <1>1, <3>1, AfterAppend
    <3>3. After(q, d, was)' <=> IF c = d THEN type = "NEW" ELSE After(q, d, was)
      BY <3>1, <3>2 DEF After
    <3> QED BY <2>2, <3>3 DEF Follows, q, was
  <2>3. AllFollow'
    BY <1>2, <1>4, <2>2 DEF FollowInv, AllFollow, CaughtUp
  <2> QED BY <1>3, <2>1, <2>3 DEF FollowInv
<1>5. CASE /\ UNCHANGED socket
           /\ suspect' = IF Mentions(socket, c) \/ ~overrun' THEN suspect \cup {c} ELSE suspect
           /\ overrun' = (overrun \/ ~congested)
  <2>1. SocketAgrees'
    BY <1>5 DEF FollowInv, SocketAgrees
  <2>2. ASSUME NEW d \in Conns, d # c, Follows(d)
        PROVE  Follows(d)'
    BY <1>2, <1>5, <2>2 DEF Follows, After
  <2>3. ~overrun' => ~overrun /\ c \in suspect' /\ suspect \subseteq suspect'
    BY <1>5
  <2>4. AllFollow'
    BY <1>2, <2>2, <2>3 DEF FollowInv, AllFollow, CaughtUp
  <2> QED BY <1>3, <2>1, <2>4 DEF FollowInv
<1> QED BY <1>4, <1>5 DEF Emit, e

(***************************************************************************)
(* Steps that change nothing of what Follows is about.                     *)
(***************************************************************************)
LEMMA FollowsUnchanged ==
    ASSUME NEW c, UNCHANGED <<eventQueue, socket>>,
           c \in DOMAIN storage' <=> c \in DOMAIN storage, c \in DOMAIN table' <=> c \in DOMAIN table
    PROVE  Follows(c)' <=> Follows(c)
BY DEF Follows, After

(***************************************************************************)
(* An event moves from the socket to the queue.  If it is not queued, its  *)
(* connection is unknown and hence not stored: it says DESTROY, and the    *)
(* connection is not there anyway.                                         *)
(***************************************************************************)
LEMMA CallbackFollows ==
    ASSUME Typed, EventCallback, ~isRefillRequired, NEW c \in Conns, Follows(c)
    PROVE  Follows(c)'
<1> DEFINE e == Head(socket)
           was == c \in DOMAIN storage
<1>1. /\ socket \in Seq(Event) /\ socket # <<>> /\ eventQueue \in Seq(Event)
      /\ UNCHANGED <<table, storage>> /\ socket' = Tail(socket) /\ handleEvent(e)
  BY DEF Typed, TypeOK, EventCallback
<1>2. e \in Event /\ Tail(socket) \in Seq(Event)
  BY <1>1
<1>3. After(eventQueue \o socket, c, was) <=> After(socket, c, After(eventQueue, c, was))
  BY <1>1, AfterConcat, LastIsMentioned DEF After
<1>4. CASE eventQueue' = Append(eventQueue, e)
  <2>1. Append(eventQueue, e) \in Seq(Event)
    BY <1>1, <1>2
  <2>2. After(Append(eventQueue, e) \o Tail(socket), c, was)
          <=> After(Tail(socket), c, After(Append(eventQueue, e), c, was))
    BY <1>2, <2>1, AfterConcat, LastIsMentioned DEF After
  <2>3. After(socket, c, After(eventQueue, c, was))
          <=> After(Tail(socket), c, After(Append(eventQueue, e), c, was))
    BY <1>1, <1>2, AfterAppend, AfterTail, LastIsMentioned DEF After
  <2> QED BY <1>1, <1>3, <1>4, <2>2, <2>3 DEF Follows
<1>5. CASE UNCHANGED eventQueue /\ e.type # "NEW" /\ e.conn \notin known
  <2>1. After(eventQueue \o Tail(socket), c, was) <=> After(Tail(socket), c, After(eventQueue, c, was))
    BY <1>1, <1>2, AfterConcat, LastIsMentioned DEF After
  <2>2. e.conn = c => ~Mentions(eventQueue, c) /\ ~was
    BY <1>5 DEF Mentions, Typed, TypeOK
  <2>3. After(socket, c, After(eventQueue, c, was)) <=> After(Tail(socket), c, After(eventQueue, c, was))
    BY <1>1, <1>5, <2>2, AfterTail, LastIsMentioned DEF After
  <2> QED BY <1>1, <1>3, <1>5, <2>1, <2>3 DEF Follows
<1> QED BY <1>1, <1>4, <1>5 DEF handleEvent

(***************************************************************************)
(* A queued event is applied to the storage.                               *)
(***************************************************************************)
LEMMA ApplyFollows ==
    ASSUME Typed, applyEvent, NEW c \in Conns, Follows(c)
    PROVE  Follows(c)'
<1> DEFINE e == Head(eventQueue)
           was == c \in DOMAIN storage
           is == c \in DOMAIN storage'
<1>1. /\ socket \in Seq(Event) /\ eventQueue # <<>> /\ eventQueue \in Seq(Event)
      /\ UNCHANGED <<table, socket>> /\ eventQueue' = Tail(eventQueue)
  BY DEF Typed, TypeOK, applyEvent, kernel
<1>2. Tail(eventQueue) \in Seq(Event)
  BY <1>1
<1>3. is <=> IF e.conn = c THEN e.type = "NEW" ELSE was
  BY DEF applyEvent, add, remove, addConnection, removeConnection
<1>4. After(eventQueue, c, was) <=> After(Tail(eventQueue), c, is)
  BY <1>1, <1>3, AfterTail, LastIsMentioned DEF After
<1>5. After(eventQueue \o socket, c, was) <=> After(socket, c, After(eventQueue, c, was))
  BY <1>1, AfterConcat, LastIsMentioned DEF After
<1>6. After(Tail(eventQueue) \o socket, c, is) <=> After(socket, c, After(Tail(eventQueue), c, is))
  BY <1>1, <1>2, AfterConcat, LastIsMentioned DEF After
<1>7. After(socket, c, After(eventQueue, c, was)) <=> After(socket, c, After(Tail(eventQueue), c, is))
  BY <1>4 DEF After
<1> QED BY <1>1, <1>5, <1>6, <1>7 DEF Follows

(***************************************************************************)
(* The dump of a refill comes to c: the storage takes c from the table; an *)
(* event of c that is still in the socket agrees with the table, unless c  *)
(* is suspect.                                                             *)
(***************************************************************************)
LEMMA RefillFollows ==
    ASSUME Typed, FollowInv, NEW c \in Conns, handleQuery(c), isRefillRequired, c \notin suspect'
    PROVE  Follows(c)'
<1>1. activity = "dump" /\ eventQueue = <<>> /\ c \notin DOMAIN storage
  BY DEF handleQuery, FollowInv, RefillIsClean
<1>2. UNCHANGED <<table, socket, eventQueue>>
  BY DEF handleQuery, kernel
<1>3. c \in DOMAIN storage' <=> c \in DOMAIN table
  BY <1>1 DEF handleQuery, QueryEntry, add, addConnection
<1>4. Mentions(socket, c) => (LastIs(socket, c, "NEW") <=> c \in DOMAIN table)
  BY DEF handleQuery, FollowInv, SocketAgrees
<1>5. eventQueue \o socket = socket
  BY <1>1 DEF Typed, TypeOK
<1> QED BY <1>2, <1>3, <1>4, <1>5, LastIsMentioned DEF Follows, After

(***************************************************************************)
(* Every step keeps the invariant.                                         *)
(***************************************************************************)
LEMMA FollowStep == Typed /\ FollowInv /\ [Next]_vars => FollowInv'
<1> SUFFICES ASSUME Typed, FollowInv, [Next]_vars PROVE FollowInv'
  OBVIOUS
<1> USE DEF kernel, server
<1>1. ASSUME NEW c \in Conns, KernelNew(c) PROVE FollowInv'
  <2>1. KernelStep /\ Emit("NEW", c) /\ DOMAIN table' = DOMAIN table \cup {c}
    BY <1>1 DEF KernelNew
  <2> QED BY <2>1, KernelFollows
<1>2. ASSUME NEW c \in Conns, KernelDestroy(c) PROVE FollowInv'
  <2>1. KernelStep /\ Emit("DESTROY", c) /\ DOMAIN table' = DOMAIN table \ {c}
    BY <1>2 DEF KernelDestroy
  <2> QED BY <2>1, KernelFollows
<1>3. ASSUME DOMAIN table' = DOMAIN table, DOMAIN storage' = DOMAIN storage,
             UNCHANGED <<socket, overrun, eventQueue, isRefillRequired, todo, activity, failed, suspect>>
      PROVE  FollowInv'
  <2>1. \A c \in Conns : Follows(c)' <=> Follows(c)
    BY <1>3, FollowsUnchanged
  <2> QED BY <1>3, <2>1 DEF FollowInv, AllFollow, SocketAgrees, RefillIsClean, CaughtUp
<1>4. ASSUME NEW c \in Conns, KernelTraffic(c) PROVE FollowInv'
  <2>1. DOMAIN table' = DOMAIN table
    BY <1>4 DEF KernelTraffic
  <2> QED BY <1>3, <1>4, <2>1 DEF KernelTraffic, KernelStep
<1>5. ASSUME PollSocket PROVE FollowInv'
  BY <1>3, <1>5 DEF PollSocket
<1>6. ASSUME EventPollHandler PROVE FollowInv'
  <2>1. \A c \in Conns : Follows(c)' <=> Follows(c)
    BY <1>6, FollowsUnchanged DEF EventPollHandler
  <2> QED BY <1>6, <2>1 DEF EventPollHandler, MainIdle, FollowInv, AllFollow, SocketAgrees, RefillIsClean, CaughtUp
<1>7. ASSUME EventCallback PROVE FollowInv'
  <2>1. /\ socket \in Seq(Event) /\ socket # <<>> /\ socket' = Tail(socket) /\ activity = "catch"
        /\ UNCHANGED <<table, overrun, isRefillRequired, storage, todo, activity, failed, suspect>>
    BY <1>7 DEF EventCallback, Typed, TypeOK
  <2>2. SocketAgrees'
    BY <2>1, AfterTail DEF FollowInv, SocketAgrees
  <2>3. RefillIsClean'
    BY <2>1 DEF FollowInv, RefillIsClean
  <2>4. AllFollow'
    BY <1>7, <2>1, CallbackFollows DEF FollowInv, AllFollow, CaughtUp
  <2> QED BY <2>2, <2>3, <2>4 DEF FollowInv
<1>8. ASSUME EventPollHandlerDone PROVE FollowInv'
  <2>1. /\ UNCHANGED <<table, socket, eventQueue, storage, todo>>
        /\ activity = "catch" /\ activity' = "idle" /\ failed = "no"
    BY <1>8 DEF EventPollHandlerDone
  <2>2. RefillIsClean'
    BY <2>1 DEF FollowInv, RefillIsClean
  <2>3. CASE overrun
    <3>1. isRefillRequired' /\ UNCHANGED suspect
      BY <1>8, <2>3 DEF EventPollHandlerDone, Caught
    <3> QED BY <2>1, <2>2, <3>1 DEF FollowInv, AllFollow, SocketAgrees, CaughtUp
  <2>4. CASE ~overrun
    <3>1. /\ socket = <<>> /\ UNCHANGED isRefillRequired
          /\ suspect' = IF isRefillRequired THEN {} ELSE suspect
      BY <1>8, <2>4 DEF EventPollHandlerDone, Caught
    <3>2. SocketAgrees'
      BY <2>1, <3>1, AfterEmpty DEF SocketAgrees
    <3>3. \A c \in Conns : Follows(c)' <=> Follows(c)
      BY <2>1, FollowsUnchanged
    <3>4. AllFollow'
      BY <2>1, <2>4, <3>1, <3>3 DEF FollowInv, AllFollow, CaughtUp
    <3> QED BY <2>2, <3>2, <3>4 DEF FollowInv
  <2> QED BY <2>3, <2>4
<1>9. ASSUME onUpdate PROVE FollowInv'
  <2>1. /\ UNCHANGED <<table, socket, overrun, isRefillRequired, todo, failed, suspect>>
        /\ activity = "idle" /\ activity' = "events"
    BY <1>9 DEF onUpdate, MainIdle
  <2>2. isRefillRequired => eventQueue' = <<>> /\ DOMAIN storage' = {}
    BY <1>9 DEF onUpdate, clear, EmptyStorage
  <2>3. ~isRefillRequired => UNCHANGED <<eventQueue, storage>>
    BY <1>9 DEF onUpdate
  <2>4. ~isRefillRequired => \A c \in Conns : Follows(c)' <=> Follows(c)
    BY <2>1, <2>3, FollowsUnchanged
  <2> QED BY <2>1, <2>2, <2>4 DEF FollowInv, AllFollow, SocketAgrees, RefillIsClean, CaughtUp
<1>10. ASSUME applyEvent PROVE FollowInv'
  <2>1. /\ UNCHANGED <<table, socket, overrun, isRefillRequired, todo, activity, failed, suspect>>
        /\ activity = "events" /\ eventQueue # <<>>
    BY <1>10 DEF applyEvent
  <2>2. ~isRefillRequired
    BY <2>1 DEF FollowInv, RefillIsClean
  <2> QED BY <1>10, <2>1, <2>2, ApplyFollows DEF FollowInv, AllFollow, SocketAgrees, RefillIsClean, CaughtUp
<1>11. ASSUME dump PROVE FollowInv'
  <2>1. \A c \in Conns : Follows(c)' <=> Follows(c)
    BY <1>11, FollowsUnchanged DEF dump
  <2> QED BY <1>11, <2>1 DEF dump, FollowInv, AllFollow, SocketAgrees, RefillIsClean, CaughtUp
<1>12. ASSUME NEW c \in Conns, handleQuery(c) PROVE FollowInv'
  <2>1. /\ UNCHANGED <<table, socket, overrun, isRefillRequired, eventQueue, activity, failed>>
        /\ c \in todo /\ todo' = todo \ {c}
        /\ suspect' = IF isRefillRequired /\ ~Mentions(socket, c) THEN suspect \ {c} ELSE suspect
    BY <1>12 DEF handleQuery
  <2>2. \A d \in Conns \ {c} : d \in DOMAIN storage' <=> d \in DOMAIN storage
    BY <1>12 DEF handleQuery, QueryEntry, add, update, addConnection
  <2>3. ~isRefillRequired => (c \in DOMAIN storage' <=> c \in DOMAIN storage)
    BY <1>12 DEF handleQuery, QueryEntry, update
  <2>4. \A d \in Conns \ {c} : Follows(d)' <=> Follows(d)
    BY <2>1, <2>2, FollowsUnchanged
  <2>5. ~isRefillRequired => (Follows(c)' <=> Follows(c))
    BY <2>1, <2>3, FollowsUnchanged
  <2>6. isRefillRequired /\ c \notin suspect' => Follows(c)'
    BY <1>12, RefillFollows
  <2>7. AllFollow'
    <3> SUFFICES ASSUME (failed = "no" /\ ~overrun)', NEW d \in (Conns \ suspect)', CaughtUp(d)'
                 PROVE  Follows(d)'
      BY DEF AllFollow
    <3>1. CASE d # c
      BY <2>1, <2>4, <3>1 DEF FollowInv, AllFollow, CaughtUp
    <3>2. CASE d = c
      BY <2>1, <2>5, <2>6, <3>2 DEF FollowInv, AllFollow, CaughtUp
    <3> QED BY <3>1, <3>2
  <2>8. SocketAgrees'
    BY <2>1 DEF FollowInv, SocketAgrees
  <2>9. RefillIsClean'
    <3>1. DOMAIN storage' \subseteq DOMAIN storage \cup {c}
      BY <1>12 DEF handleQuery, QueryEntry, add, update, addConnection
    <3>2. activity = "dump"
      BY <2>1 DEF FollowInv, RefillIsClean
    <3> QED BY <2>1, <3>1, <3>2 DEF FollowInv, RefillIsClean
  <2> QED BY <2>7, <2>8, <2>9 DEF FollowInv
<1>13. ASSUME updateDone PROVE FollowInv'
  <2>1. \A c \in Conns : Follows(c)' <=> Follows(c)
    BY <1>13, FollowsUnchanged DEF updateDone
  <2> QED BY <1>13, <2>1 DEF updateDone, FollowInv, AllFollow, SocketAgrees, RefillIsClean, CaughtUp
<1>14. ASSUME Fail PROVE FollowInv'
  BY <1>14 DEF Fail, FollowInv, AllFollow, SocketAgrees, RefillIsClean
<1>15. ASSUME setSerializationEnabled PROVE FollowInv'
  BY <1>3, <1>15 DEF setSerializationEnabled
<1>16. ASSUME setPaused PROVE FollowInv'
  BY <1>16 DEF setPaused, MainIdle, FollowInv, AllFollow, SocketAgrees, RefillIsClean, CaughtUp
<1>17. ASSUME UNCHANGED vars PROVE FollowInv'
  BY <1>3, <1>17 DEF vars
<1> QED
  BY <1>1, <1>2, <1>4, <1>5, <1>6, <1>7, <1>8, <1>9, <1>10, <1>11, <1>12, <1>13, <1>14, <1>15, <1>16,
     <1>17 DEF Next, Query

(***************************************************************************)
(* The storage follows the kernel's table, in every order of events,       *)
(* dumps, overruns and pauses, for any table and any capacity of the event *)
(* socket (Conntrack::onUpdate, EventPollHandler, m_isRefillRequired).     *)
(***************************************************************************)
THEOREM FollowsCorrect == Spec => []StorageFollowsTable
<1>1. FollowInv => StorageFollowsTable
  BY DEF FollowInv, AllFollow, CaughtUp, StorageFollowsTable
<1> QED BY <1>1, TypedAlways, FollowInit, FollowStep, PTL DEF Spec

-----------------------------------------------------------------------------
(***************************************************************************)
(* A difference reproduces the storage.  While an update is under way, the *)
(* items recorded so far lead from the storage before it to the storage as *)
(* it is.  The states in between, one per item, are bound by an            *)
(* existential quantifier: recording an item adds one to them.             *)
(***************************************************************************)
IsReplay(f, from, q) ==
    f = [n \in 0..Len(q) |-> IF n = 0 THEN from ELSE Deserialize(f[n - 1], q[n])]

Leads(from, q, to) == \E f : IsReplay(f, from, q) /\ f[Len(q)] = to

\* A nonempty set of naturals has a least element.
LEMMA NaturalMinimum ==
    ASSUME NEW U, U \subseteq Nat, U # {}
    PROVE  \E x \in U : \A y \in U : ~(y < x)
<1> DEFINE Less == {ss \in Nat \X Nat : ss[1] < ss[2]}
<1>1. IsWellFoundedOn(Less, Nat)
  BY NatLessThanWellFounded DEF OpToRel
<1>2. PICK x \in U : \A y \in U : ~(<<y, x>> \in Less)
  <2> HIDE DEF Less
  <2> QED BY <1>1, WFMin
<1> QED BY <1>2

\* The states in between are determined.
LEMMA ReplayIsUnique ==
    ASSUME NEW T, NEW q \in Seq(T), NEW from, NEW f, IsReplay(f, from, q), NEW g, IsReplay(g, from, q)
    PROVE  f[Len(q)] = g[Len(q)]
<1>1. /\ Len(q) \in Nat
      /\ \A n \in 0..Len(q) : f[n] = IF n = 0 THEN from ELSE Deserialize(f[n - 1], q[n])
      /\ \A n \in 0..Len(q) : g[n] = IF n = 0 THEN from ELSE Deserialize(g[n - 1], q[n])
  <2>1. Len(q) \in Nat
    OBVIOUS
  <2>2. \A n \in 0..Len(q) : f[n] = IF n = 0 THEN from ELSE Deserialize(f[n - 1], q[n])
    BY IsReplay(f, from, q) DEF IsReplay
  <2>3. \A n \in 0..Len(q) : g[n] = IF n = 0 THEN from ELSE Deserialize(g[n - 1], q[n])
    BY IsReplay(g, from, q) DEF IsReplay
  <2> QED BY ONLY <2>1, <2>2, <2>3
<1>2. PICK U : U = {n \in 0..Len(q) : f[n] # g[n]}
  OBVIOUS
<1>3. ASSUME U # {} PROVE FALSE
  <2>1. U \subseteq Nat
    BY <1>1, <1>2
  <2>2. PICK x \in U : \A y \in U : ~(y < x)
    BY ONLY <1>3, <2>1, NaturalMinimum
  <2>3. x \in 0..Len(q) /\ f[x] # g[x]
    BY <1>2
  <2>4. x # 0
    BY <1>1, <2>3
  <2>5. x - 1 \in 0..Len(q) /\ x - 1 < x
    BY <1>1, <2>3, <2>4
  <2>6. x - 1 \notin U
    BY <2>2, <2>5
  <2>7. f[x - 1] = g[x - 1]
    BY <1>2, <2>5, <2>6
  <2> QED BY <1>1, <2>3, <2>4, <2>7
<1>4. Len(q) \in 0..Len(q)
  BY <1>1
<1> QED BY <1>2, <1>3, <1>4

\* Where the items lead is what Replay computes.
LEMMA ReplayIs ==
    ASSUME NEW T, NEW q \in Seq(T), NEW from, NEW to, Leads(from, q, to)
    PROVE  Replay(from, q) = to
<1>1. PICK f : IsReplay(f, from, q) /\ f[Len(q)] = to
  BY DEF Leads
<1>2. PICK g : g = CHOOSE h : IsReplay(h, from, q)
  OBVIOUS
<1>3. IsReplay(g, from, q)
  BY <1>1, <1>2
<1>4. Replay(from, q) = g[Len(q)]
  BY <1>2, Zenon DEF Replay, IsReplay
<1>5. f[Len(q)] = g[Len(q)]
  BY ONLY <1>1, <1>3, q \in Seq(T), ReplayIsUnique
<1> QED BY <1>1, <1>4, <1>5

\* No items lead nowhere.
LEMMA LeadsNowhere ==
    ASSUME NEW from
    PROVE  Leads(from, <<>>, from)
<1>1. PICK f : f = [n \in 0..0 |-> from]
  OBVIOUS
<1>2. Len(<<>>) = 0
  OBVIOUS
<1>3. IsReplay(f, from, <<>>)
  BY <1>1, <1>2 DEF IsReplay
<1>4. f[0] = from
  BY <1>1
<1> QED BY <1>2, <1>3, <1>4 DEF Leads

\* One more item leads one step further.
LEMMA LeadsOn ==
    ASSUME NEW T, NEW q \in Seq(T), NEW x \in T, NEW from, NEW to, Leads(from, q, to)
    PROVE  Leads(from, Append(q, x), Deserialize(to, x))
<1>1. PICK f : IsReplay(f, from, q) /\ f[Len(q)] = to
  BY DEF Leads
<1>2. PICK m, r : m = Len(q) /\ r = Append(q, x)
  OBVIOUS
<1>3. m \in Nat /\ Len(r) = m + 1 /\ r[m + 1] = x /\ \A n \in 1..m : r[n] = q[n]
  BY <1>2
<1>4. PICK g : g = [n \in 0..m + 1 |-> IF n <= m THEN f[n] ELSE Deserialize(to, x)]
  OBVIOUS
<1>5. \A n \in 0..m : f[n] = IF n = 0 THEN from ELSE Deserialize(f[n - 1], q[n])
  BY <1>1, <1>2 DEF IsReplay
<1>6. ASSUME NEW n \in 0..m + 1 PROVE g[n] = IF n = 0 THEN from ELSE Deserialize(g[n - 1], r[n])
  <2>1. CASE n = 0
    BY <1>3, <1>4, <1>5, <2>1
  <2>2. CASE n \in 1..m
    <3>1. n - 1 \in 0..m + 1 /\ n - 1 <= m /\ n <= m /\ n # 0 /\ n \in 0..m
      BY <1>3, <2>2
    <3>2. g[n] = f[n] /\ g[n - 1] = f[n - 1] /\ r[n] = q[n]
      BY <1>3, <1>4, <2>2, <3>1
    <3> QED BY <1>5, <3>1, <3>2
  <2>3. CASE n = m + 1
    <3>1. m \in 0..m + 1 /\ n - 1 = m /\ n # 0 /\ ~(n <= m) /\ m <= m
      BY <1>3, <2>3
    <3>2. g[n] = Deserialize(to, x) /\ g[m] = f[m] /\ r[n] = x
      BY <1>3, <1>4, <2>3, <3>1
    <3> QED BY <1>1, <1>2, <3>1, <3>2
  <2>4. n = 0 \/ n \in 1..m \/ n = m + 1
    BY <1>3
  <2> QED BY <2>1, <2>2, <2>3, <2>4
<1>7. IsReplay(g, from, r)
  <2>1. g = [n \in 0..m + 1 |-> g[n]]
    BY <1>4
  <2>2. [n \in 0..m + 1 |-> g[n]] = [n \in 0..m + 1 |-> IF n = 0 THEN from ELSE Deserialize(g[n - 1], r[n])]
    BY ONLY <1>6
  <2> QED BY <1>3, <2>1, <2>2 DEF IsReplay
<1>8. g[Len(r)] = Deserialize(to, x)
  BY <1>3, <1>4
<1> QED BY <1>2, <1>7, <1>8 DEF Leads

\* A state comes back from its name, UNKNOWN too, which has none.
LEMMA StateComesBack ==
    ASSUME NEW state \in EState
    PROVE  StateToEnum(StateToString(state)) = state
<1>1. "?" \notin EState
  BY DEF EState, TCPStateToEnum, RawState
<1> QED BY <1>1 DEF StateToEnum, StateToString

\* What was written of data overwrites old by data, in the members written.
LEMMA WrittenComesBack ==
    ASSUME NEW data \in Data, NEW old \in Data, NEW flags \in SUBSET EConnectionUpdateFlags,
           NEW values, values = [f \in flags |-> Value(data, f)],
           "PROTO_STATE" \notin flags => old.state = data.state,
           "BYTES" \notin flags => old.bytes = data.bytes,
           "SPEED" \notin flags => old.speed = data.speed
    PROVE  Overwritten(old, values) = data
<1>1. DOMAIN values = flags
  OBVIOUS
<1>2. "PROTO_STATE" \in flags => StateToEnum(values["PROTO_STATE"]) = data.state
  <2>1. data.state \in EState
    BY DEF Data
  <2>2. Value(data, "PROTO_STATE") = StateToString(data.state)
    BY DEF Value
  <2> QED BY <2>1, <2>2, StateComesBack
<1>3. "BYTES" \in flags => values["BYTES"] = data.bytes
  BY DEF Value
<1>4. "SPEED" \in flags => values["SPEED"] = data.speed
  BY DEF Value
<1>5. Overwritten(old, values) = [state |-> data.state, bytes |-> data.bytes, speed |-> data.speed]
  BY <1>1, <1>2, <1>3, <1>4 DEF Overwritten
<1>6. data = [state |-> data.state, bytes |-> data.bytes, speed |-> data.speed]
  BY DEF Data
<1> QED BY <1>5, <1>6

\* What UpdateFlags leaves out has not changed, although it looks at differences modulo CounterMod.
LEMMA FlagsTellAll ==
    ASSUME NEW old \in Data, NEW entry \in Entry, NEW data, data = UpdatedData(old, entry),
           NEW flags, flags = UpdateFlags(old, entry)
    PROVE  /\ flags \in SUBSET EConnectionUpdateFlags
           /\ "PROTO_STATE" \notin flags => old.state = data.state
           /\ "BYTES" \notin flags => old.bytes = data.bytes
           /\ "SPEED" \notin flags => old.speed = data.speed
<1>1. PICK b, e, M : b = old.bytes /\ e = entry.bytes /\ M = CounterMod
  OBVIOUS
<1>2. M \in Nat \ {0} /\ b \in 0..M - 1 /\ e \in 0..M - 1
  BY <1>1, CounterModAssumption DEF Data, Entry, Counter
<1>3. (e - b) % M = 0 => b = e
  BY ONLY <1>2, SMTT(30)
<1>4. /\ data.state = TCPStateToEnum(entry.raw) /\ data.bytes = e /\ data.speed = (e - b) % M
  BY <1>1 DEF UpdatedData
<1>5. flags = {f \in EConnectionUpdateFlags :
                 \/ f = "PROTO_STATE" /\ old.state # TCPStateToEnum(entry.raw)
                 \/ f = "BYTES" /\ (e - b) % M # 0
                 \/ f = "SPEED" /\ (e - b) % M # old.speed}
  BY <1>1, Zenon DEF UpdateFlags, TCPStateIsEqual
<1>6. "PROTO_STATE" \notin flags => old.state = data.state
  BY <1>4, <1>5 DEF EConnectionUpdateFlags
<1>7. "BYTES" \notin flags => (e - b) % M = 0
  BY <1>5 DEF EConnectionUpdateFlags
<1>8. "SPEED" \notin flags => (e - b) % M = old.speed
  BY <1>5 DEF EConnectionUpdateFlags
<1> QED BY <1>1, <1>3, <1>4, <1>5, <1>6, <1>7, <1>8

\* What was recorded in the update that is under way, and what the last one left behind.
Updating == activity \in {"events", "dump"}

Recorded == IF serializing THEN Leads(before, items, storage) ELSE items = <<>>

RecordInv ==
    /\ Updating => Recorded
    /\ ~Updating => items = <<>>
    /\ ~Updating /\ ~serialized.isEmpty => Leads(before, serialized.items, storage)

\* A change of the storage that the item records.
LEMMA ItemLeads ==
    ASSUME Typed, Recorded, NEW x \in Item, before' = before, serializing' = serializing,
           items' = (IF serializing THEN Append(items, x) ELSE items), storage' = Deserialize(storage, x)
    PROVE  Recorded'
<1>1. items \in Seq(Item)
  BY DEF Typed
<1>2. CASE serializing
  <2>1. Leads(before, items, storage)
    BY <1>2 DEF Recorded
  <2>2. Leads(before, Append(items, x), Deserialize(storage, x))
    BY ONLY <1>1, <2>1, x \in Item, LeadsOn
  <2> QED BY <1>2, <2>2 DEF Recorded
<1>3. CASE ~serializing
  BY <1>3 DEF Recorded
<1> QED BY <1>2, <1>3

\* ConnectionUpdateSerializer::add
LEMMA AddLeads ==
    ASSUME Typed, Recorded, NEW c \in Conns, NEW data \in Data, add(c, data), before' = before,
           serializing' = serializing
    PROVE  Recorded'
<1>1. storage \in [DOMAIN storage -> Data]
  BY DEF Typed, TypeOK
<1>2. CASE c \in DOMAIN storage
  <2>1. storage' = storage
    BY <1>1, <1>2 DEF add, addConnection
  <2>2. items' = items
    BY <1>2 DEF add
  <2> QED BY <2>1, <2>2 DEF Recorded
<1>3. CASE c \notin DOMAIN storage
  <2>1. PICK x : x = serialize(c, data, "CREATE", {})
    OBVIOUS
  <2>2. x \in Item
    BY <2>1, SerializeType
  <2>3. x.action = "CREATE" /\ x.conn = c /\ x.values = [f \in EConnectionUpdateFlags |-> Value(data, f)]
    BY <2>1 DEF serialize
  <2>4. NewData \in Data
    BY DataTypes
  <2>5. PICK values : values = x.values
    OBVIOUS
  <2>6. Overwritten(NewData, values) = data
    <3>1. values = [f \in EConnectionUpdateFlags |-> Value(data, f)]
      BY <2>3, <2>5
    <3>2. {"PROTO_STATE", "BYTES", "SPEED"} \subseteq EConnectionUpdateFlags
      BY DEF EConnectionUpdateFlags
    <3> QED BY <2>4, <3>1, <3>2, WrittenComesBack
  <2>7. storage' = addConnection(storage, c, data)
    BY DEF add
  <2>8. Deserialize(storage, x) = addConnection(storage, c, data)
    BY <2>3, <2>5, <2>6 DEF Deserialize
  <2>9. items' = IF serializing THEN Append(items, x) ELSE items
    BY <1>3, <2>1 DEF add, Record
  <2> QED BY <2>2, <2>7, <2>8, <2>9, ItemLeads
<1> QED BY <1>2, <1>3

\* ConnectionUpdateSerializer::remove
LEMMA RemoveLeads ==
    ASSUME Typed, Recorded, NEW c \in Conns, remove(c), before' = before, serializing' = serializing
    PROVE  Recorded'
<1>1. storage \in [DOMAIN storage -> Data]
  BY DEF Typed, TypeOK
<1>2. CASE c \notin DOMAIN storage
  <2>1. storage' = storage
    BY <1>1, <1>2 DEF remove, removeConnection
  <2>2. items' = items
    BY <1>2 DEF remove
  <2> QED BY <2>1, <2>2 DEF Recorded
<1>3. CASE c \in DOMAIN storage
  <2>1. PICK x : x = serialize(c, storage[c], "REMOVE", {})
    OBVIOUS
  <2>2. x \in Item
    BY <1>1, <1>3, <2>1, SerializeType
  <2>3. x.action = "REMOVE" /\ x.conn = c
    BY <2>1 DEF serialize
  <2>4. storage' = Deserialize(storage, x)
    BY <2>3 DEF Deserialize, remove
  <2>5. items' = IF serializing THEN Append(items, x) ELSE items
    BY <1>3, <2>1 DEF remove, Record
  <2> QED BY <2>2, <2>4, <2>5, ItemLeads
<1> QED BY <1>2, <1>3

\* ConnectionUpdateSerializer::update
LEMMA UpdateLeads ==
    ASSUME Typed, Recorded, NEW c \in DOMAIN storage, c \in DOMAIN table, update(c), before' = before,
           serializing' = serializing
    PROVE  Recorded'
<1>1. PICK old, entry, data, flags :
        /\ old = storage[c] /\ entry = table[c] /\ data = UpdatedData(old, entry) /\ flags = UpdateFlags(old, entry)
  OBVIOUS
<1>2. /\ storage \in [DOMAIN storage -> Data] /\ DOMAIN storage \subseteq Conns
      /\ table \in [DOMAIN table -> Entry]
  BY DEF Typed, TypeOK
<1>3. old \in Data /\ entry \in Entry /\ c \in Conns
  BY <1>1, <1>2
<1>4. data \in Data
  BY <1>1, <1>3, DataTypes
<1>5. /\ flags \in SUBSET EConnectionUpdateFlags
      /\ "PROTO_STATE" \notin flags => old.state = data.state
      /\ "BYTES" \notin flags => old.bytes = data.bytes
      /\ "SPEED" \notin flags => old.speed = data.speed
  BY ONLY <1>1, <1>3, FlagsTellAll
<1>6. /\ storage' = [storage EXCEPT ![c] = data]
      /\ items' = IF flags # {} THEN Record(c, data, "UPDATE", flags) ELSE items
  BY <1>1, Zenon DEF update
<1>7. CASE flags = {}
  <2>1. data = old
    <3>1. old.state = data.state /\ old.bytes = data.bytes /\ old.speed = data.speed
      BY <1>5, <1>7
    <3> QED BY <1>3, <1>4, <3>1 DEF Data
  <2>2. storage' = storage
    BY <1>1, <1>2, <1>6, <2>1
  <2>3. items' = items
    BY <1>6, <1>7
  <2> QED BY <2>2, <2>3 DEF Recorded
<1>8. CASE flags # {}
  <2>1. PICK x, values : x = serialize(c, data, "UPDATE", flags) /\ values = x.values
    OBVIOUS
  <2>2. x \in Item
    BY <1>3, <1>4, <1>5, <2>1, SerializeType
  <2>3. x.action = "UPDATE" /\ x.conn = c /\ values = [f \in flags |-> Value(data, f)]
    BY <2>1 DEF serialize
  <2>4. Overwritten(old, values) = data
    BY ONLY <1>3, <1>4, <1>5, <2>3, WrittenComesBack
  <2>5. Deserialize(storage, x) = [storage EXCEPT ![c] = Overwritten(@, values)]
    BY <2>1, <2>3 DEF Deserialize
  <2>6. storage' = Deserialize(storage, x)
    BY <1>1, <1>6, <2>4, <2>5
  <2>7. items' = IF serializing THEN Append(items, x) ELSE items
    BY <1>6, <1>8, <2>1 DEF Record
  <2> QED BY <2>2, <2>6, <2>7, ItemLeads
<1> QED BY <1>7, <1>8

\* Nothing that a difference is about changes.
LEMMA RecordUnchanged ==
    ASSUME RecordInv, UNCHANGED <<storage, items, serialized, before, serializing>>, Updating' <=> Updating
    PROVE  RecordInv'
<1>1. Recorded' <=> Recorded
  BY Zenon DEF Recorded
<1> QED BY <1>1, Zenon DEF RecordInv

\* Nothing was recorded yet.
LEMMA RecordInit == Init => RecordInv
BY DEF Init, RecordInv, Updating, NoDifference

\* Every step keeps what was recorded and what it leads to.
LEMMA RecordStep == Typed /\ FollowInv /\ RecordInv /\ [Next]_vars => RecordInv'
<1> SUFFICES ASSUME Typed, FollowInv, RecordInv, [Next]_vars PROVE RecordInv'
  OBVIOUS
<1> USE DEF kernel, server
<1>1. ASSUME NEW c \in Conns, KernelNew(c) \/ KernelDestroy(c) \/ KernelTraffic(c) PROVE RecordInv'
  <2>1. KernelStep
    BY <1>1 DEF KernelNew, KernelDestroy, KernelTraffic
  <2> QED BY <2>1, RecordUnchanged DEF KernelStep, Updating
<1>2. CASE PollSocket
  BY <1>2, RecordUnchanged DEF PollSocket, Updating
<1>3. CASE EventPollHandler
  BY <1>3, RecordUnchanged DEF EventPollHandler, MainIdle, Updating
<1>4. CASE EventCallback
  BY <1>4, RecordUnchanged DEF EventCallback, Updating
<1>5. CASE EventPollHandlerDone
  BY <1>5, RecordUnchanged DEF EventPollHandlerDone, Updating
<1>6. CASE onUpdate
  <2>1. /\ before' = storage /\ activity' = "events" /\ activity = "idle"
        /\ \/ serializing' = FALSE /\ items' = <<>>
           \/ UNCHANGED <<storage, serializing, items>>
    BY <1>6 DEF onUpdate, clear, MainIdle
  <2>2. items = <<>> /\ Updating'
    BY <2>1 DEF RecordInv, Updating
  <2>3. CASE serializing' = FALSE /\ items' = <<>>
    BY <2>2, <2>3 DEF RecordInv, Recorded
  <2>4. CASE UNCHANGED <<storage, serializing, items>>
    <3>1. Leads(before', items', storage')
      BY <2>1, <2>2, <2>4, LeadsNowhere
    <3>2. items' = <<>>
      BY <2>2, <2>4
    <3> QED BY <2>2, <3>1, <3>2 DEF RecordInv, Recorded
  <2> QED BY <2>1, <2>3, <2>4
<1>7. CASE applyEvent
  <2>1. /\ activity = "events" /\ UNCHANGED <<activity, serializing, serialized, before>>
        /\ eventQueue # <<>>
    BY <1>7 DEF applyEvent
  <2>2. Updating /\ Updating' /\ Recorded
    BY <2>1 DEF RecordInv, Updating
  <2>3. PICK e : e = Head(eventQueue)
    OBVIOUS
  <2>4. e.conn \in Conns
    <3>1. eventQueue \in Seq(Event)
      BY DEF Typed, TypeOK
    <3>2. e \in Event
      BY <2>1, <2>3, <3>1
    <3> QED BY <3>2 DEF Event
  <2>5. add(e.conn, NewData) \/ remove(e.conn)
    BY <1>7, <2>3 DEF applyEvent
  <2>6. Recorded'
    <3>1. CASE add(e.conn, NewData)
      BY <2>1, <2>2, <2>4, <3>1, DataTypes, AddLeads
    <3>2. CASE remove(e.conn)
      BY <2>1, <2>2, <2>4, <3>2, RemoveLeads
    <3> QED BY <2>5, <3>1, <3>2
  <2> QED BY <2>2, <2>6 DEF RecordInv
<1>8. CASE dump
  BY <1>8, RecordUnchanged DEF dump, Updating
<1>9. ASSUME NEW c \in Conns, handleQuery(c) PROVE RecordInv'
  <2>1. activity = "dump" /\ UNCHANGED <<activity, serializing, serialized, before, table>>
    BY <1>9 DEF handleQuery, FollowInv, RefillIsClean
  <2>2. Updating /\ Updating' /\ Recorded
    BY <2>1 DEF RecordInv, Updating
  <2>3. \/ c \in DOMAIN table /\ add(c, FilledData(table[c]))
        \/ c \in DOMAIN table /\ c \in DOMAIN storage /\ update(c)
        \/ UNCHANGED <<storage, items>>
    BY <1>9, Zenon DEF handleQuery, QueryEntry
  <2>4. Recorded'
    <3>1. CASE c \in DOMAIN table /\ add(c, FilledData(table[c]))
      <4>1. table[c] \in Entry
        BY <3>1 DEF Typed, TypeOK
      <4>2. FilledData(table[c]) \in Data
        BY <4>1, DataTypes
      <4> QED BY <2>1, <2>2, <3>1, <4>2, AddLeads
    <3>2. CASE c \in DOMAIN table /\ c \in DOMAIN storage /\ update(c)
      BY <2>1, <2>2, <3>2, UpdateLeads
    <3>3. CASE UNCHANGED <<storage, items>>
      BY <2>1, <2>2, <3>3, Zenon DEF Recorded
    <3> QED BY <2>3, <3>1, <3>2, <3>3
  <2> QED BY <2>2, <2>4 DEF RecordInv
<1>10. CASE updateDone
  <2>1. /\ activity = "dump" /\ activity' = "idle" /\ items' = <<>>
        /\ serialized' = (IF serializing THEN Difference(items) ELSE NoDifference)
        /\ UNCHANGED <<storage, before, serializing>>
    BY <1>10 DEF updateDone
  <2>2. Recorded /\ ~Updating'
    BY <2>1 DEF RecordInv, Updating
  <2>3. CASE serializing
    <3>1. serialized'.items = items
      BY <2>1, <2>3 DEF Difference
    <3>2. Leads(before, items, storage)
      BY <2>2, <2>3 DEF Recorded
    <3> QED BY <2>1, <2>2, <3>1, <3>2 DEF RecordInv
  <2>4. CASE ~serializing
    <3>1. serialized'.isEmpty = TRUE
      BY <2>1, <2>4 DEF NoDifference
    <3> QED BY <2>1, <2>2, <3>1 DEF RecordInv
  <2> QED BY <2>3, <2>4
<1>11. CASE Fail
  BY <1>11, RecordUnchanged DEF Fail, Updating
<1>12. CASE setSerializationEnabled
  <2>1. ~Updating /\ ~Updating' /\ UNCHANGED <<items, serialized, before, storage>>
    BY <1>12 DEF setSerializationEnabled, MainIdle, Updating
  <2> QED BY <2>1, Zenon DEF RecordInv
<1>13. CASE setPaused
  BY <1>13, RecordUnchanged DEF setPaused, Updating
<1>14. CASE UNCHANGED vars
  BY <1>14, RecordUnchanged DEF vars, Updating
<1> QED
  BY <1>1, <1>2, <1>3, <1>4, <1>5, <1>6, <1>7, <1>8, <1>9, <1>10, <1>11, <1>12, <1>13, <1>14 DEF Next, Query

(***************************************************************************)
(* A client that applies a difference to what it had at the previous       *)
(* update has the server's storage, whatever was created, destroyed and    *)
(* counted in between, for every state of a connection and every modulus   *)
(* of the counters (ConnectionUpdateSerializer, ConnectionData::serialize  *)
(* and Deserialize, Conntrack::handleQuery).                               *)
(***************************************************************************)
THEOREM DifferencesAreExact == Spec => []DifferenceReproducesStorage
<1>1. Typed /\ RecordInv => DifferenceReproducesStorage
  <2> SUFFICES ASSUME Typed, RecordInv, activity = "idle", ~serialized.isEmpty
               PROVE  Replay(before, serialized.items) = storage
    BY DEF DifferenceReproducesStorage
  <2>1. PICK q : q = serialized.items
    OBVIOUS
  <2>2. q \in Seq(Item)
    BY <2>1 DEF Typed
  <2>3. Leads(before, q, storage)
    BY <2>1 DEF RecordInv, Updating
  <2> QED BY ONLY <2>1, <2>2, <2>3, ReplayIs
<1> QED BY <1>1, TypedAlways, FollowInit, FollowStep, RecordInit, RecordStep, PTL DEF Spec

=============================================================================

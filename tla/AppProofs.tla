------------------------------ MODULE AppProofs ------------------------------
(***************************************************************************)
(* Proofs about the life of the program, for every mode, every number of   *)
(* addresses and ports in the resolver's answers and every bound of the    *)
(* queues.  Three invariants, inductive together with the types: who exists*)
(* and who runs (Life), what was shown of an exception (Shown), and how    *)
(* far the client is with its connection (Connecting).                     *)
(***************************************************************************)
EXTENDS App, Integers, WellFoundedInduction, TLAPS

-----------------------------------------------------------------------------
(***************************************************************************)
(* The types.                                                              *)
(***************************************************************************)
\* The main thread inside launch(), and after it.
Launched == {"create", "run", "loop", "unwind", "stop", "joinSignal"}

Destroying == {"destroy", "wakeResolver", "joinResolver", "joinPoll", "exit"}

\* What the handlers of the main thread are given: answers by the resolver thread.
AnswerEvents ==
    [id : {"RESOLVER_INTERNAL_EVENT"}, content : [type : EResolverRequest, found : Nat]]

OtherEvents ==
    [id : {"POLL_SYSTEM_INTERNAL_EVENT"},
     content : [fd : {"stdin", "socket"}, flags : SUBSET {"INPUT", "OUTPUT", "ERROR"}]]
      \cup [id : {"UPDATE_EVENT", "APP_INTERNAL_EVENT"}, content : {"none", "QUIT"}]

\* Only the resolver thread sends answers.
EventsOf(t) == IF t = "Resolver" THEN AnswerEvents ELSE OtherEvents

\* The event queue holds the events that its threads send.
QueueType(queue) ==
    /\ queue \in [Threads -> Seq(AnswerEvents \cup OtherEvents)]
    /\ \A t \in Threads : queue[t] \in Seq(EventsOf(t))

\* The program counters.
ThreadsOK ==
    /\ pc \in {"App", "start"} \cup Launched \cup Destroying
    /\ signalPC \in {"none", "wait", "handle", "exit"}
    /\ pollPC \in {"none", "run", "exit"}
    /\ resolverPC \in {"none", "loop", "wait", "process", "exit"}

\* The queue of requests, the request that is processed, and the events.
QueuesOK ==
    /\ requestQueue \in Seq(EResolverRequest \cup {NoRequest})
    /\ request \in EResolverRequest \cup {NoRequest}
    /\ QueueType(eventQueue)

\* The command line, the parts, and what becomes of an exception.
AppOK ==
    /\ options \in Options
    /\ alive \subseteq Parts /\ callbacks \subseteq EventID
    /\ hasLog \in BOOLEAN /\ wasLogAvailable \in BOOLEAN /\ exitCode \in {0, 1} /\ reports \in Nat

\* The type invariant.
TypeOK == ThreadsOK /\ QueuesOK /\ AppOK /\ client \in C!ClientType

-----------------------------------------------------------------------------
(***************************************************************************)
(* Who exists and who runs, by the program counter of the main thread.     *)
(***************************************************************************)
\* What the resolver thread needs for the requests of the list.
Resolvable == /\ {"Resolver", "ConnectionList"} \subseteq alive
              /\ options.geoip => "GeoIP" \in alive

\* A request of the list, which points to its addresses, is queued or processed.
ListAsked(requests, r) ==
    \/ \E i \in 1..Len(requests) : requests[i] \in {"ADDRESS", "PORT"}
    \/ r \in {"ADDRESS", "PORT"}

AskedByList == ListAsked(requestQueue, request)

\* A thread runs only while what it uses exists.
Threading ==
    /\ pc = "App" => alive = {} /\ callbacks = {} /\ pollPC = "none"
    /\ pc \in {"start"} \cup Launched => {"EventSystem", "PollSystem"} \subseteq alive
    /\ "PollSystem" \in alive => "EventSystem" \in alive
    /\ "Resolver" \in alive => "PollSystem" \in alive
    /\ pollPC = "run" => "PollSystem" \in alive
    /\ signalPC \in {"wait", "handle"} => pc \in Launched
    /\ resolverPC \in {"loop", "wait", "process"} => "Resolver" \in alive
    /\ (resolverPC = "process") = (request # NoRequest)

\* A callback is registered only while its owner exists.
Registered ==
    /\ \A id \in callbacks : Owner(id) \in alive
    /\ pc \in {"wakeResolver", "joinResolver"} => "RESOLVER_INTERNAL_EVENT" \notin callbacks
    /\ pc = "joinPoll" => "POLL_SYSTEM_INTERNAL_EVENT" \notin callbacks /\ "Resolver" \notin alive

\* The list and GeoIP exist while the list may ask, and while it waits for names.
Needed ==
    /\ AskedByList => Resolvable
    /\ pc \in {"run", "loop"} /\ options.mode = "local" => Resolvable

\* Who exists and who runs.
Life == Threading /\ Registered /\ Needed

-----------------------------------------------------------------------------
(***************************************************************************)
(* What the terminal showed of the exception that ends the program: the    *)
(* log is disabled by the user interface only, and an exception is created *)
(* once.                                                                   *)
(***************************************************************************)
Shown ==
    /\ pc \in {"App", "start", "create", "run", "loop"} => exitCode = 0
    /\ exitCode = 0 => reports = 0
    /\ exitCode = 1 /\ pc # "exit" => reports = IF wasLogAvailable /\ ~options.logFile THEN 1 ELSE 0
    /\ exitCode = 1 /\ pc = "exit" => reports = 1
    /\ ~hasLog => "UI" \in alive

-----------------------------------------------------------------------------
(***************************************************************************)
(* How far the client is with its connection.                              *)
(***************************************************************************)
\* The connector has asked the resolver and not tried anything yet.
Waits(c) ==
    /\ c.hasConnector /\ c.state = "DISCONNECTED" /\ c.socket = "none" /\ ~c.thrown
    /\ c.addresses = 0 /\ c.portIndex = 0 /\ c.tried = {}

\* The combinations in the order in which they are tried: by port, then by address.
AllCombinations(c) == (0..(IF c.ports = 0 THEN 0 ELSE c.ports - 1)) \X (0..c.addresses - 1)

Precedes(x, y) == x[1] < y[1] \/ (x[1] = y[1] /\ x[2] < y[2])

Remaining(c) == {x \in AllCombinations(c) : ~Precedes(x, <<c.portIndex, c.addressIndex>>)}

\* The invariant of tryNext's loop: what was not tried yet is at the indices or after them.
Covers(c) ==
    /\ c.ports = 0 => c.portIndex = 0
    /\ c.tried \cup Remaining(c) = AllCombinations(c)

\* The client gave up because nothing is left, or is at a combination of its own.
Tracks(c) ==
    c.addresses > 0 =>
        IF c.thrown /\ c.current = C!NoCombination THEN c.tried = AllCombinations(c)
        ELSE c.current # C!NoCombination /\ Covers(c)

\* Requests that are queued, processed, or answered and not handled: their number ...
InFlightOf(requests, r, events) ==
    Len(requests) + (IF r = NoRequest THEN 0 ELSE 1) + Len(events)

\* ... and whether the connector asked for one of them.
AskedOf(requests, r, events) ==
    \E type \in {"HOSTNAME", "SERVICE"} :
        \/ \E i \in 1..Len(requests) : requests[i] = type
        \/ r = type
        \/ \E i \in 1..Len(events) : events[i].content.type = type

InFlight == InFlightOf(requestQueue, request, eventQueue["Resolver"])

AskedByConnector == AskedOf(requestQueue, request, eventQueue["Resolver"])

\* A request of the connector is the only one, and the connector waits for it.
Connecting ==
    /\ Tracks(client)
    /\ pc \in {"App", "start", "create"} => InFlight = 0 /\ Waits([client EXCEPT !.hasConnector = TRUE])
    /\ pc \in {"run", "loop"} =>
         /\ ~client.thrown
         /\ AskedByConnector => options.mode = "client" /\ Waits(client)
         /\ options.mode = "client" => InFlight <= 1

\* The inductive invariant.
AInv == TypeOK /\ Life /\ Shown /\ Connecting

-----------------------------------------------------------------------------
(***************************************************************************)
(* Minima: FirstOf chooses one, and induction is their existence.          *)
(***************************************************************************)
\* A nonempty set of naturals has a least element.
LEMMA NaturalMinimum ==
    ASSUME NEW U, U \subseteq Nat, U # {}
    PROVE  \E x \in U : \A y \in U : ~(y < x)
  <1> DEFINE Less == {ss \in Nat \X Nat : ss[1] < ss[2]}
  <1>1. IsWellFoundedOn(Less, Nat)  BY NatLessThanWellFounded DEF OpToRel
  <1>2. PICK x \in U : \A y \in U : ~(<<y, x>> \in Less)
    <2> HIDE DEF Less
    <2> QED  BY <1>1, WFMin
  <1> QED  BY <1>2

\* If a part of the order is among the parts, FirstOf is the first such part.
LEMMA FirstOfFacts ==
    ASSUME NEW parts, NEW n \in Nat, NEW order, DOMAIN order = 1..n,
           NEW k \in 1..n, order[k] \in parts
    PROVE  \E i \in 1..n : /\ FirstOf(parts, order) = order[i] /\ order[i] \in parts
                           /\ \A j \in 1..i - 1 : order[j] \notin parts
  <1> DEFINE U == {i \in 1..n : order[i] \in parts}
             P(i) == order[i] \in parts /\ \A j \in 1..i - 1 : order[j] \notin parts
  <1>1. U \subseteq Nat /\ U # {}  OBVIOUS
  <1>2. PICK i \in U : \A y \in U : ~(y < i)
    <2> HIDE DEF U
    <2> QED  BY <1>1, NaturalMinimum
  <1>3. i \in DOMAIN order /\ P(i)  BY <1>2
  <1>4. FirstOf(parts, order) = order[CHOOSE x \in DOMAIN order : P(x)]  BY DEF FirstOf
  <1> HIDE DEF P
  <1>5. PICK m : m = CHOOSE x \in DOMAIN order : P(x)  OBVIOUS
  <1>6. m \in DOMAIN order /\ P(m)  BY <1>3, <1>5
  <1> QED  BY <1>4, <1>5, <1>6 DEF P

-----------------------------------------------------------------------------
(***************************************************************************)
(* The order of creation and of destruction.                               *)
(***************************************************************************)
\* The member destroyed next exists, and those that use it are gone.
LEMMA LastPartFacts ==
    ASSUME alive \subseteq Parts, alive # {}
    PROVE  /\ LastPart \in alive
           /\ LastPart = "EventSystem" => "PollSystem" \notin alive
           /\ LastPart \in {"PollSystem", "ConnectionList", "GeoIP"} => "Resolver" \notin alive
  <1>1. DOMAIN DestroyOrder = 1..9  BY DEF DestroyOrder
  <1>2. PICK k \in 1..9 : DestroyOrder[k] \in alive  BY <1>1 DEF Parts
  <1>3. PICK i \in 1..9 : /\ LastPart = DestroyOrder[i] /\ DestroyOrder[i] \in alive
                          /\ \A j \in 1..i - 1 : DestroyOrder[j] \notin alive
    <2>1. PICK n \in Nat : n = 9  OBVIOUS
    <2>2. DOMAIN DestroyOrder = 1..n /\ k \in 1..n  BY <1>1, <2>1
    <2>3. \E i \in 1..n : /\ FirstOf(alive, DestroyOrder) = DestroyOrder[i] /\ DestroyOrder[i] \in alive
                          /\ \A j \in 1..i - 1 : DestroyOrder[j] \notin alive
      BY <1>2, <2>2, FirstOfFacts, Zenon
    <2> QED  BY <2>1, <2>3 DEF LastPart
  <1>4. LastPart = "PollSystem" => i = 8  BY <1>3 DEF DestroyOrder
  <1>5. LastPart = "EventSystem" => i = 9  BY <1>3 DEF DestroyOrder
  <1>6. LastPart = "ConnectionList" => i = 7  BY <1>3 DEF DestroyOrder
  <1>7. LastPart = "GeoIP" => i = 5  BY <1>3 DEF DestroyOrder
  <1>8. DestroyOrder[4] = "Resolver" /\ DestroyOrder[8] = "PollSystem"  BY DEF DestroyOrder
  <1> QED  BY <1>3, <1>4, <1>5, <1>6, <1>7, <1>8

\* What launch() creates; nothing is left when all that the mode needs exists.
LEMMA NextPartFacts ==
    ASSUME options \in Options
    PROVE  /\ Next1(options) \in {"none"} \cup (Parts \ alive)
           /\ Next1(options) # "EventSystem" /\ Next1(options) # "PollSystem"
           /\ Next1(options) = "none" /\ options.mode = "local" =>
                /\ "Resolver" \in alive /\ "ConnectionList" \in alive
                /\ options.geoip => "GeoIP" \in alive
  <1> DEFINE order == CreateOrder(options)
  <1>1. order \in {<<"Collector", "Server">>,
                   <<"GeoIP", "Resolver", "ConnectionList", "Client", "UI">>,
                   <<"Resolver", "ConnectionList", "Client", "UI">>,
                   <<"GeoIP", "Resolver", "ConnectionList", "Collector", "UI">>,
                   <<"Resolver", "ConnectionList", "Collector", "UI">>}
    BY DEF CreateOrder
  <1>2. PICK n \in {2, 4, 5} : DOMAIN order = 1..n
    <2> HIDE DEF order
    <2> QED  BY <1>1
  <1>3. \A i \in 1..n : order[i] \in Parts \ {"EventSystem", "PollSystem"}
    <2> HIDE DEF order
    <2>1. Parts = {"Collector", "Server", "UI", "Resolver", "GeoIP", "Client", "ConnectionList",
                   "PollSystem", "EventSystem"}
      BY DEF Parts, DestroyOrder
    <2>2. \A i \in DOMAIN order : order[i] \in Parts \ {"EventSystem", "PollSystem"}
      BY <1>1, <2>1
    <2> QED  BY <1>2, <2>2
  <1>4. CASE \A i \in 1..n : order[i] \in alive
    <2>1. Next1(options) = "none"  BY <1>2, <1>4 DEF Next1
    <2>2. ASSUME options.mode = "local"
          PROVE  /\ "Resolver" \in alive /\ "ConnectionList" \in alive
                 /\ options.geoip => "GeoIP" \in alive
      <3>1. options.geoip \in BOOLEAN  BY DEF Options
      <3>2. CASE options.geoip
        <4>1. order = <<"GeoIP", "Resolver", "ConnectionList", "Collector", "UI">>
          BY <2>2, <3>2 DEF CreateOrder
        <4> QED  BY <4>1, <1>2, <1>4
      <3>3. CASE ~options.geoip
        <4>1. order = <<"Resolver", "ConnectionList", "Collector", "UI">>
          BY <2>2, <3>3 DEF CreateOrder
        <4> QED  BY <4>1, <1>2, <1>4, <3>3
      <3> QED  BY <3>2, <3>3
    <2> QED  BY <2>1, <2>2
  <1>5. CASE ~\A i \in 1..n : order[i] \in alive
    <2>1. Next1(options) = FirstOf(Parts \ alive, order)  BY <1>2, <1>5 DEF Next1
    <2>2. PICK k \in 1..n : order[k] \in Parts \ alive  BY <1>3, <1>5
    <2> HIDE DEF order
    <2>3. \E i \in 1..n : FirstOf(Parts \ alive, order) = order[i] /\ order[i] \in Parts \ alive
      BY <1>2, <2>2, FirstOfFacts
    <2>4. "none" \notin Parts  BY DEF Parts, DestroyOrder
    <2> QED  BY <1>3, <2>1, <2>3, <2>4
  <1> QED  BY <1>4, <1>5

-----------------------------------------------------------------------------
(***************************************************************************)
(* The connector.  A step of it keeps the types and loses no combination.  *)
(***************************************************************************)
\* The client has its type and lost no combination.
Sound(c) == c \in C!ClientType /\ Tracks(c)

\* Combinations are pairs of indices, and the remaining ones are some of them.
LEMMA CombinationsAreNaturals ==
    ASSUME NEW c \in C!ClientType
    PROVE  AllCombinations(c) \subseteq Nat \X Nat /\ Remaining(c) \subseteq AllCombinations(c)
  BY DEF AllCombinations, Remaining, C!ClientType

\* connect touches neither the packs nor what was tried.
LEMMA ConnectKeeps ==
    ASSUME NEW c \in C!ClientType
    PROVE  /\ C!connect(c) \in C!ClientType
           /\ C!connect(c).addresses = c.addresses /\ C!connect(c).ports = c.ports
           /\ C!connect(c).addressIndex = c.addressIndex /\ C!connect(c).portIndex = c.portIndex
           /\ C!connect(c).current = c.current /\ C!connect(c).tried = c.tried
           /\ C!connect(c).thrown = c.thrown
  <1>1. CASE c.state # "DISCONNECTED"  BY <1>1 DEF C!connect
  <1>2. CASE c.state = "DISCONNECTED"
    <2>1. PICK f : f = C!Flags  OBVIOUS
    <2>2. f \in SUBSET C!Flags /\ TTL \in Nat  BY <2>1, AppAssumption
    <2>3. PICK d : d = C!connect(c)  OBVIOUS
    <2>4. d = [c EXCEPT !.socket = "connecting", !.state = "OPENING", !.sessionTTL = TTL,
                        !.expectsHello = FALSE, !.interest = f]
      BY <1>2, <2>1, <2>3 DEF C!connect
    <2>5. d \in C!ClientType  BY ONLY c \in C!ClientType, <2>2, <2>4 DEF C!ClientType
    <2>6. /\ d.addresses = c.addresses /\ d.ports = c.ports /\ d.addressIndex = c.addressIndex
          /\ d.portIndex = c.portIndex /\ d.current = c.current /\ d.tried = c.tried
          /\ d.thrown = c.thrown
      BY ONLY c \in C!ClientType, <2>4 DEF C!ClientType
    <2> QED  BY <2>3, <2>5, <2>6
  <1> QED  BY <1>1, <1>2

\* The next port, when the addresses are used up, leaves the same combinations.
LEMMA WrappedIndices ==
    ASSUME NEW c \in C!ClientType, c.addresses > 0, Covers(c)
    PROVE  \E p \in Nat, a \in Nat :
             /\ C!NextCombination(c) =
                  IF (IF c.ports = 0 THEN a >= c.addresses ELSE p >= c.ports)
                  THEN [c EXCEPT !.portIndex = p, !.current = C!NoCombination,
                                 !.addressIndex = IF c.ports = 0 THEN a ELSE a + 1]
                  ELSE [c EXCEPT !.portIndex = p, !.current = <<p, a>>, !.addressIndex = a + 1]
             /\ c.ports = 0 => p = 0
             /\ c.ports > 0 => a < c.addresses
             /\ Remaining(c) = {x \in AllCombinations(c) : ~Precedes(x, <<p, a>>)}
  <1>0. /\ c.addresses \in Nat /\ c.ports \in Nat /\ c.addressIndex \in Nat /\ c.portIndex \in Nat
        /\ c.ports = 0 => c.portIndex = 0
    BY DEF C!ClientType, Covers
  <1> DEFINE w == IF c.ports > 0 /\ c.addressIndex >= c.addresses
                  THEN [c EXCEPT !.portIndex = @ + 1, !.addressIndex = 0] ELSE c
             used == IF c.ports = 0 THEN c.addressIndex >= c.addresses ELSE w.portIndex >= c.ports
  <1>1. C!NextCombination(c) =
          [w EXCEPT !.current = IF used THEN C!NoCombination ELSE <<w.portIndex, w.addressIndex>>,
                    !.addressIndex = IF used /\ c.ports = 0 THEN @ ELSE @ + 1]
    BY Zenon DEF C!NextCombination
  <1>2. CASE c.ports > 0 /\ c.addressIndex >= c.addresses
    <2>1. PICK p \in Nat, a \in Nat : p = c.portIndex + 1 /\ a = 0  BY <1>0
    <2>2. w = [c EXCEPT !.portIndex = p, !.addressIndex = a]  BY <1>2, <2>1
    <2>3. w.portIndex = p /\ w.addressIndex = a  BY <2>2 DEF C!ClientType
    <2>4. C!NextCombination(c) =
            IF p >= c.ports
            THEN [c EXCEPT !.portIndex = p, !.current = C!NoCombination, !.addressIndex = a + 1]
            ELSE [c EXCEPT !.portIndex = p, !.current = <<p, a>>, !.addressIndex = a + 1]
      <3>1. used <=> p >= c.ports  BY <1>2, <2>3
      <3>2. ~(used /\ c.ports = 0)  BY <1>2
      <3> HIDE DEF used, w
      <3>3. CASE used
        BY <1>1, <2>2, <2>3, <3>1, <3>2, <3>3 DEF C!ClientType
      <3>4. CASE ~used
        BY <1>1, <2>2, <2>3, <3>1, <3>2, <3>4 DEF C!ClientType
      <3> QED  BY <3>3, <3>4
    <2>5. Remaining(c) = {x \in AllCombinations(c) : ~Precedes(x, <<p, a>>)}
      <3>1. ASSUME NEW x \in AllCombinations(c)
            PROVE  Precedes(x, <<c.portIndex, c.addressIndex>>) <=> Precedes(x, <<p, a>>)
        <4>1. x[1] \in Nat /\ x[2] \in Nat /\ x[2] < c.addresses
          BY <1>0, <3>1 DEF AllCombinations
        <4> QED  BY ONLY <1>0, <1>2, <2>1, <4>1 DEF Precedes
      <3> QED  BY <3>1 DEF Remaining
    <2>6. c.ports # 0 /\ a < c.addresses  BY <1>0, <1>2, <2>1
    <2> QED  BY <2>1, <2>4, <2>5, <2>6
  <1>3. CASE ~(c.ports > 0 /\ c.addressIndex >= c.addresses)
    <2>1. PICK p \in Nat, a \in Nat : p = c.portIndex /\ a = c.addressIndex  BY <1>0
    <2>2. w = c  BY <1>3
    <2>3. c = [c EXCEPT !.portIndex = p]  BY <2>1 DEF C!ClientType
    <2>4. C!NextCombination(c) =
            IF used
            THEN [c EXCEPT !.portIndex = p, !.current = C!NoCombination,
                           !.addressIndex = IF c.ports = 0 THEN a ELSE a + 1]
            ELSE [c EXCEPT !.portIndex = p, !.current = <<p, a>>, !.addressIndex = a + 1]
      <3>1. C!NextCombination(c) =
              [c EXCEPT !.current = IF used THEN C!NoCombination ELSE <<p, a>>,
                        !.addressIndex = IF used /\ c.ports = 0 THEN a ELSE a + 1]
        <4> HIDE DEF used, w
        <4> QED  BY <1>1, <2>1, <2>2 DEF C!ClientType
      <3> HIDE DEF used, w
      <3>2. CASE used  BY <2>1, <2>3, <3>1, <3>2 DEF C!ClientType
      <3>3. CASE ~used  BY <2>1, <2>3, <3>1, <3>3 DEF C!ClientType
      <3> QED  BY <3>2, <3>3
    <2>5. used <=> IF c.ports = 0 THEN a >= c.addresses ELSE p >= c.ports  BY <2>1, <2>2
    <2>6. c.ports > 0 => a < c.addresses  BY <1>0, <1>3, <2>1
    <2>7. Remaining(c) = {x \in AllCombinations(c) : ~Precedes(x, <<p, a>>)}  BY <2>1 DEF Remaining
    <2> HIDE DEF used, w
    <2> QED  BY <1>0, <2>1, <2>4, <2>5, <2>6, <2>7
  <1> QED  BY <1>2, <1>3

\* One round: nothing is left and the client gives up, or the next combination is tried.
LEMMA TryOnceIsSound ==
    ASSUME NEW c \in C!ClientType, NEW refused, c.addresses > 0, ~c.thrown, Covers(c)
    PROVE  Sound(C!TryOnce(c, refused)) /\ C!TryOnce(c, refused).addresses = c.addresses
  <1> DEFINE used(p, a) == IF c.ports = 0 THEN a >= c.addresses ELSE p >= c.ports
  <1>0. /\ c.addresses \in Nat /\ c.ports \in Nat /\ c.thrown = FALSE /\ c.tried \in SUBSET (Nat \X Nat)
        /\ c.tried \cup Remaining(c) = AllCombinations(c)
        /\ AllCombinations(c) \subseteq Nat \X Nat
    BY CombinationsAreNaturals DEF C!ClientType, Covers
  <1>1. PICK p \in Nat, a \in Nat :
          /\ C!NextCombination(c) =
               IF used(p, a)
               THEN [c EXCEPT !.portIndex = p, !.current = C!NoCombination,
                              !.addressIndex = IF c.ports = 0 THEN a ELSE a + 1]
               ELSE [c EXCEPT !.portIndex = p, !.current = <<p, a>>, !.addressIndex = a + 1]
          /\ c.ports = 0 => p = 0
          /\ c.ports > 0 => a < c.addresses
          /\ Remaining(c) = {x \in AllCombinations(c) : ~Precedes(x, <<p, a>>)}
    BY WrappedIndices
  <1>2. PICK next : next = C!NextCombination(c)  OBVIOUS
  <1>3. \A x \in AllCombinations(c) :
          /\ x[1] \in Nat /\ x[2] \in Nat /\ x[2] < c.addresses
          /\ c.ports = 0 => x[1] = 0
          /\ c.ports > 0 => x[1] < c.ports
    BY <1>0 DEF AllCombinations
  <1>4. CASE used(p, a)
    <2>1. PICK b : b = IF c.ports = 0 THEN a ELSE a + 1  OBVIOUS
    <2>2. b \in Nat /\ C!NoCombination \in {C!NoCombination} \cup (Nat \X Nat)  BY <2>1
    <2>3. next = [c EXCEPT !.portIndex = p, !.current = C!NoCombination, !.addressIndex = b]
      <3> HIDE DEF used
      <3> QED  BY <1>1, <1>2, <1>4, <2>1
    <2>4. PICK d : d = [next EXCEPT !.thrown = TRUE]  OBVIOUS
    <2>5. next \in C!ClientType /\ next.current = C!NoCombination
      BY ONLY c \in C!ClientType, p \in Nat, <2>2, <2>3 DEF C!ClientType
    <2>6. d \in C!ClientType  BY ONLY <2>4, <2>5 DEF C!ClientType
    <2>7. /\ d.addresses = c.addresses /\ d.ports = c.ports /\ d.tried = c.tried /\ d.thrown
          /\ d.current = C!NoCombination
      BY ONLY c \in C!ClientType, <2>3, <2>4 DEF C!ClientType
    <2>8. Remaining(c) = {}
      <3>1. ASSUME NEW x \in AllCombinations(c)  PROVE Precedes(x, <<p, a>>)
        <4>1. /\ x[1] \in Nat /\ x[2] \in Nat /\ x[2] < c.addresses
              /\ c.ports = 0 => x[1] = 0
              /\ c.ports > 0 => x[1] < c.ports
          BY <1>3, <3>1
        <4> QED  BY <1>0, <1>1, <1>4, <4>1 DEF Precedes
      <3> QED  BY <1>1, <3>1
    <2>9. AllCombinations(d) = AllCombinations(c)  BY <2>7 DEF AllCombinations
    <2>10. d.tried = AllCombinations(d)  BY <1>0, <2>7, <2>8, <2>9
    <2>11. C!TryOnce(c, refused) = d  BY <1>2, <2>4, <2>5 DEF C!TryOnce, C!Throw
    <2> QED  BY <2>6, <2>7, <2>10, <2>11 DEF Sound, Tracks
  <1>5. CASE ~used(p, a)
    <2>1. next = [c EXCEPT !.portIndex = p, !.current = <<p, a>>, !.addressIndex = a + 1]
      <3> HIDE DEF used
      <3> QED  BY <1>1, <1>2, <1>5
    <2>2. PICK x : x = <<p, a>>  OBVIOUS
    <2>3. x \in AllCombinations(c) /\ x[1] = p /\ x[2] = a /\ x # C!NoCombination
      <3>1. x \in AllCombinations(c)  BY <1>0, <1>1, <1>5, <2>2 DEF AllCombinations
      <3> QED  BY <2>2, <3>1 DEF C!NoCombination
    <2>4. PICK t, b : t = c.tried \cup {x} /\ b = a + 1  OBVIOUS
    <2>5. t \in SUBSET (Nat \X Nat) /\ b \in Nat /\ x \in {C!NoCombination} \cup (Nat \X Nat)
      BY <1>0, <2>3, <2>4
    <2>6. PICK d : d = [next EXCEPT !.tried = @ \cup {next.current}]  OBVIOUS
    <2>7. next.current = x /\ next.tried = c.tried
      BY ONLY c \in C!ClientType, <2>1, <2>2 DEF C!ClientType
    <2>8. d = [c EXCEPT !.portIndex = p, !.current = x, !.addressIndex = b, !.tried = t]
      BY ONLY c \in C!ClientType, <2>1, <2>2, <2>4, <2>6, <2>7 DEF C!ClientType
    <2>9. d \in C!ClientType  BY ONLY c \in C!ClientType, p \in Nat, <2>5, <2>8 DEF C!ClientType
    <2>10. /\ d.addresses = c.addresses /\ d.ports = c.ports /\ d.tried = t /\ d.thrown = FALSE
           /\ d.current = x /\ d.portIndex = p /\ d.addressIndex = b
      BY ONLY c \in C!ClientType, <1>0, <2>8 DEF C!ClientType
    <2>11. PICK e : e = C!TryOnce(c, refused)  OBVIOUS
    <2>12. e = d \/ e = C!connect(d)
      BY <1>2, <2>3, <2>6, <2>7, <2>11 DEF C!TryOnce
    <2>13. /\ e \in C!ClientType
           /\ e.addresses = c.addresses /\ e.ports = c.ports /\ e.tried = t /\ e.thrown = FALSE
           /\ e.current = x /\ e.portIndex = p /\ e.addressIndex = b
      BY <2>9, <2>10, <2>12, ConnectKeeps
    <2>14. AllCombinations(e) = AllCombinations(c)  BY <2>13 DEF AllCombinations
    <2>15. Remaining(c) = Remaining(e) \cup {x}
      <3>1. ASSUME NEW y \in AllCombinations(c)
            PROVE  ~Precedes(y, <<p, a>>) <=> (~Precedes(y, <<p, b>>) \/ y = x)
        <4>1. y[1] \in Nat /\ y[2] \in Nat  BY <1>3, <3>1
        <4>2. y = x <=> y[1] = p /\ y[2] = a
          BY <1>0, <2>2, <3>1
        <4> QED  BY <2>4, <4>1, <4>2 DEF Precedes
      <3>2. Remaining(e) = {y \in AllCombinations(c) : ~Precedes(y, <<p, b>>)}
        BY <2>13, <2>14 DEF Remaining
      <3> QED  BY <1>1, <2>3, <3>1, <3>2
    <2>16. Covers(e)
      <3>1. e.tried \cup Remaining(e) = AllCombinations(e)  BY <1>0, <2>4, <2>13, <2>14, <2>15
      <3> QED  BY <1>1, <2>13, <3>1 DEF Covers
    <2> QED  BY <2>3, <2>11, <2>13, <2>16 DEF Sound, Tracks
  <1> QED  BY <1>4, <1>5

\* f holds the client after each round of tryNext's loop.
AreRounds(f, c, try, rounds) == f = [n \in 0..rounds |-> IF n = 0 THEN c ELSE try[f[n - 1]]]

\* The rounds of the loop are a function, however many there are.
LEMMA RoundsExist ==
    ASSUME NEW c, NEW try, NEW rounds \in Nat
    PROVE  \E f : AreRounds(f, c, try, rounds)
  <1> DEFINE Is(f, k) == f = [n \in 0..k |-> IF n = 0 THEN c ELSE try[f[n - 1]]]
             U == {k \in Nat : ~\E f : Is(f, k)}
  <1>1. SUFFICES ASSUME U # {}  PROVE FALSE
    BY Zenon DEF AreRounds
  <1>2. PICK k \in U : \A y \in U : ~(y < k)
    <2>1. U \subseteq Nat  OBVIOUS
    <2> HIDE DEF U
    <2> QED  BY <1>1, <2>1, NaturalMinimum
  <1>3. k \in Nat /\ \A f : ~Is(f, k)  BY <1>2
  <1>4. CASE k = 0
    <2>1. Is([n \in 0..0 |-> c], 0)  OBVIOUS
    <2> QED  BY <1>3, <1>4, <2>1
  <1>5. CASE k > 0
    <2>1. PICK j \in Nat : j = k - 1 /\ j < k  BY ONLY <1>3, <1>5
    <2>2. PICK f : Is(f, k - 1)
      <3>1. j \notin U
        <4> HIDE DEF U
        <4> QED  BY <1>2, <2>1
      <3>2. \E f : Is(f, j)
        <4> HIDE DEF Is
        <4> QED  BY <3>1
      <3> QED  BY <2>1, <3>2
    <2>3. PICK g : g = [n \in 0..k |-> IF n < k THEN f[n] ELSE try[f[k - 1]]]  OBVIOUS
    <2>4. Is(g, k)
      <3>1. \A n \in 0..k : g[n] = IF n = 0 THEN c ELSE try[g[n - 1]]
        <4> SUFFICES ASSUME NEW n \in 0..k  PROVE g[n] = IF n = 0 THEN c ELSE try[g[n - 1]]
          OBVIOUS
        <4>1. CASE n < k
          <5>1. g[n] = f[n] /\ n \in 0..k - 1  BY <1>3, <2>3, <4>1
          <5>2. f[n] = IF n = 0 THEN c ELSE try[f[n - 1]]  BY <2>2, <5>1
          <5>3. n # 0 => n - 1 \in 0..k /\ n - 1 < k  BY <1>3, <4>1
          <5>4. n # 0 => g[n - 1] = f[n - 1]  BY <2>3, <5>3
          <5> QED  BY <5>1, <5>2, <5>4
        <4>2. CASE n = k
          <5>1. g[n] = try[f[k - 1]] /\ n # 0  BY <1>3, <1>5, <2>3, <4>2
          <5>2. k - 1 \in 0..k /\ k - 1 < k  BY <1>3, <1>5
          <5>3. g[k - 1] = f[k - 1]  BY <2>3, <5>2
          <5> QED  BY <4>2, <5>1, <5>3
        <4> QED  BY <1>3, <4>1, <4>2
      <3>2. DOMAIN g = 0..k /\ g = [n \in 0..k |-> g[n]]  BY <2>3
      <3> QED  BY <3>1, <3>2
    <2> QED  BY <1>3, <2>4
  <1> QED  BY <1>3, <1>4, <1>5

\* Whatever connect() rejects, tryNext loses no combination, for any number of them.
LEMMA TryNextIsSound ==
    ASSUME NEW c \in C!ClientType, NEW refused, ~c.thrown, c.state = "DISCONNECTED",
           c.addresses > 0 => Covers(c)
    PROVE  Sound(C!tryNext(c, refused))
  <1>1. CASE c.addresses = 0
    <2>1. C!tryNext(c, refused) = c  BY <1>1, Zenon DEF C!tryNext
    <2> QED  BY <1>1, <2>1 DEF Sound, Tracks
  <1>2. CASE c.addresses # 0
    <2>1. c.addresses \in Nat /\ c.ports \in Nat /\ c.addresses > 0  BY <1>2 DEF C!ClientType
    <2>2. PICK rounds : rounds = (IF c.ports = 0 THEN 1 ELSE c.ports) * c.addresses + 1  OBVIOUS
    <2>3. rounds \in Nat /\ rounds > 0
      <3>1. PICK m \in Nat : m = IF c.ports = 0 THEN 1 ELSE c.ports  BY <2>1
      <3>2. m * c.addresses \in Nat  BY <2>1, <3>1
      <3> QED  BY <2>2, <3>1, <3>2
    <2> DEFINE try == [d \in C!ClientType |-> IF C!Tries(d) THEN C!TryOnce(d, refused) ELSE d]
    <2>4. C!tryNext(c, refused) = (CHOOSE f : AreRounds(f, c, try, rounds))[rounds]
      BY <1>2, <2>2, Zenon DEF C!tryNext, AreRounds
    <2> HIDE DEF try
    <2>5. \E f : AreRounds(f, c, try, rounds)  BY <2>3, RoundsExist
    <2>6. PICK f : f = CHOOSE g : AreRounds(g, c, try, rounds)  OBVIOUS
    <2>7. AreRounds(f, c, try, rounds)  BY <2>5, <2>6
    <2>8. f[0] = c /\ \A n \in 1..rounds : f[n] = try[f[n - 1]]
      BY <2>3, <2>7 DEF AreRounds
    <2> DEFINE Good(n) == Sound(f[n]) /\ f[n].addresses = c.addresses
               U == {n \in 1..rounds : ~Good(n)}
    <2>9. Good(1)
      <3>1. f[1] = C!TryOnce(c, refused)
        <4>1. 1 \in 1..rounds /\ 1 - 1 = 0  BY <2>3
        <4>2. f[1] = try[c]  BY <2>8, <4>1
        <4>3. C!Tries(c)  BY DEF C!Tries
        <4> QED  BY <4>2, <4>3 DEF try
      <3> QED  BY <2>1, <3>1, TryOnceIsSound
    <2>10. U = {}
      <3> SUFFICES ASSUME U # {}  PROVE FALSE
        OBVIOUS
      <3>1. U \subseteq Nat  BY <2>3
      <3>2. PICK k \in U : \A y \in U : ~(y < k)
        <4> HIDE DEF U
        <4> QED  BY <3>1, NaturalMinimum
      <3>3. k \in 1..rounds /\ ~Good(k)  BY <3>2
      <3> HIDE DEF Good
      <3>4. k # 1  BY <2>9, <3>3
      <3>5. k - 1 \in 1..rounds /\ k - 1 < k  BY <2>3, <3>3, <3>4
      <3>6. Good(k - 1)  BY <3>2, <3>5
      <3>7. PICK d : d = f[k - 1]  OBVIOUS
      <3>8. Sound(d) /\ d.addresses = c.addresses  BY <3>6, <3>7 DEF Good
      <3>9. f[k] = IF C!Tries(d) THEN C!TryOnce(d, refused) ELSE d
        <4>1. f[k] = try[d]  BY <2>8, <3>3, <3>7
        <4>2. d \in C!ClientType  BY <3>8 DEF Sound
        <4> QED  BY <4>1, <4>2 DEF try
      <3>10. C!Tries(d) => Sound(C!TryOnce(d, refused)) /\ C!TryOnce(d, refused).addresses = d.addresses
        <4>1. C!Tries(d) => ~d.thrown /\ Covers(d)  BY <2>1, <3>8 DEF C!Tries, Sound, Tracks
        <4>2. d \in C!ClientType /\ d.addresses > 0  BY <2>1, <3>8 DEF Sound
        <4> QED  BY <4>1, <4>2, TryOnceIsSound
      <3>11. Good(k)  BY <3>8, <3>9, <3>10 DEF Good
      <3> QED  BY <3>3, <3>11
    <2>11. Sound(f[rounds])
      <3>1. rounds \in 1..rounds  BY <2>3
      <3> QED  BY <2>10, <3>1
    <2> QED  BY <2>4, <2>6, <2>11
  <1> QED  BY <1>1, <1>2

\* What a step leaves alone when it concerns the session only.
SamePack(c, d) ==
    /\ d.addresses = c.addresses /\ d.ports = c.ports /\ d.addressIndex = c.addressIndex
    /\ d.portIndex = c.portIndex /\ d.current = c.current /\ d.tried = c.tried
    /\ d.thrown = c.thrown

\* A step that leaves the packs and the combinations alone keeps the client sound.
LEMMA SamePackIsSound ==
    ASSUME NEW c, Sound(c), NEW d \in C!ClientType, SamePack(c, d)
    PROVE  Sound(d)
  <1>1. AllCombinations(d) = AllCombinations(c)  BY DEF SamePack, AllCombinations
  <1>2. Remaining(d) = Remaining(c)  BY <1>1 DEF SamePack, Remaining
  <1>3. Covers(d) <=> Covers(c)  BY <1>1, <1>2 DEF SamePack, Covers
  <1> QED  BY <1>1, <1>3 DEF SamePack, Sound, Tracks

\* Without a connector there is nothing to be tried (m_pConnector.reset()).
LEMMA AloneIsSound ==
    ASSUME NEW c \in C!ClientType
    PROVE  /\ Sound(C!DestroyConnector(c)) /\ C!DestroyConnector(c).thrown = c.thrown
           /\ C!DestroyConnector(c).hasConnector = FALSE
  <1>1. PICK d : d = C!DestroyConnector(c)  OBVIOUS
  <1>2. {} \in SUBSET (Nat \X Nat) /\ 0 \in Nat /\ C!NoCombination \in {C!NoCombination} \cup (Nat \X Nat)
    OBVIOUS
  <1>3. d \in C!ClientType  BY <1>1, <1>2 DEF C!DestroyConnector, C!ClientType
  <1>4. d.addresses = 0 /\ d.thrown = c.thrown /\ d.hasConnector = FALSE
    BY <1>1 DEF C!DestroyConnector, C!ClientType
  <1> QED  BY <1>1, <1>3, <1>4 DEF Sound, Tracks

\* quickDisconnect loses no combination: the connector goes on with the next one.
LEMMA DisconnectIsSound ==
    ASSUME NEW c, Sound(c), ~c.thrown, NEW reason \in {"USER_DECISION", "OTHER"}, NEW refused
    PROVE  Sound(C!quickDisconnect(c, reason, refused))
  <1>0. c \in C!ClientType  BY DEF Sound
  <1>1. PICK d : d = [c EXCEPT !.socket = "none", !.interest = {}, !.state = "DISCONNECTED",
                               !.established = FALSE, !.sendQueue = FALSE, !.reason = reason]
    OBVIOUS
  <1>2. d \in C!ClientType  BY ONLY <1>0, <1>1, reason \in {"USER_DECISION", "OTHER"} DEF C!ClientType
  <1>3. SamePack(c, d)  BY ONLY <1>0, <1>1 DEF C!ClientType, SamePack
  <1>4. Sound(d)  BY <1>2, <1>3, SamePackIsSound
  <1>5. ~d.thrown  BY <1>3 DEF SamePack
  <1>6. PICK n : n = IF d.hasConnector THEN C!tryNext(d, refused) ELSE d  OBVIOUS
  <1>7. Sound(n)
    <2>1. d.addresses > 0 => Covers(d)  BY <1>4, <1>5 DEF Sound, Tracks
    <2>2. d.state = "DISCONNECTED"  BY ONLY <1>0, <1>1 DEF C!ClientType
    <2>3. Sound(C!tryNext(d, refused))  BY <1>2, <1>5, <2>1, <2>2, TryNextIsSound
    <2> QED  BY <1>4, <1>6, <2>3
  <1>8. PICK q : q = (n.quit \/ (~n.thrown /\ d.reason = "USER_DECISION"))  OBVIOUS
  <1>9. C!quickDisconnect(c, reason, refused) = [n EXCEPT !.quit = q]
    BY ONLY <1>1, <1>6, <1>8, Zenon DEF C!quickDisconnect, C!onSessionDisconnect
  <1>10. n \in C!ClientType  BY <1>7 DEF Sound
  <1>11. q \in BOOLEAN  BY ONLY <1>8, Zenon
  <1>12. PICK e : e = [n EXCEPT !.quit = q]  OBVIOUS
  <1>13. e \in C!ClientType /\ SamePack(n, e)
    BY ONLY <1>10, <1>11, <1>12 DEF C!ClientType, SamePack
  <1> QED  BY <1>7, <1>9, <1>12, <1>13, SamePackIsSound

\* F10: quit, or the end of the session.
LEMMA F10IsSound ==
    ASSUME NEW c, Sound(c), ~c.thrown, NEW refused
    PROVE  /\ Sound(C!F10(c, refused)) /\ ~C!F10(c, refused).thrown
           /\ c.state # "CONNECTED" => C!F10(c, refused) = [c EXCEPT !.quit = TRUE]
  <1>0. c \in C!ClientType  BY DEF Sound
  <1>1. CASE c.state = "CONNECTED"
    <2>1. PICK a : a = C!DestroyConnector(c)  OBVIOUS
    <2>2. Sound(a) /\ a.thrown = c.thrown  BY <1>0, <2>1, AloneIsSound
    <2>3. PICK f : f = C!Flags  OBVIOUS
    <2>4. f \in SUBSET C!Flags /\ TTL \in Nat  BY <2>3, AppAssumption
    <2>5. PICK d : d = [a EXCEPT !.state = "CLOSING", !.sessionTTL = TTL, !.reason = "USER_DECISION",
                                 !.sendQueue = TRUE, !.interest = f]
      OBVIOUS
    <2>6. a \in C!ClientType  BY <2>2 DEF Sound
    <2>7. d \in C!ClientType  BY ONLY <2>6, <2>4, <2>5 DEF C!ClientType
    <2>8. SamePack(a, d)  BY ONLY <2>6, <2>5 DEF C!ClientType, SamePack
    <2>9. C!F10(c, refused) = d  BY <1>1, <2>1, <2>3, <2>5 DEF C!F10, C!disconnect
    <2>10. Sound(d)  BY <2>2, <2>7, <2>8, SamePackIsSound
    <2> QED  BY <1>1, <2>2, <2>8, <2>9, <2>10 DEF SamePack
  <1>2. CASE c.state # "CONNECTED"
    <2>1. PICK d : d = [c EXCEPT !.quit = TRUE]  OBVIOUS
    <2>2. d \in C!ClientType /\ SamePack(c, d)  BY ONLY <1>0, <2>1 DEF C!ClientType, SamePack
    <2>3. Sound(d)  BY <2>2, SamePackIsSound
    <2>4. C!F10(c, refused) = d  BY <1>2, <2>1 DEF C!F10
    <2> QED  BY <2>1, <2>2, <2>3, <2>4 DEF SamePack
  <1> QED  BY <1>1, <1>2

\* A tick keeps the client sound, and changes nothing without a session.
LEMMA OnUpdateIsSound ==
    ASSUME NEW c, Sound(c), ~c.thrown, NEW refused
    PROVE  Sound(C!onUpdate(c, refused)) /\ (c.state = "DISCONNECTED" => C!onUpdate(c, refused) = c)
  <1>0. c \in C!ClientType  BY DEF Sound
  <1>1. CASE c.state = "DISCONNECTED"
    BY <1>1 DEF C!onUpdate
  <1>2. CASE c.state # "DISCONNECTED" /\ c.sessionTTL > 0
    <2>1. PICK n : n = c.sessionTTL - 1  OBVIOUS
    <2>2. n \in Nat  BY <1>0, <1>2, <2>1 DEF C!ClientType
    <2>3. PICK d : d = [c EXCEPT !.sessionTTL = n]  OBVIOUS
    <2>4. d \in C!ClientType /\ SamePack(c, d)  BY ONLY <1>0, <2>2, <2>3 DEF C!ClientType, SamePack
    <2>5. C!onUpdate(c, refused) = d  BY <1>2, <2>1, <2>3 DEF C!onUpdate
    <2> QED  BY <1>2, <2>4, <2>5, SamePackIsSound
  <1>3. CASE c.state # "DISCONNECTED" /\ ~(c.sessionTTL > 0)
    <2>1. C!onUpdate(c, refused) = C!quickDisconnect(c, "OTHER", refused)
      BY <1>3, Zenon DEF C!onUpdate
    <2> QED  BY <1>3, <2>1, DisconnectIsSound
  <1> QED  BY <1>1, <1>2, <1>3

\* A message concerns the session only.
LEMMA OnMessageIsSound ==
    ASSUME NEW c, Sound(c)
    PROVE  Sound(C!onMessage(c)) /\ C!onMessage(c).thrown = c.thrown
  <1>0. c \in C!ClientType /\ TTL \in Nat  BY AppAssumption DEF Sound
  <1>1. CASE c.state = "OPENING" /\ ~c.expectsHello
    <2>1. PICK d : d = [c EXCEPT !.expectsHello = TRUE, !.sendQueue = TRUE]  OBVIOUS
    <2>2. d \in C!ClientType /\ SamePack(c, d)  BY ONLY <1>0, <2>1 DEF C!ClientType, SamePack
    <2>3. C!onMessage(c) = d  BY <1>1, <2>1 DEF C!onMessage
    <2> QED  BY <2>2, <2>3, SamePackIsSound DEF SamePack
  <1>2. CASE c.state = "OPENING" /\ c.expectsHello
    <2>1. PICK d : d = [c EXCEPT !.state = "CONNECTED", !.sessionTTL = TTL]  OBVIOUS
    <2>2. d \in C!ClientType /\ SamePack(c, d)  BY ONLY <1>0, <2>1 DEF C!ClientType, SamePack
    <2>3. C!onMessage(c) = d  BY <1>2, <2>1 DEF C!onMessage
    <2> QED  BY <2>2, <2>3, SamePackIsSound DEF SamePack
  <1>3. CASE c.state = "CONNECTED"
    <2>1. PICK d : d = [c EXCEPT !.sessionTTL = TTL]  OBVIOUS
    <2>2. d \in C!ClientType /\ SamePack(c, d)  BY ONLY <1>0, <2>1 DEF C!ClientType, SamePack
    <2>3. C!onMessage(c) = d  BY <1>3, <2>1 DEF C!onMessage
    <2> QED  BY <2>2, <2>3, SamePackIsSound DEF SamePack
  <1>4. CASE c.state # "OPENING" /\ c.state # "CONNECTED"
    <2>1. C!onMessage(c) = c  BY <1>4, Zenon DEF C!onMessage
    <2> QED  BY <2>1
  <1> QED  BY <1>1, <1>2, <1>3, <1>4

\* Whatever receive() returned, the client stays sound.
LEMMA HandleInputIsSound ==
    ASSUME NEW c, Sound(c), ~c.thrown, NEW refused, NEW input \in C!Inputs(c)
    PROVE  Sound(C!HandleInput(c, input, refused))
  <1>1. input \in {"message", "lost", "error"}
    <2>1. CASE c.socket # "connected"  BY <2>1, Zenon DEF C!Inputs
    <2>2. CASE c.socket = "connected" /\ c.state = "OPENING" /\ c.expectsHello /\ c.sendQueue
      BY <2>2 DEF C!Inputs
    <2>3. CASE c.socket = "connected" /\ ~(c.state = "OPENING" /\ c.expectsHello /\ c.sendQueue)
      BY <2>3 DEF C!Inputs
    <2> QED  BY <2>1, <2>2, <2>3
  <1>2. CASE input = "message"
    BY <1>2, OnMessageIsSound DEF C!HandleInput
  <1>3. CASE input = "lost"
    <2>1. PICK r : r = IF c.state = "CLOSING" THEN c.reason ELSE "OTHER"  OBVIOUS
    <2>2. r \in {"USER_DECISION", "OTHER"}  BY <2>1 DEF Sound, C!ClientType
    <2>3. C!HandleInput(c, input, refused) = C!quickDisconnect(c, r, refused)
      BY <1>3, <2>1 DEF C!HandleInput
    <2> QED  BY <2>2, <2>3, DisconnectIsSound
  <1>4. CASE input = "error"
    <2>1. C!HandleInput(c, input, refused) = C!quickDisconnect(c, "OTHER", refused)
      BY <1>4 DEF C!HandleInput
    <2> QED  BY <2>1, DisconnectIsSound
  <1> QED  BY <1>1, <1>2, <1>3, <1>4

\* So it does when the socket is writable: connected, failed, or established before.
LEMMA HandleOutputIsSound ==
    ASSUME NEW c, Sound(c), ~c.thrown, NEW refused
    PROVE  Sound(C!HandleOutput(c, refused))
  <1>0. c \in C!ClientType  BY DEF Sound
  <1>1. CASE c.established
    <2>1. PICK d : d = [c EXCEPT !.sendQueue = FALSE]  OBVIOUS
    <2>2. d \in C!ClientType /\ SamePack(c, d)  BY ONLY <1>0, <2>1 DEF C!ClientType, SamePack
    <2>3. C!HandleOutput(c, refused) = d  BY <1>1, <2>1 DEF C!HandleOutput
    <2> QED  BY <2>2, <2>3, SamePackIsSound
  <1>2. CASE ~c.established /\ c.socket = "failed"
    <2>1. C!HandleOutput(c, refused) = C!quickDisconnect(c, "OTHER", refused)
      BY <1>2 DEF C!HandleOutput
    <2> QED  BY <2>1, DisconnectIsSound
  <1>3. CASE ~c.established /\ c.socket # "failed"
    <2>1. PICK d : d = [c EXCEPT !.established = TRUE]  OBVIOUS
    <2>2. d \in C!ClientType  BY ONLY <1>0, <2>1 DEF C!ClientType
    <2>3. C!HandleOutput(c, refused) = C!DestroyConnector(d)  BY <1>3, <2>1 DEF C!HandleOutput
    <2> QED  BY <2>2, <2>3, AloneIsSound
  <1> QED  BY <1>1, <1>2, <1>3

\* Waiting for the socket again concerns poll() only.
LEMMA RearmIsSound ==
    ASSUME NEW c, Sound(c)
    PROVE  Sound(C!Rearm(c))
  <1>0. c \in C!ClientType  BY DEF Sound
  <1>1. CASE c.socket = "none"  BY <1>1 DEF C!Rearm
  <1>2. CASE c.socket # "none"
    <2>1. PICK f : f = IF c.sendQueue THEN C!Flags ELSE {"INPUT"}  OBVIOUS
    <2>2. f \in SUBSET C!Flags  BY <2>1 DEF C!Flags
    <2>3. PICK d : d = [c EXCEPT !.interest = f]  OBVIOUS
    <2>4. d \in C!ClientType /\ SamePack(c, d)  BY ONLY <1>0, <2>2, <2>3 DEF C!ClientType, SamePack
    <2>5. C!Rearm(c) = d  BY <1>2, <2>1, <2>3 DEF C!Rearm
    <2> QED  BY <2>4, <2>5, SamePackIsSound
  <1> QED  BY <1>1, <1>2

\* An exception skips the rest, so that every part starts without one.
LEMMA SocketPollHandlerIsSound ==
    ASSUME NEW c, Sound(c), ~c.thrown, NEW flags, NEW refused, NEW input \in C!Inputs(c)
    PROVE  Sound(C!SocketPollHandler(c, flags, input, refused))
  <1>1. PICK read : read = IF "INPUT" \in flags THEN C!HandleInput(c, input, refused) ELSE c
    OBVIOUS
  <1>2. PICK written :
          written = IF ~read.thrown /\ "OUTPUT" \in flags /\ read.state # "DISCONNECTED"
                    THEN C!HandleOutput(read, refused) ELSE read
    OBVIOUS
  <1>3. PICK checked :
          checked = IF ~written.thrown /\ "ERROR" \in flags /\ written.state # "DISCONNECTED"
                    THEN C!quickDisconnect(written, "OTHER", refused) ELSE written
    OBVIOUS
  <1>4. Sound(read)  BY <1>1, HandleInputIsSound
  <1>5. Sound(written)
    <2>1. ~read.thrown => Sound(C!HandleOutput(read, refused))  BY <1>4, HandleOutputIsSound
    <2> QED  BY <1>2, <1>4, <2>1
  <1>6. Sound(checked)
    <2>1. ~written.thrown => Sound(C!quickDisconnect(written, "OTHER", refused))
      BY <1>5, DisconnectIsSound
    <2> QED  BY <1>3, <1>5, <2>1
  <1>7. C!SocketPollHandler(c, flags, input, refused) = IF checked.thrown THEN checked ELSE C!Rearm(checked)
    BY <1>1, <1>2, <1>3, Zenon DEF C!SocketPollHandler
  <1> QED  BY <1>6, <1>7, RearmIsSound

\* The answers of the resolver find a connector that has not tried anything.
LEMMA HostResolveCallbackIsSound ==
    ASSUME NEW c, Sound(c), Waits(c), NEW found \in Nat, NEW refused
    PROVE  Sound(C!HostResolveCallback(c, found, refused))
  <1>0. c \in C!ClientType  BY DEF Sound
  <1>1. CASE found = 0
    <2>1. PICK d : d = [c EXCEPT !.thrown = TRUE]  OBVIOUS
    <2>2. d \in C!ClientType /\ d.addresses = 0  BY <1>0, <2>1 DEF C!ClientType, Waits
    <2>3. C!HostResolveCallback(c, found, refused) = d  BY <1>1, <2>1 DEF C!HostResolveCallback, C!Throw
    <2> QED  BY <2>2, <2>3 DEF Sound, Tracks
  <1>2. CASE found # 0
    <2>1. PICK d : d = [c EXCEPT !.addresses = found, !.addressIndex = 0]  OBVIOUS
    <2>2. d \in C!ClientType  BY ONLY <1>0, <2>1, found \in Nat DEF C!ClientType
    <2>3. /\ ~d.thrown /\ d.tried = {} /\ d.portIndex = 0 /\ d.addressIndex = 0
          /\ d.state = "DISCONNECTED"
      BY <1>0, <2>1 DEF C!ClientType, Waits
    <2>4. Remaining(d) = AllCombinations(d)
      <3>1. \A x \in AllCombinations(d) : x[1] \in Nat /\ x[2] \in Nat
        BY <2>2, CombinationsAreNaturals
      <3>2. Remaining(d) = {x \in AllCombinations(d) : ~Precedes(x, <<0, 0>>)}
        BY <2>3 DEF Remaining
      <3> QED  BY <3>1, <3>2 DEF Precedes
    <2>5. Sound(C!tryNext(d, refused))  BY <2>2, <2>3, <2>4, TryNextIsSound DEF Covers
    <2>6. C!HostResolveCallback(c, found, refused) = C!tryNext(d, refused)
      BY <1>2, <2>1 DEF C!HostResolveCallback
    <2> QED  BY <2>5, <2>6
  <1> QED  BY <1>1, <1>2

\* After the port the connector waits for the host, or the program ends.
LEMMA PortResolveCallbackIsSound ==
    ASSUME NEW c, Sound(c), Waits(c), NEW found \in Nat
    PROVE  /\ Sound(C!PortResolveCallback(c, found))
           /\ IF found = 0 THEN C!PortResolveCallback(c, found).thrown
              ELSE Waits(C!PortResolveCallback(c, found))
  <1>0. c \in C!ClientType  BY DEF Sound
  <1>1. CASE found = 0
    <2>1. PICK d : d = [c EXCEPT !.thrown = TRUE]  OBVIOUS
    <2>2. d \in C!ClientType /\ d.addresses = 0 /\ d.thrown  BY <1>0, <2>1 DEF C!ClientType, Waits
    <2>3. C!PortResolveCallback(c, found) = d  BY <1>1, <2>1 DEF C!PortResolveCallback, C!Throw
    <2> QED  BY <1>1, <2>2, <2>3 DEF Sound, Tracks
  <1>2. CASE found # 0
    <2>1. PICK d : d = [c EXCEPT !.ports = found, !.portIndex = 0]  OBVIOUS
    <2>2. d \in C!ClientType  BY ONLY <1>0, <2>1, found \in Nat DEF C!ClientType
    <2>3. d.addresses = 0 /\ Waits(d)  BY <1>0, <2>1 DEF C!ClientType, Waits
    <2>4. C!PortResolveCallback(c, found) = d  BY <1>2, <2>1 DEF C!PortResolveCallback
    <2> QED  BY <1>2, <2>2, <2>3, <2>4 DEF Sound, Tracks
  <1> QED  BY <1>1, <1>2

-----------------------------------------------------------------------------
(***************************************************************************)
(* The queue of the events.                                                *)
(***************************************************************************)
\* An event of a thread is appended to the events of that thread only.
LEMMA DispatchedType ==
    ASSUME NEW queue, QueueType(queue), NEW t \in Threads, NEW e \in EventsOf(t)
    PROVE  /\ QueueType(Dispatched(queue, t, e))
           /\ t # "Resolver" => Dispatched(queue, t, e)["Resolver"] = queue["Resolver"]
           /\ Dispatched(queue, t, e)[t] = Append(queue[t], e)
  <1>1. PICK q : q = Dispatched(queue, t, e)  OBVIOUS
  <1>2. PICK a : a = Append(queue[t], e)  OBVIOUS
  <1>3. e \in AnswerEvents \cup OtherEvents  BY DEF EventsOf
  <1>4. queue[t] \in Seq(EventsOf(t)) /\ queue[t] \in Seq(AnswerEvents \cup OtherEvents)
    BY DEF QueueType
  <1>5. a \in Seq(EventsOf(t)) /\ a \in Seq(AnswerEvents \cup OtherEvents)
    BY ONLY <1>2, <1>3, <1>4, e \in EventsOf(t)
  <1>6. q = [queue EXCEPT ![t] = a]  BY <1>1, <1>2 DEF Dispatched
  <1>7. queue \in [Threads -> Seq(AnswerEvents \cup OtherEvents)]
        /\ \A u \in Threads : queue[u] \in Seq(EventsOf(u))
    BY DEF QueueType
  <1>8. "Resolver" \in Threads  BY DEF Threads
  <1>9. /\ q \in [Threads -> Seq(AnswerEvents \cup OtherEvents)]
        /\ \A u \in Threads : q[u] \in Seq(EventsOf(u))
        /\ t # "Resolver" => q["Resolver"] = queue["Resolver"]
        /\ q[t] = a
    BY ONLY <1>5, <1>6, <1>7, <1>8, t \in Threads
  <1> QED  BY <1>1, <1>2, <1>9 DEF QueueType

\* Taking an event of a thread leaves the events of the others alone.
LEMMA DequeuedType ==
    ASSUME NEW queue, QueueType(queue), NEW t \in Threads, queue[t] # <<>>
    PROVE  /\ QueueType(Dequeued(queue, t)) /\ Head(queue[t]) \in EventsOf(t)
           /\ t # "Resolver" => Dequeued(queue, t)["Resolver"] = queue["Resolver"]
           /\ Dequeued(queue, t)[t] = Tail(queue[t])
  <1>1. PICK q : q = Dequeued(queue, t)  OBVIOUS
  <1>2. PICK a : a = Tail(queue[t])  OBVIOUS
  <1>3. PICK s : s = queue[t]  OBVIOUS
  <1>4. s \in Seq(EventsOf(t)) /\ s \in Seq(AnswerEvents \cup OtherEvents) /\ s # <<>>
    BY <1>3 DEF QueueType
  <1>5. /\ a \in Seq(EventsOf(t)) /\ a \in Seq(AnswerEvents \cup OtherEvents)
        /\ Head(s) \in EventsOf(t)
    BY ONLY <1>2, <1>3, <1>4
  <1>6. q = [queue EXCEPT ![t] = a]  BY <1>1, <1>2 DEF Dequeued
  <1>7. queue \in [Threads -> Seq(AnswerEvents \cup OtherEvents)]
        /\ \A u \in Threads : queue[u] \in Seq(EventsOf(u))
    BY DEF QueueType
  <1>8. "Resolver" \in Threads  BY DEF Threads
  <1>9. /\ q \in [Threads -> Seq(AnswerEvents \cup OtherEvents)]
        /\ \A u \in Threads : q[u] \in Seq(EventsOf(u))
        /\ t # "Resolver" => q["Resolver"] = queue["Resolver"]
        /\ q[t] = a
    BY ONLY <1>5, <1>6, <1>7, <1>8, t \in Threads
  <1> QED  BY <1>1, <1>2, <1>3, <1>5, <1>9 DEF QueueType

-----------------------------------------------------------------------------
(***************************************************************************)
(* The handlers.                                                           *)
(***************************************************************************)
\* How a handler ends.
Ends == (NotThrown /\ pc' = "loop") \/ (Thrown /\ pc' = "unwind")

\* The client after a handler that left it in state c, and the events of the resolver.
LEMMA AfterFacts ==
    ASSUME NEW c, Sound(c), NEW queue, QueueType(queue), After(c, queue)
    PROVE  /\ Sound(client') /\ QueueType(eventQueue')
           /\ eventQueue'["Resolver"] = queue["Resolver"]
           /\ Waits(c) => Waits(client')
           /\ client'.thrown = c.thrown
           /\ IF c.thrown THEN Thrown /\ pc' = "unwind" ELSE NotThrown /\ pc' = "loop"
  <1>1. c \in C!ClientType  BY DEF Sound
  <1>2. client' = [c EXCEPT !.quit = FALSE]  BY DEF After
  <1>3. client' \in C!ClientType /\ SamePack(c, client')
    BY ONLY <1>1, <1>2 DEF C!ClientType, SamePack
  <1>4. Sound(client')  BY <1>3, SamePackIsSound
  <1>5. Waits(c) => Waits(client')  BY ONLY <1>1, <1>2 DEF C!ClientType, Waits
  <1>6. QueueType(eventQueue') /\ eventQueue'["Resolver"] = queue["Resolver"]
    <2>1. PICK e : e = Event("APP_INTERNAL_EVENT", "QUIT")  OBVIOUS
    <2>2. e \in EventsOf("Main")  BY <2>1 DEF Event, EventsOf, OtherEvents
    <2>3. "Main" \in Threads /\ "Main" # "Resolver"  BY DEF Threads
    <2>4. QueueType(Quit(queue)) /\ Quit(queue)["Resolver"] = queue["Resolver"]
      BY <2>1, <2>2, <2>3, DispatchedType DEF Quit
    <2>5. eventQueue' = IF c.quit THEN Quit(queue) ELSE queue  BY DEF After
    <2> QED  BY <2>4, <2>5
  <1> QED  BY <1>3, <1>4, <1>5, <1>6 DEF After, SamePack

-----------------------------------------------------------------------------
(***************************************************************************)
(* The requests of the connector, on their way to the resolver and back.   *)
(***************************************************************************)
\* What the queue of the resolver holds.
Requests == EResolverRequest \cup {NoRequest}

\* The number of requests in flight is a natural number.
LEMMA InFlightIsNatural ==
    ASSUME NEW rq \in Seq(Requests), NEW r, NEW ev \in Seq(AnswerEvents)
    PROVE  InFlightOf(rq, r, ev) \in Nat
  <1>1. Len(rq) \in Nat /\ Len(ev) \in Nat  BY ONLY rq \in Seq(Requests), ev \in Seq(AnswerEvents)
  <1> QED  BY <1>1 DEF InFlightOf

\* A new request is one more in flight, and the connector's only if it has its type.
LEMMA PushedRequest ==
    ASSUME NEW rq \in Seq(Requests), NEW r \in Requests, NEW ev \in Seq(AnswerEvents), NEW type \in Requests
    PROVE  /\ Append(rq, type) \in Seq(Requests)
           /\ InFlightOf(Append(rq, type), r, ev) = InFlightOf(rq, r, ev) + 1
           /\ type \notin {"HOSTNAME", "SERVICE"} /\ AskedOf(Append(rq, type), r, ev) => AskedOf(rq, r, ev)
  <1>1. PICK a : a = Append(rq, type)  OBVIOUS
  <1>2. /\ a \in Seq(Requests) /\ Len(rq) \in Nat /\ Len(a) = Len(rq) + 1 /\ a[Len(rq) + 1] = type
        /\ \A i \in 1..Len(rq) : a[i] = rq[i]
    BY ONLY <1>1, rq \in Seq(Requests), type \in Requests
  <1>3. InFlightOf(a, r, ev) = InFlightOf(rq, r, ev) + 1
    <2>1. Len(ev) \in Nat  BY ONLY ev \in Seq(AnswerEvents)
    <2> QED  BY ONLY <1>2, <2>1 DEF InFlightOf
  <1>4. ASSUME type \notin {"HOSTNAME", "SERVICE"}, AskedOf(a, r, ev)  PROVE AskedOf(rq, r, ev)
    <2>1. \A i \in 1..Len(a) : i \in 1..Len(rq) \/ i = Len(rq) + 1  BY ONLY <1>2
    <2>2. \A t \in {"HOSTNAME", "SERVICE"} :
            (\E i \in 1..Len(a) : a[i] = t) => \E i \in 1..Len(rq) : rq[i] = t
      BY ONLY <1>2, <1>4, <2>1
    <2> QED  BY <1>4, <2>2 DEF AskedOf
  <1> QED  BY <1>1, <1>2, <1>3, <1>4

\* A handled answer is one less in flight; an answer for the connector was asked by it.
LEMMA HandledAnswer ==
    ASSUME NEW rq \in Seq(Requests), NEW r \in Requests, NEW ev \in Seq(AnswerEvents), ev # <<>>
    PROVE  /\ InFlightOf(rq, r, Tail(ev)) = InFlightOf(rq, r, ev) - 1
           /\ AskedOf(rq, r, Tail(ev)) => AskedOf(rq, r, ev)
           /\ Head(ev).content.type \in {"HOSTNAME", "SERVICE"} => AskedOf(rq, r, ev)
  <1>1. PICK a : a = Tail(ev)  OBVIOUS
  <1>2. /\ Len(ev) \in Nat /\ Len(ev) >= 1 /\ Len(a) = Len(ev) - 1 /\ Head(ev) = ev[1]
        /\ \A i \in 1..Len(a) : a[i] = ev[i + 1]
    BY ONLY <1>1, ev \in Seq(AnswerEvents), ev # <<>>
  <1>3. InFlightOf(rq, r, a) = InFlightOf(rq, r, ev) - 1
    <2>1. Len(rq) \in Nat  BY ONLY rq \in Seq(Requests)
    <2> QED  BY ONLY <1>2, <2>1 DEF InFlightOf
  <1>4. AskedOf(rq, r, a) => AskedOf(rq, r, ev)
    <2>1. \A i \in 1..Len(a) : i + 1 \in 1..Len(ev)  BY ONLY <1>2
    <2>2. \A t \in {"HOSTNAME", "SERVICE"} :
            (\E i \in 1..Len(a) : a[i].content.type = t) => \E i \in 1..Len(ev) : ev[i].content.type = t
      BY ONLY <1>2, <2>1
    <2> QED  BY <2>2 DEF AskedOf
  <1>5. Head(ev).content.type \in {"HOSTNAME", "SERVICE"} => AskedOf(rq, r, ev)
    <2>1. 1 \in 1..Len(ev)  BY ONLY <1>2
    <2> QED  BY <1>2, <2>1, Zenon DEF AskedOf
  <1> QED  BY <1>1, <1>3, <1>4, <1>5

\* The resolver thread takes a request: nothing is added.
LEMMA TakenRequest ==
    ASSUME NEW rq \in Seq(Requests), NEW ev \in Seq(AnswerEvents), rq # <<>>
    PROVE  /\ Tail(rq) \in Seq(Requests) /\ Head(rq) \in Requests
           /\ InFlightOf(Tail(rq), Head(rq), ev) <= InFlightOf(rq, NoRequest, ev)
           /\ AskedOf(Tail(rq), Head(rq), ev) => AskedOf(rq, NoRequest, ev)
  <1>1. PICK a, h : a = Tail(rq) /\ h = Head(rq)  OBVIOUS
  <1>2. /\ a \in Seq(Requests) /\ h \in Requests /\ Len(rq) \in Nat /\ Len(rq) >= 1
        /\ Len(a) = Len(rq) - 1 /\ h = rq[1] /\ \A i \in 1..Len(a) : a[i] = rq[i + 1]
    BY ONLY <1>1, rq \in Seq(Requests), rq # <<>>
  <1>3. InFlightOf(a, h, ev) <= InFlightOf(rq, NoRequest, ev)
    <2>1. Len(ev) \in Nat  BY ONLY ev \in Seq(AnswerEvents)
    <2> QED  BY ONLY <1>2, <2>1 DEF InFlightOf
  <1>4. AskedOf(a, h, ev) => AskedOf(rq, NoRequest, ev)
    <2>1. 1 \in 1..Len(rq) /\ \A i \in 1..Len(a) : i + 1 \in 1..Len(rq)  BY ONLY <1>2
    <2>2. \A t \in {"HOSTNAME", "SERVICE"} :
            (h = t \/ \E i \in 1..Len(a) : a[i] = t) => \E i \in 1..Len(rq) : rq[i] = t
      BY ONLY <1>2, <2>1
    <2> QED  BY <2>2 DEF AskedOf
  <1> QED  BY <1>1, <1>2, <1>3, <1>4

\* The resolver thread answers a request: it is in flight as an event now.
LEMMA AnsweredRequest ==
    ASSUME NEW rq \in Seq(Requests), NEW r \in EResolverRequest, NEW ev \in Seq(AnswerEvents),
           NEW e \in AnswerEvents, e.content.type = r
    PROVE  /\ InFlightOf(rq, NoRequest, Append(ev, e)) = InFlightOf(rq, r, ev)
           /\ AskedOf(rq, NoRequest, Append(ev, e)) => AskedOf(rq, r, ev)
  <1>1. PICK a : a = Append(ev, e)  OBVIOUS
  <1>2. /\ Len(ev) \in Nat /\ Len(a) = Len(ev) + 1 /\ a[Len(ev) + 1] = e
        /\ \A i \in 1..Len(ev) : a[i] = ev[i]
    BY ONLY <1>1, ev \in Seq(AnswerEvents), e \in AnswerEvents
  <1>3. r # NoRequest  BY DEF EResolverRequest, NoRequest
  <1>4. InFlightOf(rq, NoRequest, a) = InFlightOf(rq, r, ev)
    <2>1. Len(rq) \in Nat  BY ONLY rq \in Seq(Requests)
    <2> QED  BY ONLY <1>2, <1>3, <2>1 DEF InFlightOf
  <1>5. AskedOf(rq, NoRequest, a) => AskedOf(rq, r, ev)
    <2>1. \A i \in 1..Len(a) : i \in 1..Len(ev) \/ i = Len(ev) + 1  BY ONLY <1>2
    <2>2. \A t \in {"HOSTNAME", "SERVICE"} :
            (\E i \in 1..Len(a) : a[i].content.type = t)
              => r = t \/ \E i \in 1..Len(ev) : ev[i].content.type = t
      BY ONLY <1>2, <2>1, e.content.type = r
    <2>3. NoRequest \notin {"HOSTNAME", "SERVICE"}  BY DEF NoRequest
    <2> QED  BY <2>2, <2>3 DEF AskedOf
  <1> QED  BY <1>1, <1>4, <1>5

\* With nothing in flight, the connector waits for nothing.
LEMMA NothingInFlight ==
    ASSUME NEW rq \in Seq(Requests), NEW r \in Requests, NEW ev \in Seq(AnswerEvents),
           InFlightOf(rq, r, ev) <= 0
    PROVE  rq = <<>> /\ r = NoRequest /\ ~AskedOf(rq, r, ev)
  <1>1. Len(rq) \in Nat /\ Len(ev) \in Nat  BY ONLY rq \in Seq(Requests), ev \in Seq(AnswerEvents)
  <1>2. Len(rq) = 0 /\ r = NoRequest /\ Len(ev) = 0
    <2>1. CASE r = NoRequest  BY ONLY <1>1, <2>1, InFlightOf(rq, r, ev) <= 0 DEF InFlightOf
    <2>2. CASE r # NoRequest  BY ONLY <1>1, <2>2, InFlightOf(rq, r, ev) <= 0 DEF InFlightOf
    <2> QED  BY <2>1, <2>2
  <1>3. rq = <<>>  BY ONLY <1>2, rq \in Seq(Requests)
  <1>4. NoRequest \notin {"HOSTNAME", "SERVICE"}  BY DEF NoRequest
  <1>5. 1..Len(rq) = {} /\ 1..Len(ev) = {}  BY ONLY <1>2
  <1> QED  BY <1>2, <1>3, <1>4, <1>5 DEF AskedOf

-----------------------------------------------------------------------------
(***************************************************************************)
(* The handlers, one by one: the client stays sound, and while the loop    *)
(* goes on the connector that asked the resolver waits for the answer.     *)
(***************************************************************************)
\* While the loop goes on, a connector that asked waits.
Going ==
    pc' = "loop" =>
        /\ ~client'.thrown
        /\ AskedByConnector' => options.mode = "client" /\ Waits(client')
        /\ options.mode = "client" => InFlight' <= 1

\* Only the list of a local program asks the resolver here.
ListAsks ==
    \/ requestQueue' = requestQueue
    \/ /\ options.mode = "local"
       /\ \E type \in {"ADDRESS", "PORT"} : requestQueue' = Append(requestQueue, type)

\* What every handler achieves.
Effect == Sound(client') /\ QueueType(eventQueue') /\ Ends /\ Going

\* The types, as the lemmas about queues and handlers need them.
LEMMA Types ==
    ASSUME TypeOK
    PROVE  /\ requestQueue \in Seq(Requests) /\ request \in Requests /\ QueueType(eventQueue)
           /\ eventQueue["Resolver"] \in Seq(AnswerEvents)
           /\ options \in Options /\ client \in C!ClientType
  <1>1. "Resolver" \in Threads /\ EventsOf("Resolver") = AnswerEvents  BY DEF Threads, EventsOf
  <1>2. QueueType(eventQueue)  BY DEF TypeOK, QueuesOK
  <1>3. eventQueue["Resolver"] \in Seq(AnswerEvents)  BY <1>1, <1>2 DEF QueueType
  <1> QED  BY <1>2, <1>3 DEF TypeOK, QueuesOK, AppOK, Requests

\* An event that is not an answer leaves a waiting connector alone.
LEMMA OtherEvent ==
    ASSUME TypeOK, Connecting, pc = "loop", request' = request, ListAsks,
           eventQueue'["Resolver"] = eventQueue["Resolver"],
           pc' = "loop" => ~client'.thrown /\ (Waits(client) => Waits(client'))
    PROVE  Going
  <1>1. CASE requestQueue' = requestQueue
    <2>1. (AskedByConnector' <=> AskedByConnector) /\ InFlight' = InFlight
      BY <1>1 DEF AskedByConnector, InFlight
    <2> QED  BY <2>1 DEF Going, Connecting
  <1>2. ASSUME options.mode = "local",
               NEW type \in {"ADDRESS", "PORT"}, requestQueue' = Append(requestQueue, type)
        PROVE  Going
    <2>1. type \in Requests /\ type \notin {"HOSTNAME", "SERVICE"}
      BY DEF Requests, EResolverRequest
    <2>2. AskedByConnector' => AskedByConnector
      BY <1>2, <2>1, Types, PushedRequest DEF AskedByConnector
    <2> QED  BY <1>2, <2>2 DEF Going, Connecting
  <1> QED  BY <1>1, <1>2 DEF ListAsks

\* In the event loop the client is sound, and no exception was thrown.
LEMMA LoopClient ==
    ASSUME TypeOK, Connecting, pc = "loop"
    PROVE  Sound(client) /\ client.thrown = FALSE
  <1>1. ~client.thrown /\ Tracks(client)  BY DEF Connecting
  <1>2. client \in C!ClientType  BY Types
  <1> QED  BY <1>1, <1>2 DEF Sound, C!ClientType

\* UpdateEventCallback, in each mode.
LEMMA UpdateEffect ==
    ASSUME TypeOK, Connecting, pc = "loop", request' = request, NEW queue, QueueType(queue),
           queue["Resolver"] = eventQueue["Resolver"], onUpdateEvent(queue)
    PROVE  Effect /\ ListAsks
  <1>0. Sound(client) /\ client.thrown = FALSE  BY LoopClient
  <1>1. CASE options.mode = "client"
    <2>1. PICK refused : After(C!onUpdate(client, refused), queue)
      BY <1>1 DEF onUpdateEvent
    <2>2. requestQueue' = requestQueue  BY <1>1 DEF onUpdateEvent, resolverVars
    <2>3. PICK c : c = C!onUpdate(client, refused)  OBVIOUS
    <2>4. Sound(c) /\ (client.state = "DISCONNECTED" => c = client)  BY <1>0, <2>3, OnUpdateIsSound
    <2>5. Waits(client) => Waits(c)  BY <2>4 DEF Waits
    <2>6. /\ Sound(client') /\ QueueType(eventQueue') /\ eventQueue'["Resolver"] = queue["Resolver"]
          /\ Waits(c) => Waits(client')
          /\ client'.thrown = c.thrown
          /\ IF c.thrown THEN Thrown /\ pc' = "unwind" ELSE NotThrown /\ pc' = "loop"
      BY <2>1, <2>3, <2>4, AfterFacts
    <2>7. ListAsks  BY <2>2 DEF ListAsks
    <2>8. Going  BY <2>5, <2>6, <2>7, OtherEvent
    <2> QED  BY <2>6, <2>7, <2>8 DEF Effect, Ends
  <1>2. CASE options.mode # "client"
    <2>1. After(client, queue) /\ ListAsks
      <3>1. CASE options.mode = "local"
        BY <3>1 DEF onUpdateEvent, pushRequest, ListAsks, resolverVars
      <3>2. CASE options.mode # "local"
        BY <1>2, <3>2 DEF onUpdateEvent, ListAsks, resolverVars
      <3> QED  BY <3>1, <3>2
    <2>2. /\ Sound(client') /\ QueueType(eventQueue') /\ eventQueue'["Resolver"] = queue["Resolver"]
          /\ Waits(client) => Waits(client')
          /\ client'.thrown = client.thrown
          /\ IF client.thrown THEN Thrown /\ pc' = "unwind" ELSE NotThrown /\ pc' = "loop"
      BY <1>0, <2>1, AfterFacts
    <2>3. Going  BY <1>0, <2>1, <2>2, OtherEvent
    <2> QED  BY <2>1, <2>2, <2>3 DEF Effect, Ends
  <1> QED  BY <1>1, <1>2

\* The socket's handler, which a waiting connector does not have.
LEMMA SocketEffect ==
    ASSUME TypeOK, Connecting, pc = "loop", request' = request, NEW queue, QueueType(queue),
           queue["Resolver"] = eventQueue["Resolver"], NEW flags, onSocketEvent(flags, queue)
    PROVE  Effect /\ ListAsks
  <1>0. Sound(client) /\ client.thrown = FALSE  BY LoopClient
  <1>1. ListAsks  BY DEF onSocketEvent, resolverVars, ListAsks
  <1>2. PICK c : After(c, queue) /\ Sound(c) /\ (Waits(client) => Waits(c))
    <2>1. CASE client.socket = "none"
      BY <1>0, <2>1 DEF onSocketEvent
    <2>2. CASE client.socket # "none"
      <3>1. PICK input \in C!Inputs(client), refused \in SUBSET Combinations :
              After(C!SocketPollHandler(client, flags, input, refused), queue)
        BY <2>2 DEF onSocketEvent
      <3>2. Sound(C!SocketPollHandler(client, flags, input, refused))
        BY <1>0, SocketPollHandlerIsSound
      <3>3. ~Waits(client)  BY <2>2 DEF Waits
      <3> QED  BY <3>1, <3>2, <3>3
    <2> QED  BY <2>1, <2>2
  <1>3. /\ Sound(client') /\ QueueType(eventQueue') /\ eventQueue'["Resolver"] = queue["Resolver"]
        /\ Waits(c) => Waits(client')
        /\ client'.thrown = c.thrown
        /\ IF c.thrown THEN Thrown /\ pc' = "unwind" ELSE NotThrown /\ pc' = "loop"
    BY <1>2, AfterFacts
  <1>4. Going  BY <1>1, <1>2, <1>3, OtherEvent
  <1> QED  BY <1>1, <1>3, <1>4 DEF Effect, Ends

\* The keyboard's handler: F10 leaves a client without a session alone.
LEMMA KeyboardEffect ==
    ASSUME TypeOK, Connecting, pc = "loop", request' = request, NEW queue, QueueType(queue),
           queue["Resolver"] = eventQueue["Resolver"], NEW flags, onKeyboardEvent(flags, queue)
    PROVE  Effect /\ ListAsks
  <1>0. Sound(client) /\ client.thrown = FALSE /\ client \in C!ClientType  BY LoopClient, Types
  <1>1. ListAsks  BY DEF onKeyboardEvent, resolverVars, ListAsks
  <1>2. PICK c : /\ After([c EXCEPT !.thrown = "ERROR" \in flags], queue)
                 /\ c = client \/ c = C!F10(client, {})
    BY DEF onKeyboardEvent
  <1>3. Sound(c) /\ c.thrown = FALSE /\ (Waits(client) => Waits(c))
    <2>1. CASE c = client  BY <1>0, <2>1
    <2>2. CASE c = C!F10(client, {})
      <3>1. Sound(c) /\ ~c.thrown /\ (client.state # "CONNECTED" => c = [client EXCEPT !.quit = TRUE])
        BY <1>0, <2>2, F10IsSound
      <3>2. c.thrown = FALSE  BY <3>1 DEF Sound, C!ClientType
      <3>3. Waits(client) => Waits(c)
        BY ONLY <1>0, <3>1 DEF Waits, C!ClientType
      <3> QED  BY <3>1, <3>2, <3>3
    <2> QED  BY <1>2, <2>1, <2>2
  <1>4. PICK b : b = ("ERROR" \in flags)  OBVIOUS
  <1>5. PICK d : d = [c EXCEPT !.thrown = b]  OBVIOUS
  <1>6. b \in BOOLEAN /\ c \in C!ClientType /\ After(d, queue)
    BY <1>2, <1>3, <1>4, <1>5 DEF Sound
  <1>7. d \in C!ClientType  BY ONLY <1>5, <1>6 DEF C!ClientType
  <1>8. Sound(d)
    <2>1. CASE b = FALSE
      <3>1. SamePack(c, d)  BY <1>3, <1>5, <1>6, <2>1 DEF SamePack, C!ClientType
      <3> QED  BY <1>3, <1>7, <3>1, SamePackIsSound
    <2>2. CASE b = TRUE
      <3>1. /\ d.addresses = c.addresses /\ d.ports = c.ports /\ d.addressIndex = c.addressIndex
            /\ d.portIndex = c.portIndex /\ d.current = c.current /\ d.tried = c.tried
        BY ONLY <1>5, <1>6 DEF C!ClientType
      <3>2. AllCombinations(d) = AllCombinations(c)  BY <3>1 DEF AllCombinations
      <3>3. Remaining(d) = Remaining(c)  BY <3>1, <3>2 DEF Remaining
      <3>4. Covers(d) <=> Covers(c)  BY <3>1, <3>2, <3>3 DEF Covers
      <3> QED  BY <1>3, <1>7, <3>1, <3>4 DEF Sound, Tracks
    <2> QED  BY <1>6, <2>1, <2>2
  <1>9. /\ Sound(client') /\ QueueType(eventQueue') /\ eventQueue'["Resolver"] = queue["Resolver"]
        /\ Waits(d) => Waits(client')
        /\ client'.thrown = d.thrown
        /\ IF d.thrown THEN Thrown /\ pc' = "unwind" ELSE NotThrown /\ pc' = "loop"
    BY <1>6, <1>8, AfterFacts
  <1>10. ~d.thrown /\ Waits(c) => Waits(d)  BY ONLY <1>5, <1>6 DEF Waits, C!ClientType
  <1>11. pc' = "loop" => ~d.thrown  BY <1>9
  <1>12. Going  BY <1>1, <1>3, <1>9, <1>10, <1>11, OtherEvent
  <1> QED  BY <1>1, <1>9, <1>12 DEF Effect, Ends

\* AppEventCallback.
LEMMA QuitEffect ==
    ASSUME TypeOK, Connecting, pc = "loop", request' = request, NEW queue, QueueType(queue),
           queue["Resolver"] = eventQueue["Resolver"], onQuit, eventQueue' = queue
    PROVE  Effect /\ ListAsks
  <1>0. Sound(client) /\ client.thrown = FALSE  BY LoopClient
  <1>1. client' = client /\ pc' = "loop" /\ ListAsks /\ NotThrown
    BY DEF onQuit, resolverVars, ListAsks
  <1>2. Sound(client')  BY <1>0, <1>1
  <1>3. Going  BY <1>0, <1>1, OtherEvent
  <1> QED  BY <1>1, <1>2, <1>3 DEF Effect, Ends

\* An answer for the connector is the only request in flight, and finds it waiting.
LEMMA AnswerEffect ==
    ASSUME TypeOK, Connecting, pc = "loop", request' = request, NEW queue, QueueType(queue),
           NEW r, r = Head(eventQueue["Resolver"]).content, eventQueue["Resolver"] # <<>>,
           queue["Resolver"] = Tail(eventQueue["Resolver"]), onResolverEvent(r, queue)
    PROVE  Effect /\ (requestQueue' = requestQueue \/ requestQueue' = Append(requestQueue, "HOSTNAME"))
  <1> DEFINE ev == eventQueue["Resolver"]
  <1>0. Sound(client) /\ client.thrown = FALSE  BY LoopClient
  <1>1. /\ requestQueue \in Seq(Requests) /\ request \in Requests /\ ev \in Seq(AnswerEvents) /\ ev # <<>>
        /\ options \in Options
    BY Types
  <1>2. Head(ev) \in AnswerEvents /\ Tail(ev) \in Seq(AnswerEvents)
    <2> HIDE DEF ev
    <2> QED  BY <1>1
  <1>3. r.type \in EResolverRequest /\ r.found \in Nat  BY <1>2 DEF AnswerEvents
  <1>4. /\ InFlightOf(requestQueue, request, Tail(ev)) = InFlight - 1
        /\ AskedOf(requestQueue, request, Tail(ev)) => AskedByConnector
        /\ r.type \in {"HOSTNAME", "SERVICE"} => AskedByConnector
    BY <1>1, HandledAnswer DEF InFlight, AskedByConnector
  <1>5. InFlight \in Int  BY <1>1, InFlightIsNatural DEF InFlight
  <1>6. ASSUME r.type \in {"HOSTNAME", "SERVICE"}
        PROVE  /\ Waits(client) /\ options.mode = "client"
               /\ InFlightOf(requestQueue, request, Tail(ev)) <= 0
               /\ requestQueue = <<>> /\ request = NoRequest
               /\ ~AskedOf(requestQueue, request, Tail(ev))
    <2>1. Waits(client) /\ options.mode = "client" /\ InFlight <= 1  BY <1>4, <1>6 DEF Connecting
    <2>2. InFlightOf(requestQueue, request, Tail(ev)) <= 0  BY ONLY <1>4, <1>5, <2>1
    <2> QED  BY <1>1, <1>2, <2>1, <2>2, NothingInFlight
  <1>7. CASE r.type = "HOSTNAME"
    <2>1. PICK refused : After(C!HostResolveCallback(client, r.found, refused), queue)
      BY <1>7 DEF onResolverEvent
    <2>2. requestQueue' = requestQueue  BY <1>7 DEF onResolverEvent, resolverVars
    <2>3. PICK c : c = C!HostResolveCallback(client, r.found, refused)  OBVIOUS
    <2>4. Sound(c)  BY <1>0, <1>3, <1>6, <1>7, <2>3, HostResolveCallbackIsSound
    <2>5. /\ Sound(client') /\ QueueType(eventQueue') /\ eventQueue'["Resolver"] = queue["Resolver"]
          /\ client'.thrown = c.thrown
          /\ IF c.thrown THEN Thrown /\ pc' = "unwind" ELSE NotThrown /\ pc' = "loop"
      BY <2>1, <2>3, <2>4, AfterFacts
    <2>6. ~AskedByConnector' /\ InFlight' <= 0
      BY <1>6, <1>7, <2>2, <2>5 DEF AskedByConnector, InFlight
    <2>7. InFlight' <= 1
      <3>1. InFlight' = InFlight - 1  BY <1>4, <2>2, <2>5 DEF InFlight
      <3> QED  BY ONLY <1>5, <2>6, <3>1
    <2>8. Going  BY <2>5, <2>6, <2>7 DEF Going
    <2> QED  BY <2>2, <2>5, <2>8 DEF Effect, Ends
  <1>8. CASE r.type = "SERVICE"
    <2>1. After(C!PortResolveCallback(client, r.found), queue)  BY <1>8 DEF onResolverEvent
    <2>2. IF r.found = 0 THEN requestQueue' = requestQueue
          ELSE requestQueue' = Append(requestQueue, "HOSTNAME")
      BY <1>8 DEF onResolverEvent, resolverVars, pushRequest
    <2>3. PICK c : c = C!PortResolveCallback(client, r.found)  OBVIOUS
    <2>4. Sound(c) /\ IF r.found = 0 THEN c.thrown ELSE Waits(c)
      BY <1>0, <1>3, <1>6, <1>8, <2>3, PortResolveCallbackIsSound
    <2>5. /\ Sound(client') /\ QueueType(eventQueue') /\ eventQueue'["Resolver"] = queue["Resolver"]
          /\ Waits(c) => Waits(client')
          /\ client'.thrown = c.thrown
          /\ IF c.thrown THEN Thrown /\ pc' = "unwind" ELSE NotThrown /\ pc' = "loop"
      BY <2>1, <2>3, <2>4, AfterFacts
    <2>6. CASE r.found = 0
      <3>1. pc' # "loop"  BY <2>4, <2>5, <2>6
      <3> QED  BY <2>2, <2>5, <2>6, <3>1 DEF Effect, Ends, Going
    <2>7. CASE r.found # 0
      <3>1. Waits(client') /\ ~c.thrown  BY <2>4, <2>5, <2>7 DEF Waits
      <3>2. "HOSTNAME" \in Requests  BY DEF Requests, EResolverRequest
      <3>3. InFlight' = InFlightOf(requestQueue, request, Tail(ev)) + 1
        <4>1. PICK v : v = Tail(ev)  OBVIOUS
        <4>2. v \in Seq(AnswerEvents)  BY <1>2, <4>1
        <4>3. InFlight' = InFlightOf(Append(requestQueue, "HOSTNAME"), request, v)
          BY <2>2, <2>5, <2>7, <4>1 DEF InFlight
        <4>4. InFlightOf(Append(requestQueue, "HOSTNAME"), request, v)
                = InFlightOf(requestQueue, request, v) + 1
          BY <1>1, <3>2, <4>2, PushedRequest
        <4> QED  BY ONLY <4>1, <4>3, <4>4
      <3>4. InFlight' <= 1  BY ONLY <1>4, <1>5, <1>6, <1>8, <3>3
      <3>5. Going  BY <1>6, <1>8, <2>5, <3>1, <3>4 DEF Going
      <3> QED  BY <2>2, <2>5, <2>7, <3>5 DEF Effect, Ends
    <2> QED  BY <2>6, <2>7
  <1>9. CASE r.type \notin {"HOSTNAME", "SERVICE"}
    <2>1. After(client, queue) /\ requestQueue' = requestQueue
      BY <1>9, Zenon DEF onResolverEvent, resolverVars
    <2>2. /\ Sound(client') /\ QueueType(eventQueue') /\ eventQueue'["Resolver"] = queue["Resolver"]
          /\ Waits(client) => Waits(client')
          /\ client'.thrown = client.thrown
          /\ IF client.thrown THEN Thrown /\ pc' = "unwind" ELSE NotThrown /\ pc' = "loop"
      BY <1>0, <2>1, AfterFacts
    <2>3. AskedByConnector' => AskedByConnector
      BY <1>4, <2>1, <2>2 DEF AskedByConnector
    <2>4. InFlight' = InFlight - 1  BY <1>4, <2>1, <2>2 DEF InFlight
    <2>5. InFlight <= 1 => InFlight' <= 1  BY ONLY <1>5, <2>4
    <2>6. Going  BY <1>0, <2>2, <2>3, <2>5 DEF Going, Connecting
    <2> QED  BY <2>1, <2>2, <2>6 DEF Effect, Ends
  <1> QED  BY <1>7, <1>8, <1>9

\* What no handler changes.
HandleKeeps ==
    UNCHANGED <<callbacks, platformVars, options, alive, hasLog, pollVars, isResolving, resolverPC, request>>

\* One round of the event loop, whatever the event.
LEMMA HandleEffect ==
    ASSUME TypeOK, Connecting, NEW t \in Threads, Handle(t)
    PROVE  /\ pc = "loop" /\ Effect /\ HandleKeeps
           /\ ListAsks \/ requestQueue' = Append(requestQueue, "HOSTNAME")
  <1> DEFINE e == Head(eventQueue[t])
             queue == Dequeued(eventQueue, t)
  <1>1. pc = "loop" /\ eventQueue[t] # <<>>  BY DEF Handle
  <1>2. QueueType(eventQueue)  BY Types
  <1>3. /\ QueueType(queue) /\ e \in EventsOf(t)
        /\ t # "Resolver" => queue["Resolver"] = eventQueue["Resolver"]
        /\ queue[t] = Tail(eventQueue[t])
    BY <1>1, <1>2, DequeuedType
  <1>4. UNCHANGED <<callbacks, platformVars, options, alive, hasLog, pollVars>>  BY DEF Handle
  <1> HIDE DEF e, queue
  <1>5. CASE t = "Resolver"
    <2>1. e.id = "RESOLVER_INTERNAL_EVENT"  BY <1>3, <1>5 DEF EventsOf, AnswerEvents
    <2>2. onResolverEvent(e.content, queue)
      <3>1. CASE e.id = "RESOLVER_INTERNAL_EVENT"  BY <3>1 DEF Handle, e, queue
      <3> QED  BY <2>1, <3>1
    <2>3. UNCHANGED <<isResolving, resolverPC, request>>
      <3>1. CASE e.content.type = "HOSTNAME"  BY <2>2, <3>1 DEF onResolverEvent, resolverVars
      <3>2. CASE e.content.type = "SERVICE"
        BY <2>2, <3>2 DEF onResolverEvent, resolverVars, pushRequest
      <3>3. CASE e.content.type \notin {"HOSTNAME", "SERVICE"}
        BY <2>2, <3>3, Zenon DEF onResolverEvent, resolverVars
      <3> QED  BY <3>1, <3>2, <3>3
    <2>4. PICK r : r = e.content  OBVIOUS
    <2>5. Effect /\ (requestQueue' = requestQueue \/ requestQueue' = Append(requestQueue, "HOSTNAME"))
      <3>1. r = Head(eventQueue["Resolver"]).content  BY <1>5, <2>4 DEF e
      <3> QED  BY <1>1, <1>3, <1>5, <2>2, <2>3, <2>4, <3>1, AnswerEffect
    <2> QED  BY <1>1, <1>4, <2>3, <2>5 DEF HandleKeeps, ListAsks
  <1>6. CASE t # "Resolver"
    <2>1. e \in OtherEvents  BY <1>3, <1>6 DEF EventsOf
    <2>2. e.id \in {"POLL_SYSTEM_INTERNAL_EVENT", "UPDATE_EVENT", "APP_INTERNAL_EVENT"}
      BY <2>1 DEF OtherEvents
    <2>3. queue["Resolver"] = eventQueue["Resolver"]  BY <1>3, <1>6
    <2>4. CASE e.id = "APP_INTERNAL_EVENT"
      <3>1. onQuit /\ eventQueue' = queue  BY <2>4 DEF Handle, e, queue
      <3>2. UNCHANGED <<isResolving, resolverPC, request>>  BY <3>1 DEF onQuit, resolverVars
      <3>3. Effect /\ ListAsks  BY <1>1, <1>3, <2>3, <3>1, <3>2, QuitEffect
      <3> QED  BY <1>1, <1>4, <3>2, <3>3 DEF HandleKeeps
    <2>5. CASE e.id = "UPDATE_EVENT"
      <3>1. onUpdateEvent(queue)  BY <2>5 DEF Handle, e, queue
      <3>2. UNCHANGED <<isResolving, resolverPC, request>>
        <4>1. CASE options.mode = "client"  BY <3>1, <4>1 DEF onUpdateEvent, resolverVars
        <4>2. CASE options.mode = "local"  BY <3>1, <4>2 DEF onUpdateEvent, resolverVars, pushRequest
        <4>3. CASE options.mode \notin {"client", "local"}
          BY <3>1, <4>3, Zenon DEF onUpdateEvent, resolverVars
        <4> QED  BY <4>1, <4>2, <4>3
      <3>3. Effect /\ ListAsks  BY <1>1, <1>3, <2>3, <3>1, <3>2, UpdateEffect
      <3> QED  BY <1>1, <1>4, <3>2, <3>3 DEF HandleKeeps
    <2>6. CASE e.id = "POLL_SYSTEM_INTERNAL_EVENT"
      <3>1. IF e.content.fd = "stdin" THEN onKeyboardEvent(e.content.flags, queue)
            ELSE onSocketEvent(e.content.flags, queue)
        BY <2>6 DEF Handle, e, queue
      <3>2. UNCHANGED <<isResolving, resolverPC, request>>
        BY <3>1 DEF onKeyboardEvent, onSocketEvent, resolverVars
      <3>3. Effect /\ ListAsks
        BY <1>1, <1>3, <2>3, <3>1, <3>2, KeyboardEffect, SocketEffect
      <3> QED  BY <1>1, <1>4, <3>2, <3>3 DEF HandleKeeps
    <2> QED  BY <2>2, <2>4, <2>5, <2>6
  <1> QED  BY <1>5, <1>6

-----------------------------------------------------------------------------
(***************************************************************************)
(* Who exists and who runs.                                                *)
(***************************************************************************)
\* The requests of the list: pushed, taken, and none in an empty queue.
LEMMA ListRequests ==
    ASSUME NEW rq \in Seq(Requests)
    PROVE  /\ \A r, type : type \notin {"ADDRESS", "PORT"} /\ ListAsked(Append(rq, type), r)
                             => ListAsked(rq, r)
           /\ rq # <<>> => /\ Head(rq) \in Requests
                           /\ ListAsked(Tail(rq), Head(rq)) => ListAsked(rq, NoRequest)
           /\ ~ListAsked(<<>>, NoRequest)
  <1>1. ASSUME NEW r, NEW type, type \notin {"ADDRESS", "PORT"}, ListAsked(Append(rq, type), r)
        PROVE  ListAsked(rq, r)
    <2>1. PICK a : a = Append(rq, type)  OBVIOUS
    <2>2. /\ Len(rq) \in Nat /\ Len(a) = Len(rq) + 1 /\ a[Len(rq) + 1] = type
          /\ \A i \in 1..Len(rq) : a[i] = rq[i]
      BY ONLY <2>1, rq \in Seq(Requests)
    <2>3. \A i \in 1..Len(a) : i \in 1..Len(rq) \/ i = Len(rq) + 1  BY ONLY <2>2
    <2> QED  BY ONLY <1>1, <2>1, <2>2, <2>3 DEF ListAsked
  <1>2. ASSUME rq # <<>>
        PROVE  Head(rq) \in Requests /\ (ListAsked(Tail(rq), Head(rq)) => ListAsked(rq, NoRequest))
    <2>1. PICK a, h : a = Tail(rq) /\ h = Head(rq)  OBVIOUS
    <2>2. /\ h \in Requests /\ Len(rq) \in Nat /\ Len(rq) >= 1
          /\ Len(a) = Len(rq) - 1 /\ h = rq[1] /\ \A i \in 1..Len(a) : a[i] = rq[i + 1]
      BY ONLY <1>2, <2>1, rq \in Seq(Requests)
    <2>3. 1 \in 1..Len(rq) /\ \A i \in 1..Len(a) : i + 1 \in 1..Len(rq)  BY ONLY <2>2
    <2> QED  BY ONLY <2>1, <2>2, <2>3 DEF ListAsked
  <1>3. ~ListAsked(<<>>, NoRequest)  BY DEF ListAsked, NoRequest
  <1> QED  BY <1>1, <1>2, <1>3

\* launch() creates the parts before their users.
LEMMA CreationKeepsLife ==
    ASSUME TypeOK, Life, CreateApp \/ Start \/ Create \/ CreateFails \/ InitParts \/ Run
    PROVE  Life'
  <1> USE DEF Life
  <1>0. requestQueue \in Seq(Requests) /\ request \in Requests /\ options \in Options  BY Types
  <1>1. CASE CreateApp
    <2>1. alive' = {"EventSystem", "PollSystem"} /\ pc' = "start" /\ pollPC' = "run"
      BY <1>1 DEF CreateApp
    <2>2. UNCHANGED <<requestQueue, resolverPC, request, signalPC, options>>
      BY <1>1 DEF CreateApp, resolverVars, platformVars
    <2>3. alive = {} /\ callbacks = {}  BY <1>1 DEF CreateApp, Threading
    <2>4. callbacks' = IDs("PollSystem")  BY <1>1, <2>3 DEF CreateApp, addCallback
    <2>5. Threading'
      BY <1>1, <2>1, <2>2, <2>3 DEF CreateApp, Threading, Launched
    <2>6. Registered'
      BY <2>1, <2>4 DEF Registered, IDs
    <2>7. Needed'
      <3>1. ~AskedByList  BY <2>3 DEF Needed, Resolvable
      <3> QED  BY <2>1, <2>2, <3>1 DEF Needed, AskedByList
    <2> QED  BY <2>5, <2>6, <2>7
  <1>2. CASE Start
    <2>1. pc = "start" /\ pc' = "create" /\ signalPC' = "wait"  BY <1>2 DEF Start, StartPlatform
    <2>2. UNCHANGED <<requestQueue, resolverPC, request, options, alive, callbacks, pollPC>>
      BY <1>2 DEF Start, eventVars, resolverVars, pollVars
    <2>3. Threading'  BY <2>1, <2>2 DEF Threading, Launched
    <2>4. Registered'  BY <2>1, <2>2 DEF Registered
    <2>5. Needed'  BY <2>1, <2>2 DEF Needed, AskedByList, Resolvable
    <2> QED  BY <2>3, <2>4, <2>5
  <1>3. CASE Create
    <2>1. PICK part : part = Next1(options)  OBVIOUS
    <2>2. /\ pc = "create" /\ pc' = "create" /\ part # "none" /\ alive' = alive \cup {part}
          /\ callbacks' = callbacks \cup IDs(part)
          /\ UNCHANGED <<requestQueue, request, options, pollPC, signalPC>>
      BY <1>3, <2>1 DEF Create, addCallback, StartResolver, resolverVars, platformVars, pollVars
    <2>3. resolverPC' = IF part = "Resolver" THEN "loop" ELSE resolverPC
      BY <1>3, <2>1 DEF Create, StartResolver, resolverVars
    <2>4. part \in Parts \ alive  BY <1>0, <2>1, <2>2, NextPartFacts
    <2>5. {"EventSystem", "PollSystem"} \subseteq alive  BY <2>2 DEF Threading, Launched
    <2>6. Threading'
      <3>1. (resolverPC' = "process") = (request' # NoRequest)
        <4>1. part = "Resolver" => resolverPC # "process"  BY <2>4 DEF Threading
        <4> QED  BY <2>2, <2>3, <4>1 DEF Threading
      <3> QED  BY <2>2, <2>3, <2>5, <3>1 DEF Threading, Launched
    <2>7. Registered'  BY <2>2 DEF Registered, IDs
    <2>8. Needed'  BY <2>2 DEF Needed, AskedByList, Resolvable
    <2> QED  BY <2>6, <2>7, <2>8
  <1>4. CASE CreateFails
    <2>1. pc = "create" /\ pc' = "stop"  BY <1>4 DEF CreateFails
    <2>2. UNCHANGED <<requestQueue, resolverPC, request, options, alive, callbacks, pollPC, signalPC>>
      BY <1>4 DEF CreateFails, eventVars, resolverVars, pollVars, platformVars
    <2>3. Threading'  BY <2>1, <2>2 DEF Threading, Launched
    <2>4. Registered'  BY <2>1, <2>2 DEF Registered
    <2>5. Needed'  BY <2>1, <2>2 DEF Needed, AskedByList, Resolvable
    <2> QED  BY <2>3, <2>4, <2>5
  <1>5. CASE InitParts
    <2>1. /\ pc = "create" /\ pc' \in {"unwind", "run"} /\ Next1(options) = "none"
          /\ callbacks' = callbacks \cup {"APP_INTERNAL_EVENT", "UPDATE_EVENT"}
          /\ UNCHANGED <<options, alive, pollPC, signalPC>>
      BY <1>5 DEF InitParts, addCallback, pollVars, platformVars
    <2>2. UNCHANGED <<resolverPC, request>>
      <3>1. CASE options.mode = "client"
        BY <1>5, <3>1 DEF InitParts, resolverVars, pushRequest
      <3>2. CASE options.mode = "local"
        BY <1>5, <3>2 DEF InitParts, resolverVars, pushRequest
      <3>3. CASE options.mode \notin {"client", "local"}
        BY <1>5, <3>3 DEF InitParts, resolverVars, pushRequest
      <3> QED  BY <3>1, <3>2, <3>3
    <2>3. \/ requestQueue' = requestQueue
          \/ requestQueue' = Append(requestQueue, "SERVICE")
          \/ requestQueue' = Append(requestQueue, "HOSTNAME")
          \/ options.mode = "local"
      <3>1. CASE options.mode = "client"
        BY <1>5, <3>1 DEF InitParts, resolverVars, pushRequest
      <3>2. CASE options.mode \notin {"client", "local"}
        BY <1>5, <3>2 DEF InitParts, resolverVars
      <3> QED  BY <3>1, <3>2
    <2>4. {"EventSystem", "PollSystem"} \subseteq alive  BY <2>1 DEF Threading, Launched
    <2>5. options.mode = "local" => Resolvable
      BY <1>0, <2>1, NextPartFacts DEF Resolvable
    <2>6. Threading'  BY <2>1, <2>2 DEF Threading, Launched
    <2>7. Registered'  BY <2>1, <2>4 DEF Registered, Owner
    <2>8. AskedByList' => AskedByList \/ options.mode = "local"
      <3>1. \A type : type \notin {"ADDRESS", "PORT"} /\ ListAsked(Append(requestQueue, type), request)
                        => ListAsked(requestQueue, request)
        BY <1>0, ListRequests
      <3> QED  BY <2>2, <2>3, <3>1 DEF AskedByList
    <2>9. Needed'  BY <2>1, <2>5, <2>8 DEF Needed, Resolvable
    <2> QED  BY <2>6, <2>7, <2>9
  <1>6. CASE Run
    <2>1. pc = "run" /\ pc' = "loop"  BY <1>6 DEF Run
    <2>2. UNCHANGED <<requestQueue, resolverPC, request, options, alive, callbacks, pollPC, signalPC>>
      BY <1>6 DEF Run, resolverVars, pollVars, platformVars
    <2>3. Threading'  BY <2>1, <2>2 DEF Threading, Launched
    <2>4. Registered'  BY <2>1, <2>2 DEF Registered
    <2>5. Needed'  BY <2>1, <2>2 DEF Needed, AskedByList, Resolvable
    <2> QED  BY <2>3, <2>4, <2>5
  <1> QED  BY <1>1, <1>2, <1>3, <1>4, <1>5, <1>6

\* The members are destroyed after everybody who uses them.
LEMMA DestructionKeepsLife ==
    ASSUME TypeOK, Life, Shutdown
    PROVE  Life'
  <1> USE DEF Life
  <1>0. requestQueue \in Seq(Requests) /\ request \in Requests /\ alive \subseteq Parts
    BY Types DEF TypeOK, AppOK
  <1>1. ASSUME pc' \in Launched \cup Destroying,
               pc' \notin {"run", "loop", "wakeResolver", "joinResolver", "joinPoll"},
               pc' \in Destroying => signalPC \notin {"wait", "handle"},
               pc' \in Launched => pc \in Launched,
               callbacks' \subseteq callbacks,
               UNCHANGED <<requestQueue, resolverPC, request, options, alive, pollPC, signalPC>>
        PROVE  Life'
    <2>1. Threading'  BY <1>1 DEF Threading, Launched, Destroying
    <2>2. Registered'  BY <1>1 DEF Registered
    <2>3. Needed'  BY <1>1 DEF Needed, AskedByList, Resolvable
    <2> QED  BY <2>1, <2>2, <2>3
  <1>2. CASE LeaveLoop
    BY <1>1, <1>2 DEF LeaveLoop, Launched, Destroying, eventVars, resolverVars, pollVars, platformVars
  <1>3. CASE Unwind
    BY <1>1, <1>3 DEF Unwind, Launched, Destroying, delCallback, resolverVars, pollVars, platformVars
  <1>4. CASE Stop
    BY <1>1, <1>4 DEF Stop, StopPlatform, Launched, Destroying, eventVars, resolverVars, pollVars
  <1>5. CASE JoinSignal
    BY <1>1, <1>5 DEF JoinSignal, Launched, Destroying, eventVars, resolverVars, pollVars, platformVars
  <1>6. CASE Exit
    <2>1. pc = "destroy" /\ pc' = "exit"  BY <1>6 DEF Exit
    <2>2. signalPC \notin {"wait", "handle"}  BY <2>1 DEF Threading, Launched
    <2> QED
      BY <1>1, <1>6, <2>1, <2>2
         DEF Exit, Launched, Destroying, eventVars, resolverVars, pollVars, platformVars
  <1>7. CASE DestroyPart
    <2>1. PICK p : p = LastPart  OBVIOUS
    <2>2. /\ pc = "destroy" /\ pc' = "destroy" /\ alive # {} /\ p \notin {"Resolver", "PollSystem"}
          /\ callbacks' = callbacks \ IDs(p) /\ alive' = alive \ {p}
          /\ UNCHANGED <<requestQueue, resolverPC, request, options, pollPC, signalPC>>
      BY <1>7, <2>1 DEF DestroyPart, delCallback, resolverVars, pollVars, platformVars
    <2>3. /\ p \in alive
          /\ p = "EventSystem" => "PollSystem" \notin alive
          /\ p \in {"ConnectionList", "GeoIP"} => "Resolver" \notin alive
      BY <1>0, <2>1, <2>2, LastPartFacts
    <2>4. Threading'  BY <2>2, <2>3 DEF Threading, Launched
    <2>5. Registered'
      <3>1. callbacks \subseteq EventID  BY DEF TypeOK, AppOK
      <3> QED  BY <2>2, <3>1 DEF Registered, IDs
    <2>6. Needed'  BY <2>2, <2>3 DEF Needed, AskedByList, Resolvable
    <2> QED  BY <2>4, <2>5, <2>6
  <1>8. CASE StopResolver
    <2>1. /\ pc = "destroy" /\ pc' = "wakeResolver"
          /\ callbacks' = callbacks \ IDs("Resolver")
          /\ UNCHANGED <<requestQueue, resolverPC, request, options, alive, pollPC, signalPC>>
      BY <1>8 DEF StopResolver, delCallback, pollVars, platformVars
    <2>2. "RESOLVER_INTERNAL_EVENT" \in IDs("Resolver")  BY DEF IDs, EventID, Owner
    <2>3. Threading'  BY <2>1 DEF Threading, Launched
    <2>4. Registered'  BY <2>1, <2>2 DEF Registered
    <2>5. Needed'  BY <2>1 DEF Needed, AskedByList, Resolvable
    <2> QED  BY <2>3, <2>4, <2>5
  <1>9. CASE WakeResolver
    <2>1. /\ pc = "wakeResolver" /\ pc' = "joinResolver" /\ requestQueue' = Append(requestQueue, NoRequest)
          /\ UNCHANGED <<callbacks, resolverPC, request, options, alive, pollPC, signalPC>>
      BY <1>9 DEF WakeResolver, pushRequest, pollVars, platformVars, eventVars
    <2>2. Threading'  BY <2>1 DEF Threading, Launched
    <2>3. Registered'  BY <2>1 DEF Registered
    <2>4. AskedByList' => AskedByList
      <3>1. NoRequest \notin {"ADDRESS", "PORT"}  BY DEF NoRequest
      <3>2. \A type : type \notin {"ADDRESS", "PORT"} /\ ListAsked(Append(requestQueue, type), request)
                        => ListAsked(requestQueue, request)
        BY <1>0, ListRequests
      <3> QED  BY <2>1, <3>1, <3>2 DEF AskedByList
    <2>5. Needed'  BY <2>1, <2>4 DEF Needed, Resolvable
    <2> QED  BY <2>2, <2>3, <2>5
  <1>10. CASE JoinResolver
    <2>1. /\ pc = "joinResolver" /\ pc' = "destroy" /\ resolverPC = "exit"
          /\ alive' = alive \ {"Resolver"} /\ requestQueue' = <<>>
          /\ UNCHANGED <<callbacks, resolverPC, request, options, pollPC, signalPC>>
      BY <1>10 DEF JoinResolver, pollVars, platformVars, eventVars
    <2>2. Threading'  BY <2>1 DEF Threading, Launched
    <2>3. Registered'
      <3>1. \A id \in callbacks : Owner(id) # "Resolver"
        <4>1. "RESOLVER_INTERNAL_EVENT" \notin callbacks  BY <2>1 DEF Registered
        <4> QED  BY <4>1 DEF Owner
      <3> QED  BY <2>1, <3>1 DEF Registered
    <2>4. ~AskedByList'
      <3>1. request = NoRequest  BY <2>1 DEF Threading
      <3> QED  BY <1>0, <2>1, <3>1, ListRequests DEF AskedByList
    <2>5. Needed'  BY <2>1, <2>4 DEF Needed
    <2> QED  BY <2>2, <2>3, <2>5
  <1>11. CASE StopPoll
    <2>1. /\ pc = "destroy" /\ pc' = "joinPoll" /\ alive # {} /\ LastPart = "PollSystem"
          /\ callbacks' = callbacks \ IDs("PollSystem")
          /\ UNCHANGED <<requestQueue, resolverPC, request, options, alive, pollPC, signalPC>>
      BY <1>11 DEF StopPoll, delCallback, resolverVars, platformVars
    <2>2. "POLL_SYSTEM_INTERNAL_EVENT" \in IDs("PollSystem")  BY DEF IDs, EventID, Owner
    <2>3. "Resolver" \notin alive  BY <1>0, <2>1, LastPartFacts
    <2>4. Threading'  BY <2>1 DEF Threading, Launched
    <2>5. Registered'  BY <2>1, <2>2, <2>3 DEF Registered
    <2>6. Needed'  BY <2>1 DEF Needed, AskedByList, Resolvable
    <2> QED  BY <2>4, <2>5, <2>6
  <1>12. CASE JoinPoll
    <2>1. /\ pc = "joinPoll" /\ pc' = "destroy" /\ pollPC = "exit" /\ alive' = alive \ {"PollSystem"}
          /\ UNCHANGED <<callbacks, requestQueue, resolverPC, request, options, pollPC, signalPC>>
      BY <1>12 DEF JoinPoll, resolverVars, pollVars, platformVars, eventVars
    <2>2. "Resolver" \notin alive /\ "POLL_SYSTEM_INTERNAL_EVENT" \notin callbacks
      BY <2>1 DEF Registered
    <2>3. Threading'  BY <2>1, <2>2 DEF Threading, Launched
    <2>4. Registered'
      <3>1. \A id \in callbacks : Owner(id) # "PollSystem"  BY <2>2 DEF Owner
      <3> QED  BY <2>1, <3>1 DEF Registered
    <2>5. Needed'  BY <2>1 DEF Needed, AskedByList, Resolvable
    <2> QED  BY <2>3, <2>4, <2>5
  <1> QED
    BY <1>2, <1>3, <1>4, <1>5, <1>6, <1>7, <1>8, <1>9, <1>10, <1>11, <1>12 DEF Shutdown

\* The other threads, and the environment, create and destroy nothing.
LEMMA ThreadsKeepLife ==
    ASSUME TypeOK, Life, Poll \/ PollExit \/ Network \/ ResolverStep \/ SignalStep
                           \/ (\E s \in Signals : RaiseStep(s)) \/ UNCHANGED vars
    PROVE  Life'
  <1> USE DEF Life
  <1>0. requestQueue \in Seq(Requests) /\ request \in Requests  BY Types
  <1>1. ASSUME UNCHANGED <<pc, callbacks, requestQueue, request, resolverPC, options, alive>>,
               pollPC' = "run" => pollPC = "run",
               signalPC' \in {"wait", "handle"} => signalPC \in {"wait", "handle"},
               pollPC = "none" => pollPC' = "none"
        PROVE  Life'
    <2>1. Threading'  BY <1>1 DEF Threading, Launched
    <2>2. Registered'  BY <1>1 DEF Registered
    <2>3. Needed'  BY <1>1 DEF Needed, AskedByList, Resolvable
    <2> QED  BY <2>1, <2>2, <2>3
  <1>2. CASE Poll  BY <1>1, <1>2 DEF Poll, resolverVars, pollVars, platformVars
  <1>3. CASE PollExit  BY <1>1, <1>3 DEF PollExit, eventVars, resolverVars, platformVars, mainVars
  <1>4. CASE Network  BY <1>1, <1>4 DEF Network, eventVars, resolverVars, platformVars, pollVars
  <1>5. CASE SignalStep
    BY <1>1, <1>5 DEF SignalStep, SignalThread, SignalWait, SignalHandle, resolverVars, mainVars, pollVars
  <1>6. CASE \E s \in Signals : RaiseStep(s)
    BY <1>1, <1>6 DEF RaiseStep, Raise, resolverVars, mainVars, pollVars
  <1>7. CASE UNCHANGED vars
    BY <1>1, <1>7 DEF vars, eventVars, resolverVars, platformVars, mainVars, pollVars
  <1>8. CASE ResolverStep
    <2>1. UNCHANGED <<pc, callbacks, options, alive, pollPC, signalPC>>
      BY <1>8 DEF ResolverStep, mainVars, pollVars, platformVars
    <2>2. ASSUME resolverPC' \in {"loop", "wait", "process"} => resolverPC \in {"loop", "wait", "process"},
                 (resolverPC' = "process") = (request' # NoRequest),
                 AskedByList' => AskedByList
          PROVE  Life'
      <3>1. Threading'  BY <2>1, <2>2 DEF Threading, Launched
      <3>2. Registered'  BY <2>1 DEF Registered
      <3>3. Needed'  BY <2>1, <2>2 DEF Needed, Resolvable
      <3> QED  BY <3>1, <3>2, <3>3
    <2>3. (resolverPC = "process") = (request # NoRequest)  BY DEF Threading
    <2>4. CASE ResolverLoop
      BY <2>2, <2>3, <2>4 DEF ResolverLoop, AskedByList
    <2>5. CASE ResolverWait
      <3>1. request = NoRequest  BY <2>3, <2>5 DEF ResolverWait
      <3>2. /\ requestQueue # <<>> /\ requestQueue' = Tail(requestQueue) /\ request' = Head(requestQueue)
            /\ resolverPC = "wait"
            /\ resolverPC' = IF Head(requestQueue) = NoRequest THEN "loop" ELSE "process"
        BY <2>5 DEF ResolverWait
      <3>3. AskedByList' => AskedByList
        BY <1>0, <3>1, <3>2, ListRequests DEF AskedByList
      <3>4. (resolverPC' = "process") = (request' # NoRequest)
        BY ONLY <3>2
      <3> QED  BY <2>2, <3>2, <3>3, <3>4
    <2>6. CASE ResolverProcess
      <3>1. /\ request' = NoRequest /\ resolverPC' = "loop" /\ resolverPC = "process"
            /\ requestQueue' = requestQueue
        BY <2>6 DEF ResolverProcess
      <3>2. AskedByList' => AskedByList  BY <3>1 DEF AskedByList, ListAsked, NoRequest
      <3> QED  BY <2>2, <3>1, <3>2
    <2> QED  BY <1>8, <2>4, <2>5, <2>6 DEF ResolverStep, ResolverThread
  <1> QED  BY <1>2, <1>3, <1>4, <1>5, <1>6, <1>7, <1>8

\* A handler asks the resolver for the list only while the list exists.
LEMMA HandlersKeepLife ==
    ASSUME TypeOK, Life, Connecting, NEW t \in Threads, Handle(t)
    PROVE  Life'
  <1> USE DEF Life
  <1>0. requestQueue \in Seq(Requests) /\ request \in Requests  BY Types
  <1>1. /\ pc = "loop" /\ Effect /\ HandleKeeps
        /\ ListAsks \/ requestQueue' = Append(requestQueue, "HOSTNAME")
    BY HandleEffect
  <1>2. UNCHANGED <<callbacks, signalPC, options, alive, pollPC, resolverPC, request>>
    BY <1>1 DEF HandleKeeps, platformVars, pollVars
  <1>3. pc' \in {"loop", "unwind"}  BY <1>1 DEF Effect, Ends
  <1>4. Threading'  BY <1>1, <1>2, <1>3 DEF Threading, Launched
  <1>5. Registered'  BY <1>2, <1>3 DEF Registered
  <1>6. AskedByList' => AskedByList \/ options.mode = "local"
    <2>1. ListAsked(Append(requestQueue, "HOSTNAME"), request) => ListAsked(requestQueue, request)
      BY <1>0, ListRequests
    <2> QED  BY <1>1, <1>2, <2>1 DEF AskedByList, ListAsks
  <1>7. Needed'  BY <1>1, <1>2, <1>3, <1>6 DEF Needed, Resolvable
  <1> QED  BY <1>4, <1>5, <1>7

-----------------------------------------------------------------------------
(***************************************************************************)
(* What was shown of an exception.                                         *)
(***************************************************************************)
\* The program counters before an exception, or the end of the loop.
Early == {"App", "start", "create", "run", "loop"}

\* An exception is created once, and shown if the log was on the terminal.
LEMMA ThrownIsShown ==
    ASSUME TypeOK, Shown, pc \in Early, Thrown, UNCHANGED <<options, hasLog, alive>>,
           pc' \in {"stop", "unwind"}
    PROVE  Shown'
  <1>1. hasLog \in BOOLEAN /\ options.logFile \in BOOLEAN  BY DEF TypeOK, AppOK, Options
  <1>2. reports = 0  BY DEF Shown, Early
  <1> QED  BY <1>1, <1>2 DEF Shown, Thrown

\* No exception, and the log is still disabled by an existing user interface only.
LEMMA NotThrownIsShown ==
    ASSUME TypeOK, Shown, NotThrown, UNCHANGED options, pc # "exit", pc' # "exit",
           pc' \in Early => pc \in Early, ~hasLog' => "UI" \in alive'
    PROVE  Shown'
  <1>1. reports' = reports /\ exitCode' = exitCode /\ wasLogAvailable' = wasLogAvailable
    BY DEF NotThrown
  <1> QED  BY <1>1 DEF Shown, Early

\* Every step keeps the account of what was shown.
LEMMA ShownStep ==
    ASSUME TypeOK, Life, Connecting, Shown, [Next]_vars
    PROVE  Shown'
  <1>0. /\ pc \in {"App", "start"} \cup Launched \cup Destroying
        /\ hasLog \in BOOLEAN /\ options.logFile \in BOOLEAN /\ wasLogAvailable \in BOOLEAN
        /\ alive \subseteq Parts /\ options \in Options /\ exitCode \in {0, 1}
    BY DEF TypeOK, ThreadsOK, AppOK, Options
  <1>1. ~hasLog => "UI" \in alive  BY DEF Shown
  <1>2. CASE CreateApp
    <2>1. alive = {}  BY <1>2 DEF CreateApp, Life, Threading
    <2> QED  BY <1>1, <1>2, <2>1, NotThrownIsShown DEF CreateApp, Early
  <1>3. CASE Start  BY <1>1, <1>3, NotThrownIsShown DEF Start, Early
  <1>4. CASE Create
    <2>1. PICK part : part = Next1(options)  OBVIOUS
    <2>2. /\ pc = "create" /\ pc' = "create" /\ NotThrown /\ UNCHANGED options
          /\ alive' = alive \cup {part} /\ hasLog' = IF part = "UI" THEN options.logFile ELSE hasLog
      BY <1>4, <2>1 DEF Create
    <2> QED  BY <1>1, <2>2, NotThrownIsShown DEF Early
  <1>5. CASE CreateFails  BY <1>5, ThrownIsShown DEF CreateFails, Early
  <1>6. CASE InitParts
    <2>1. pc = "create" /\ UNCHANGED <<options, alive, hasLog>>  BY <1>6 DEF InitParts
    <2>2. (Thrown /\ pc' = "unwind") \/ (NotThrown /\ pc' = "run")  BY <1>6 DEF InitParts
    <2> QED  BY <1>1, <2>1, <2>2, ThrownIsShown, NotThrownIsShown DEF Early
  <1>7. CASE Run  BY <1>1, <1>7, NotThrownIsShown DEF Run, Early
  <1>8. CASE LeaveLoop  BY <1>1, <1>8, NotThrownIsShown DEF LeaveLoop, Early
  <1>9. CASE Unwind  BY <1>1, <1>9, NotThrownIsShown DEF Unwind, Early
  <1>10. CASE Stop  BY <1>1, <1>10, NotThrownIsShown DEF Stop, Early
  <1>11. CASE JoinSignal  BY <1>1, <1>11, NotThrownIsShown DEF JoinSignal, Early
  <1>12. CASE DestroyPart
    <2>1. /\ pc = "destroy" /\ pc' = pc /\ NotThrown /\ UNCHANGED options
          /\ alive' = alive \ {LastPart} /\ hasLog' = (LastPart = "UI" \/ hasLog)
      BY <1>12 DEF DestroyPart
    <2>2. ~hasLog' => "UI" \in alive'
      <3>1. CASE LastPart = "UI"  BY <2>1, <3>1
      <3>2. CASE LastPart # "UI"  BY <1>0, <1>1, <2>1, <3>2
      <3> QED  BY <3>1, <3>2
    <2> QED  BY <2>1, <2>2, NotThrownIsShown DEF Early
  <1>13. CASE StopResolver  BY <1>1, <1>13, NotThrownIsShown DEF StopResolver, Early
  <1>14. CASE WakeResolver  BY <1>1, <1>14, NotThrownIsShown DEF WakeResolver, Early
  <1>15. CASE JoinResolver
    <2>1. alive' = alive \ {"Resolver"}  BY <1>15 DEF JoinResolver
    <2> QED  BY <1>1, <1>15, <2>1, NotThrownIsShown DEF JoinResolver, Early
  <1>16. CASE StopPoll  BY <1>1, <1>16, NotThrownIsShown DEF StopPoll, Early
  <1>17. CASE JoinPoll
    <2>1. alive' = alive \ {"PollSystem"}  BY <1>17 DEF JoinPoll
    <2> QED  BY <1>1, <1>17, <2>1, NotThrownIsShown DEF JoinPoll, Early
  <1>18. CASE Exit
    <2>1. /\ pc = "destroy" /\ pc' = "exit" /\ alive = {}
          /\ reports' = IF exitCode = 1 /\ ShowsError THEN reports + 1 ELSE reports
          /\ UNCHANGED <<options, alive, hasLog, wasLogAvailable, exitCode>>
      BY <1>18 DEF Exit
    <2>2. hasLog = TRUE  BY <1>0, <1>1, <2>1
    <2>3. ShowsError <=> ~(wasLogAvailable /\ ~options.logFile)  BY <1>0, <2>2 DEF ShowsError
    <2>4. CASE exitCode = 0  BY <1>1, <2>1, <2>4 DEF Shown
    <2>5. CASE exitCode = 1
      <3>1. reports = IF wasLogAvailable /\ ~options.logFile THEN 1 ELSE 0  BY <2>1, <2>5 DEF Shown
      <3>2. reports' = 1  BY <2>1, <2>3, <2>5, <3>1
      <3> QED  BY <1>1, <2>1, <2>5, <3>2 DEF Shown
    <2> QED  BY <1>0, <2>4, <2>5
  <1>19. ASSUME UNCHANGED <<pc, options, alive, hasLog, wasLogAvailable, reports, exitCode>>  PROVE Shown'
    BY <1>19 DEF Shown
  <1>20. CASE Poll  BY <1>19, <1>20 DEF Poll
  <1>21. CASE PollExit  BY <1>19, <1>21 DEF PollExit, mainVars
  <1>22. CASE Network  BY <1>19, <1>22 DEF Network
  <1>23. CASE ResolverStep  BY <1>19, <1>23 DEF ResolverStep, mainVars
  <1>24. CASE SignalStep  BY <1>19, <1>24 DEF SignalStep, mainVars
  <1>25. CASE \E s \in Signals : RaiseStep(s)  BY <1>19, <1>25 DEF RaiseStep, mainVars
  <1>26. CASE UNCHANGED vars  BY <1>19, <1>26 DEF vars, mainVars
  <1>27. CASE \E t \in Threads : Handle(t)
    <2>1. pc = "loop" /\ Effect /\ HandleKeeps  BY <1>27, HandleEffect
    <2>2. Ends /\ UNCHANGED <<options, alive, hasLog>>  BY <2>1 DEF Effect, HandleKeeps
    <2> QED  BY <1>1, <2>1, <2>2, ThrownIsShown, NotThrownIsShown DEF Ends, Early
  <1> QED
    BY <1>2, <1>3, <1>4, <1>5, <1>6, <1>7, <1>8, <1>9, <1>10, <1>11, <1>12, <1>13, <1>14, <1>15,
       <1>16, <1>17, <1>18, <1>20, <1>21, <1>22, <1>23, <1>24, <1>25, <1>26, <1>27
       DEF Next, Launch, Shutdown

-----------------------------------------------------------------------------
(***************************************************************************)
(* The connection.                                                         *)
(***************************************************************************)
\* Nothing of it changes.
LEMMA SameConnection ==
    ASSUME TypeOK, Connecting, UNCHANGED <<client, requestQueue, request, options>>,
           eventQueue'["Resolver"] = eventQueue["Resolver"],
           \/ pc' \notin Early
           \/ pc' = pc
           \/ pc \in {"App", "start", "create"} /\ pc' \in {"App", "start", "create"}
           \/ pc \in {"run", "loop"} /\ pc' \in {"run", "loop"}
    PROVE  Connecting'
  <1>1. (AskedByConnector' <=> AskedByConnector) /\ InFlight' = InFlight
    BY DEF AskedByConnector, InFlight
  <1> QED  BY <1>1 DEF Connecting, Early

\* Every step keeps the connection sound, and the connector that asked alive.
LEMMA ConnectingStep ==
    ASSUME TypeOK, Life, Connecting, [Next]_vars
    PROVE  Connecting' /\ client' \in C!ClientType /\ QueueType(eventQueue')
  <1>0. /\ requestQueue \in Seq(Requests) /\ request \in Requests /\ QueueType(eventQueue)
        /\ eventQueue["Resolver"] \in Seq(AnswerEvents)
        /\ options \in Options /\ client \in C!ClientType /\ Tracks(client)
    BY Types DEF Connecting
  <1>1. ASSUME UNCHANGED <<client, requestQueue, request, options, eventQueue>>,
               \/ pc' \notin Early
               \/ pc' = pc
               \/ pc \in {"App", "start", "create"} /\ pc' \in {"App", "start", "create"}
               \/ pc \in {"run", "loop"} /\ pc' \in {"run", "loop"}
        PROVE  Connecting' /\ client' \in C!ClientType /\ QueueType(eventQueue')
    BY <1>0, <1>1, SameConnection
  <1>2. CASE CreateApp  BY <1>1, <1>2 DEF CreateApp, resolverVars
  <1>3. CASE Start  BY <1>1, <1>3 DEF Start, resolverVars, eventVars
  <1>4. CASE Create
    <2>1. UNCHANGED <<client, requestQueue, request, options, eventQueue, pc>>
      BY <1>4 DEF Create, StartResolver, resolverVars
    <2> QED  BY <1>1, <2>1
  <1>5. CASE CreateFails  BY <1>1, <1>5 DEF CreateFails, resolverVars, eventVars, Early
  <1>6. CASE InitParts
    <2>1. pc = "create" /\ UNCHANGED <<options, eventQueue>>  BY <1>6 DEF InitParts
    <2>2. InFlight = 0 /\ Waits([client EXCEPT !.hasConnector = TRUE])  BY <2>1 DEF Connecting
    <2>3. InFlight <= 0  BY <2>2
    <2>4. ~AskedByConnector  BY <1>0, <2>3, NothingInFlight DEF InFlight, AskedByConnector
    <2>5. CASE pc' = "unwind" /\ UNCHANGED <<client, resolverVars>>
      BY <1>1, <2>1, <2>5 DEF resolverVars, Early
    <2>6. CASE pc' = "run" /\ options.mode = "client"
      <3>1. PICK type \in {"SERVICE", "HOSTNAME"} : pushRequest(type)
        BY <1>6, <2>6 DEF InitParts
      <3>2. client' = [client EXCEPT !.hasConnector = TRUE]  BY <1>6, <2>6 DEF InitParts
      <3>3. client' \in C!ClientType /\ SamePack(client, client')
        BY ONLY <1>0, <3>2 DEF C!ClientType, SamePack
      <3>4. Sound(client')  BY <1>0, <3>3, SamePackIsSound DEF Sound
      <3>5. Waits(client')  BY <2>2, <3>2
      <3>6. type \in Requests  BY DEF Requests, EResolverRequest
      <3>7. InFlight' = InFlight + 1
        BY <1>0, <2>1, <3>1, <3>6, PushedRequest DEF InFlight, pushRequest
      <3>8. InFlight' <= 1  BY ONLY <2>2, <3>7
      <3> QED  BY <1>0, <2>1, <2>6, <3>3, <3>4, <3>5, <3>8 DEF Connecting, Sound, Waits
    <2>7. CASE pc' = "run" /\ options.mode # "client"
      <3>1. client' = client
        <4>1. CASE options.mode = "local"  BY <1>6, <2>7, <4>1 DEF InitParts
        <4>2. CASE options.mode # "local"  BY <1>6, <2>7, <4>2 DEF InitParts
        <4> QED  BY <4>1, <4>2
      <3>2. \/ requestQueue' = requestQueue /\ request' = request
            \/ requestQueue' = Append(requestQueue, "ADDRESS") /\ request' = request
        <4>1. CASE options.mode = "local"  BY <1>6, <2>7, <4>1 DEF InitParts, pushRequest
        <4>2. CASE options.mode # "local"  BY <1>6, <2>7, <4>2 DEF InitParts, resolverVars
        <4> QED  BY <4>1, <4>2
      <3>3. "ADDRESS" \in Requests  BY DEF Requests, EResolverRequest
      <3>4. ~AskedByConnector'
        BY <1>0, <2>1, <2>4, <3>2, <3>3, PushedRequest DEF AskedByConnector
      <3>5. ~client.thrown  BY <1>0, <2>2 DEF Waits, C!ClientType
      <3> QED  BY <1>0, <2>1, <2>7, <3>1, <3>4, <3>5 DEF Connecting
    <2>8. (pc' = "unwind" /\ UNCHANGED <<client, resolverVars>>) \/ pc' = "run"
      BY <1>6 DEF InitParts
    <2> QED  BY <2>5, <2>6, <2>7, <2>8
  <1>7. CASE Run  BY <1>1, <1>7 DEF Run, resolverVars
  <1>8. CASE LeaveLoop  BY <1>1, <1>8 DEF LeaveLoop, resolverVars, eventVars, Early
  <1>9. CASE Unwind  BY <1>1, <1>9 DEF Unwind, resolverVars, Early
  <1>10. CASE Stop  BY <1>1, <1>10 DEF Stop, resolverVars, eventVars, Early
  <1>11. CASE JoinSignal  BY <1>1, <1>11 DEF JoinSignal, resolverVars, eventVars, Early
  <1>12. ASSUME pc' \notin Early, client' = client, eventQueue' = eventQueue
         PROVE  Connecting' /\ client' \in C!ClientType /\ QueueType(eventQueue')
    BY <1>0, <1>12 DEF Connecting, Early
  <1>13. CASE DestroyPart
    <2>1. pc' \notin Early /\ eventQueue' = eventQueue /\ (client' = client \/ client' = C!NewClient)
      BY <1>13 DEF DestroyPart, Early
    <2>2. CASE client' = client  BY <1>12, <2>1, <2>2
    <2>3. CASE client' = C!NewClient
      <3>1. PICK d : d = C!NewClient  OBVIOUS
      <3>2. C!NoCombination \in {C!NoCombination} \cup (Nat \X Nat) /\ {} \in SUBSET C!Flags
        OBVIOUS
      <3>3. d \in C!ClientType  BY <3>1, <3>2 DEF C!NewClient, C!ClientType
      <3>4. Tracks(d)  BY <3>1 DEF C!NewClient, Tracks
      <3> QED  BY <1>0, <2>1, <2>3, <3>1, <3>3, <3>4 DEF Connecting, Early
    <2> QED  BY <2>1, <2>2, <2>3
  <1>14. CASE StopResolver  BY <1>12, <1>14 DEF StopResolver, Early
  <1>15. CASE WakeResolver  BY <1>12, <1>15 DEF WakeResolver, eventVars, Early
  <1>16. CASE JoinResolver  BY <1>12, <1>16 DEF JoinResolver, eventVars, Early
  <1>17. CASE StopPoll  BY <1>12, <1>17 DEF StopPoll, Early
  <1>18. CASE JoinPoll  BY <1>12, <1>18 DEF JoinPoll, eventVars, Early
  <1>19. CASE Exit  BY <1>12, <1>19 DEF Exit, eventVars, Early
  <1>20. CASE PollExit  BY <1>1, <1>20 DEF PollExit, mainVars, eventVars, resolverVars
  <1>21. CASE \E s \in Signals : RaiseStep(s)
    BY <1>1, <1>21 DEF RaiseStep, Raise, mainVars, resolverVars
  <1>22. CASE UNCHANGED vars  BY <1>1, <1>22 DEF vars, mainVars, eventVars, resolverVars
  <1>23. CASE SignalStep
    <2>1. UNCHANGED <<client, requestQueue, request, options, pc>>
      BY <1>23 DEF SignalStep, mainVars, resolverVars
    <2>2. PICK e \in EventsOf("Signal") : eventQueue' \in {eventQueue, Dispatched(eventQueue, "Signal", e)}
      <3>1. /\ Event("UPDATE_EVENT", "none") \in EventsOf("Signal")
            /\ Event("APP_INTERNAL_EVENT", "QUIT") \in EventsOf("Signal")
        BY DEF EventsOf, OtherEvents, Event
      <3>2. \/ eventQueue' = eventQueue
            \/ eventQueue' = Dispatched(eventQueue, "Signal", Event("UPDATE_EVENT", "none"))
            \/ eventQueue' = Dispatched(eventQueue, "Signal", Event("APP_INTERNAL_EVENT", "QUIT"))
        BY <1>23, Zenon DEF SignalStep, SignalThread, SignalWait, SignalHandle
      <3> QED  BY <3>1, <3>2
    <2>3. "Signal" \in Threads  BY DEF Threads
    <2>4. QueueType(eventQueue') /\ eventQueue'["Resolver"] = eventQueue["Resolver"]
      BY <1>0, <2>2, <2>3, DispatchedType
    <2> QED  BY <1>0, <2>1, <2>4, SameConnection
  <1>24. CASE ResolverStep
    <2>1. UNCHANGED <<client, options, pc>>  BY <1>24 DEF ResolverStep, mainVars
    <2>2. ASSUME AskedByConnector' => AskedByConnector, InFlight' <= InFlight, InFlight \in Nat,
                 InFlight' \in Nat, QueueType(eventQueue')
          PROVE  Connecting' /\ client' \in C!ClientType /\ QueueType(eventQueue')
      <3>1. (InFlight = 0 => InFlight' = 0) /\ (InFlight <= 1 => InFlight' <= 1)  BY ONLY <2>2
      <3> QED  BY <1>0, <2>1, <2>2, <3>1 DEF Connecting
    <2>4. CASE ResolverLoop
      <3>1. UNCHANGED <<requestQueue, request, eventQueue>>  BY <2>4 DEF ResolverLoop
      <3> QED  BY <1>1, <2>1, <3>1
    <2>5. CASE ResolverWait
      <3>1. /\ requestQueue # <<>> /\ requestQueue' = Tail(requestQueue) /\ request' = Head(requestQueue)
            /\ eventQueue' = eventQueue /\ resolverPC = "wait"
        BY <2>5 DEF ResolverWait
      <3>2. request = NoRequest  BY <3>1 DEF Life, Threading
      <3>3. /\ requestQueue' \in Seq(Requests)
            /\ InFlight' <= InFlight
            /\ AskedByConnector' => AskedByConnector
        BY <1>0, <3>1, <3>2, TakenRequest DEF InFlight, AskedByConnector
      <3>4. InFlight \in Nat /\ InFlight' \in Nat
        BY <1>0, <3>1, <3>3, InFlightIsNatural DEF InFlight
      <3> QED  BY <1>0, <2>2, <3>1, <3>3, <3>4
    <2>6. CASE ResolverProcess
      <3>1. PICK found \in Answers(request) :
              eventQueue' = Dispatched(eventQueue, "Resolver",
                              Event("RESOLVER_INTERNAL_EVENT", [type |-> request, found |-> found]))
        BY <2>6 DEF ResolverProcess
      <3>2. request' = NoRequest /\ requestQueue' = requestQueue /\ resolverPC = "process"
        BY <2>6 DEF ResolverProcess
      <3>3. request \in EResolverRequest  BY <1>0, <3>2 DEF Life, Threading, Requests
      <3>4. found \in Nat
        <4>1. CASE request = "HOSTNAME"  BY <4>1, ResolverAssumption DEF Answers
        <4>2. CASE request = "SERVICE"  BY <4>2, ResolverAssumption DEF Answers
        <4>3. CASE request \notin {"HOSTNAME", "SERVICE"}
          <5>1. found \in {1}  BY <4>3, Zenon DEF Answers
          <5> QED  BY <5>1
        <4> QED  BY <4>1, <4>2, <4>3
      <3>5. PICK e : e = Event("RESOLVER_INTERNAL_EVENT", [type |-> request, found |-> found])
        OBVIOUS
      <3>6. e \in AnswerEvents /\ e.content.type = request  BY <3>3, <3>4, <3>5 DEF Event, AnswerEvents
      <3>7. "Resolver" \in Threads /\ e \in EventsOf("Resolver")  BY <3>6 DEF Threads, EventsOf
      <3>8. QueueType(eventQueue') /\ eventQueue'["Resolver"] = Append(eventQueue["Resolver"], e)
        BY <1>0, <3>1, <3>5, <3>7, DispatchedType
      <3>9. InFlight' = InFlight /\ (AskedByConnector' => AskedByConnector)
        BY <1>0, <3>2, <3>3, <3>6, <3>8, AnsweredRequest DEF InFlight, AskedByConnector
      <3>10. InFlight \in Nat  BY <1>0, InFlightIsNatural DEF InFlight
      <3>11. InFlight' \in Nat /\ InFlight' <= InFlight  BY ONLY <3>9, <3>10
      <3> QED  BY <2>2, <3>8, <3>9, <3>10, <3>11
    <2> QED  BY <1>24, <2>4, <2>5, <2>6 DEF ResolverStep, ResolverThread
  <1>25. ASSUME NEW i \in SUBSET C!Flags, client' = [client EXCEPT !.interest = i] \/ client' = client,
                UNCHANGED <<requestQueue, request, options, pc>>,
                QueueType(eventQueue'), eventQueue'["Resolver"] = eventQueue["Resolver"]
         PROVE  Connecting' /\ client' \in C!ClientType
    <2>1. CASE client' = client  BY <1>0, <1>25, <2>1, SameConnection
    <2>2. CASE client' = [client EXCEPT !.interest = i]
      <3>1. client' \in C!ClientType /\ SamePack(client, client')
        BY ONLY <1>0, <1>25, <2>2 DEF C!ClientType, SamePack
      <3>2. Tracks(client')  BY <1>0, <3>1, SamePackIsSound DEF Sound
      <3>3. Waits(client) => Waits(client')  BY ONLY <1>0, <2>2 DEF Waits, C!ClientType
      <3>4. Waits([client EXCEPT !.hasConnector = TRUE]) => Waits([client' EXCEPT !.hasConnector = TRUE])
        BY ONLY <1>0, <2>2, <3>1 DEF Waits, C!ClientType
      <3>5. (AskedByConnector' <=> AskedByConnector) /\ InFlight' = InFlight
        BY <1>25 DEF AskedByConnector, InFlight
      <3>6. client'.thrown = client.thrown  BY <3>1 DEF SamePack
      <3> QED  BY <1>25, <3>1, <3>2, <3>3, <3>4, <3>5, <3>6 DEF Connecting
    <2> QED  BY <1>25, <2>1, <2>2
  <1>26. CASE Poll
    <2>1. UNCHANGED <<requestQueue, request, options, pc>>  BY <1>26 DEF Poll, resolverVars
    <2>2. client' = [client EXCEPT !.interest = {}] \/ client' = client
      BY <1>26 DEF Poll, PollKeyboard, PollSocket
    <2>3. PICK fd \in {"stdin", "socket"}, flags \in SUBSET {"INPUT", "OUTPUT", "ERROR"} :
            eventQueue' = Dispatched(eventQueue, "Poll",
                            Event("POLL_SYSTEM_INTERNAL_EVENT", [fd |-> fd, flags |-> flags]))
      <3>1. CASE PollKeyboard
        <4>1. PICK flags \in {{"INPUT"}, {"INPUT", "ERROR"}} : Reports("stdin", flags)
          BY <3>1 DEF PollKeyboard
        <4>2. flags \in SUBSET {"INPUT", "OUTPUT", "ERROR"}  BY <4>1
        <4> QED  BY <4>1, <4>2 DEF Reports
      <3>2. CASE PollSocket
        <4>1. PICK flags :
                /\ Reports("socket", flags)
                /\ flags \in CASE client.socket = "connected" ->
                                   {client.interest, client.interest \cap {"OUTPUT"}}
                               [] client.socket = "failed" -> {client.interest \cup {"ERROR"}}
                               [] OTHER -> {{}}
          BY <3>2, Zenon DEF PollSocket
        <4>2. client.interest \subseteq {"INPUT", "OUTPUT"}  BY <1>0 DEF C!ClientType, C!Flags
        <4>3. flags \in {client.interest, client.interest \cap {"OUTPUT"}, client.interest \cup {"ERROR"}, {}}
          <5>1. CASE client.socket = "connected"  BY <4>1, <5>1
          <5>2. CASE client.socket = "failed"  BY <4>1, <5>2
          <5>3. CASE client.socket \notin {"connected", "failed"}
            <6>1. flags \in {{}}  BY <4>1, <5>3, Zenon
            <6> QED  BY <6>1
          <5> QED  BY <5>1, <5>2, <5>3
        <4>4. flags \in SUBSET {"INPUT", "OUTPUT", "ERROR"}  BY <4>2, <4>3
        <4> QED  BY <4>1, <4>4 DEF Reports
      <3> QED  BY <1>26, <3>1, <3>2 DEF Poll
    <2>4. PICK e : e = Event("POLL_SYSTEM_INTERNAL_EVENT", [fd |-> fd, flags |-> flags])  OBVIOUS
    <2>5. "Poll" \in Threads /\ e \in EventsOf("Poll")
      BY <2>4 DEF Threads, EventsOf, OtherEvents, Event
    <2>6. QueueType(eventQueue') /\ eventQueue'["Resolver"] = eventQueue["Resolver"]
      BY <1>0, <2>3, <2>4, <2>5, DispatchedType
    <2>7. {} \in SUBSET C!Flags  OBVIOUS
    <2> QED  BY <1>25, <2>1, <2>2, <2>6, <2>7
  <1>27. CASE Network
    <2>1. PICK s \in {"connected", "failed"} : client' = [client EXCEPT !.socket = s]
      BY <1>27 DEF Network
    <2>2. client.socket = "connecting" /\ UNCHANGED <<requestQueue, request, options, pc, eventQueue>>
      BY <1>27 DEF Network, resolverVars, eventVars
    <2>3. client' \in C!ClientType /\ SamePack(client, client')
      BY ONLY <1>0, <2>1 DEF C!ClientType, SamePack
    <2>4. Tracks(client')  BY <1>0, <2>3, SamePackIsSound DEF Sound
    <2>5. ~Waits(client) /\ ~Waits([client EXCEPT !.hasConnector = TRUE])
      BY <1>0, <2>2 DEF Waits, C!ClientType
    <2>6. (AskedByConnector' <=> AskedByConnector) /\ InFlight' = InFlight
      BY <2>2 DEF AskedByConnector, InFlight
    <2>7. client'.thrown = client.thrown  BY <2>3 DEF SamePack
    <2> QED  BY <1>0, <2>2, <2>3, <2>4, <2>5, <2>6, <2>7 DEF Connecting
  <1>28. CASE \E t \in Threads : Handle(t)
    <2>1. pc = "loop" /\ Effect /\ HandleKeeps  BY <1>28, HandleEffect
    <2>2. /\ Sound(client') /\ QueueType(eventQueue') /\ pc' \in {"loop", "unwind"} /\ Going
          /\ options' = options
      BY <2>1 DEF Effect, HandleKeeps, Ends
    <2> QED  BY <2>2 DEF Connecting, Sound, Going
  <1> QED
    BY <1>2, <1>3, <1>4, <1>5, <1>6, <1>7, <1>8, <1>9, <1>10, <1>11, <1>13, <1>14, <1>15,
       <1>16, <1>17, <1>18, <1>19, <1>20, <1>21, <1>22, <1>23, <1>24, <1>26, <1>27, <1>28
       DEF Next, Launch, Shutdown

-----------------------------------------------------------------------------
(***************************************************************************)
(* The types.                                                              *)
(***************************************************************************)
\* The terminal is told of an exception once more, or not.
Told == NotThrown \/ (reports' \in {reports, reports + 1} /\ UNCHANGED <<wasLogAvailable, exitCode>>)

\* The types of the resolver's queue.
RequestsOK == requestQueue \in Seq(Requests) /\ request \in Requests

\* The steps of the main thread outside its handlers.
LEMMA MainTypes ==
    ASSUME TypeOK, Launch \/ Shutdown
    PROVE  ThreadsOK' /\ RequestsOK' /\ AppOK'
  <1>0. requestQueue \in Seq(Requests) /\ request \in Requests /\ options \in Options  BY Types
  <1>1. ThreadsOK /\ RequestsOK /\ AppOK  BY <1>0 DEF TypeOK, RequestsOK
  <1>2. options.logFile \in BOOLEAN  BY <1>0 DEF Options
  <1>3. /\ NotThrown => reports' \in Nat /\ exitCode' \in {0, 1} /\ wasLogAvailable' \in BOOLEAN
        /\ Thrown => reports' \in Nat /\ exitCode' \in {0, 1} /\ wasLogAvailable' \in BOOLEAN
    BY <1>1, <1>2 DEF NotThrown, Thrown, AppOK
  <1>4. \A ids \in SUBSET EventID : (addCallback(ids) \/ delCallback(ids)) => callbacks' \subseteq EventID
    BY <1>1 DEF AppOK, addCallback, delCallback
  <1>5. \A part : IDs(part) \subseteq EventID  BY DEF IDs
  <1>6. {"EventSystem", "PollSystem"} \subseteq Parts  BY DEF Parts, DestroyOrder
  <1>7. {"APP_INTERNAL_EVENT", "UPDATE_EVENT"} \subseteq EventID  BY DEF EventID
  <1>8. ASSUME NEW type \in Requests, pushRequest(type)  PROVE RequestsOK'
    BY <1>0, <1>8 DEF pushRequest, RequestsOK
  <1>9. {"SERVICE", "HOSTNAME", "ADDRESS", NoRequest} \subseteq Requests
    BY DEF Requests, EResolverRequest
  <1>10. CASE CreateApp
    <2>1. ThreadsOK'  BY <1>1, <1>10 DEF CreateApp, ThreadsOK, platformVars, resolverVars
    <2>2. RequestsOK'  BY <1>1, <1>10 DEF CreateApp, RequestsOK, resolverVars
    <2>3. AppOK'
      <3>1. callbacks' \subseteq EventID  BY <1>4, <1>5, <1>10 DEF CreateApp
      <3> QED  BY <1>1, <1>3, <1>6, <1>10, <3>1 DEF CreateApp, AppOK
    <2> QED  BY <2>1, <2>2, <2>3
  <1>11. CASE Start
    <2>1. ThreadsOK'
      BY <1>1, <1>11 DEF Start, StartPlatform, ThreadsOK, Launched, resolverVars, pollVars
    <2>2. RequestsOK'  BY <1>1, <1>11 DEF Start, RequestsOK, resolverVars
    <2>3. AppOK'  BY <1>1, <1>3, <1>11 DEF Start, AppOK, eventVars
    <2> QED  BY <2>1, <2>2, <2>3
  <1>12. CASE Create
    <2>1. PICK part : part = Next1(options)  OBVIOUS
    <2>2. /\ part # "none" /\ alive' = alive \cup {part} /\ addCallback(IDs(part)) /\ NotThrown
          /\ UNCHANGED <<options, pc>>
          /\ hasLog' = IF part = "UI" THEN options.logFile ELSE hasLog
          /\ UNCHANGED <<requestQueue, request, signalPC, pollPC>>
          /\ resolverPC' \in {resolverPC, "loop"}
      BY <1>12, <2>1 DEF Create, StartResolver, resolverVars, platformVars, pollVars
    <2>3. part \in Parts  BY <1>0, <2>1, <2>2, NextPartFacts
    <2>4. callbacks' \subseteq EventID  BY <1>4, <1>5, <2>2
    <2>5. ThreadsOK'  BY <1>1, <2>2 DEF ThreadsOK
    <2>6. RequestsOK'  BY <1>1, <2>2 DEF RequestsOK
    <2>7. AppOK'  BY <1>1, <1>2, <1>3, <2>2, <2>3, <2>4 DEF AppOK
    <2> QED  BY <2>5, <2>6, <2>7
  <1>13. CASE CreateFails
    <2>1. ThreadsOK'
      BY <1>1, <1>13 DEF CreateFails, ThreadsOK, Launched, platformVars, resolverVars, pollVars
    <2>2. RequestsOK'  BY <1>1, <1>13 DEF CreateFails, RequestsOK, resolverVars
    <2>3. AppOK'  BY <1>1, <1>3, <1>13 DEF CreateFails, AppOK, eventVars
    <2> QED  BY <2>1, <2>2, <2>3
  <1>14. CASE InitParts
    <2>1. /\ addCallback({"APP_INTERNAL_EVENT", "UPDATE_EVENT"}) /\ (Thrown \/ NotThrown)
          /\ pc' \in {"unwind", "run"}
          /\ UNCHANGED <<options, alive, hasLog, signalPC, pollPC>>
      BY <1>14 DEF InitParts, platformVars, pollVars
    <2>2. UNCHANGED resolverVars \/ \E type \in {"SERVICE", "HOSTNAME", "ADDRESS"} : pushRequest(type)
      <3>1. CASE options.mode = "client"  BY <1>14, <3>1 DEF InitParts
      <3>2. CASE options.mode = "local"  BY <1>14, <3>2 DEF InitParts
      <3>3. CASE options.mode \notin {"client", "local"}  BY <1>14, <3>3 DEF InitParts
      <3> QED  BY <3>1, <3>2, <3>3
    <2>3. RequestsOK' /\ resolverPC' = resolverPC
      <3>1. CASE UNCHANGED resolverVars  BY <1>1, <3>1 DEF RequestsOK, resolverVars
      <3>2. CASE \E type \in {"SERVICE", "HOSTNAME", "ADDRESS"} : pushRequest(type)
        BY <1>8, <1>9, <3>2 DEF pushRequest
      <3> QED  BY <2>2, <3>1, <3>2
    <2>4. ThreadsOK'  BY <1>1, <2>1, <2>3 DEF ThreadsOK, Launched
    <2>5. callbacks' \subseteq EventID  BY <1>4, <1>7, <2>1
    <2>6. AppOK'  BY <1>1, <1>3, <2>1, <2>5 DEF AppOK
    <2> QED  BY <2>3, <2>4, <2>6
  <1>15. CASE Run
    <2>1. ThreadsOK'  BY <1>1, <1>15 DEF Run, ThreadsOK, Launched, platformVars, resolverVars, pollVars
    <2>2. RequestsOK'  BY <1>1, <1>15 DEF Run, RequestsOK, resolverVars
    <2>3. AppOK'  BY <1>1, <1>3, <1>15 DEF Run, AppOK
    <2> QED  BY <2>1, <2>2, <2>3
  <1>16. ASSUME pc' \in Launched \cup Destroying, Told,
                UNCHANGED <<options, signalPC, pollPC, resolverPC, request>>,
                callbacks' \subseteq callbacks, alive' \subseteq alive, hasLog' \in BOOLEAN,
                requestQueue' \in Seq(Requests)
         PROVE  ThreadsOK' /\ RequestsOK' /\ AppOK'
    <2>1. ThreadsOK'  BY <1>1, <1>16 DEF ThreadsOK
    <2>2. RequestsOK'  BY <1>1, <1>16 DEF RequestsOK
    <2>3. reports' \in Nat /\ exitCode' \in {0, 1} /\ wasLogAvailable' \in BOOLEAN
      BY <1>1, <1>3, <1>16 DEF Told, AppOK
    <2>4. AppOK'  BY <1>1, <1>16, <2>3 DEF AppOK
    <2> QED  BY <2>1, <2>2, <2>4
  <1>17. hasLog \in BOOLEAN /\ (NotThrown => Told)  BY <1>1 DEF AppOK, Told
  <1>18. CASE LeaveLoop
    BY <1>0, <1>16, <1>17, <1>18 DEF LeaveLoop, Launched, eventVars, resolverVars, platformVars, pollVars
  <1>19. CASE Unwind
    BY <1>0, <1>16, <1>17, <1>19 DEF Unwind, delCallback, Launched, resolverVars, platformVars, pollVars
  <1>20. CASE Stop
    BY <1>0, <1>16, <1>17, <1>20 DEF Stop, StopPlatform, Launched, eventVars, resolverVars, pollVars
  <1>21. CASE JoinSignal
    BY <1>0, <1>16, <1>17, <1>21 DEF JoinSignal, Destroying, eventVars, resolverVars, platformVars, pollVars
  <1>22. CASE DestroyPart
    <2>1. /\ pc' = "destroy" /\ NotThrown /\ callbacks' \subseteq callbacks /\ alive' \subseteq alive
          /\ UNCHANGED <<options, signalPC, pollPC, resolverPC, request, requestQueue>>
          /\ hasLog' = (LastPart = "UI" \/ hasLog)
      BY <1>22 DEF DestroyPart, delCallback, resolverVars, platformVars, pollVars
    <2>2. hasLog' \in BOOLEAN  BY <2>1, Zenon
    <2> QED  BY <1>0, <1>16, <1>17, <2>1, <2>2 DEF Destroying
  <1>23. CASE StopResolver
    BY <1>0, <1>16, <1>17, <1>23 DEF StopResolver, delCallback, Destroying, platformVars, pollVars
  <1>24. CASE WakeResolver
    <2>1. pushRequest(NoRequest)  BY <1>24 DEF WakeResolver
    <2>2. requestQueue' \in Seq(Requests)  BY <1>8, <1>9, <2>1 DEF RequestsOK
    <2> QED
      BY <1>16, <1>17, <1>24, <2>1, <2>2
         DEF WakeResolver, pushRequest, Destroying, eventVars, platformVars, pollVars
  <1>25. CASE JoinResolver
    BY <1>0, <1>16, <1>17, <1>25 DEF JoinResolver, Destroying, eventVars, platformVars, pollVars
  <1>26. CASE StopPoll
    BY <1>0, <1>16, <1>17, <1>26 DEF StopPoll, delCallback, Destroying, resolverVars, platformVars
  <1>27. CASE JoinPoll
    BY <1>0, <1>16, <1>17, <1>27 DEF JoinPoll, Destroying, eventVars, resolverVars, platformVars, pollVars
  <1>28. CASE Exit
    BY <1>0, <1>16, <1>17, <1>28 DEF Exit, Told, Destroying, eventVars, resolverVars, platformVars, pollVars
  <1> QED
    BY <1>10, <1>11, <1>12, <1>13, <1>14, <1>15, <1>18, <1>19, <1>20, <1>21, <1>22, <1>23, <1>24,
       <1>25, <1>26, <1>27, <1>28 DEF Launch, Shutdown

\* Every step keeps the types.
LEMMA TypeStep ==
    ASSUME TypeOK, Life, Connecting, [Next]_vars
    PROVE  TypeOK'
  <1>0. requestQueue \in Seq(Requests) /\ request \in Requests /\ options \in Options  BY Types
  <1>1. ThreadsOK /\ RequestsOK /\ AppOK  BY <1>0 DEF TypeOK, RequestsOK
  <1>2. ThreadsOK' /\ RequestsOK' /\ AppOK'
    <2>1. CASE Launch \/ Shutdown  BY <2>1, MainTypes
    <2>2. ASSUME UNCHANGED <<pc, resolverVars, options, alive, callbacks, hasLog, wasLogAvailable,
                             reports, exitCode>>,
                 signalPC' \in {signalPC, "wait", "handle", "exit"}, pollPC' \in {pollPC, "exit"}
          PROVE  ThreadsOK' /\ RequestsOK' /\ AppOK'
      BY <1>1, <2>2 DEF ThreadsOK, RequestsOK, AppOK, resolverVars
    <2>3. CASE Poll  BY <2>2, <2>3 DEF Poll, platformVars, pollVars
    <2>4. CASE PollExit  BY <2>2, <2>4 DEF PollExit, eventVars, platformVars, mainVars
    <2>5. CASE Network  BY <2>2, <2>5 DEF Network, eventVars, platformVars, pollVars
    <2>6. CASE SignalStep
      BY <2>2, <2>6 DEF SignalStep, SignalThread, SignalWait, SignalHandle, mainVars, pollVars
    <2>7. CASE \E s \in Signals : RaiseStep(s)  BY <2>2, <2>7 DEF RaiseStep, Raise, mainVars, pollVars
    <2>8. CASE UNCHANGED vars  BY <2>2, <2>8 DEF vars, eventVars, platformVars, mainVars, pollVars
    <2>9. CASE ResolverStep
      <3>1. UNCHANGED <<pc, signalPC, pollPC, options, alive, callbacks, hasLog, wasLogAvailable,
                       reports, exitCode>>
        BY <2>9 DEF ResolverStep, mainVars, pollVars, platformVars
      <3>2. resolverPC' \in {"loop", "wait", "process", "exit"} /\ RequestsOK'
        <4>1. CASE ResolverLoop  BY <1>1, <4>1 DEF ResolverLoop, RequestsOK
        <4>2. CASE ResolverWait
          <5>1. /\ requestQueue # <<>> /\ requestQueue' = Tail(requestQueue) /\ request' = Head(requestQueue)
                /\ resolverPC' \in {"loop", "process"}
            BY <4>2 DEF ResolverWait
          <5>2. Tail(requestQueue) \in Seq(Requests) /\ Head(requestQueue) \in Requests
            BY ONLY <1>0, <5>1
          <5> QED  BY <5>1, <5>2 DEF RequestsOK
        <4>3. CASE ResolverProcess
          BY <1>1, <4>3 DEF ResolverProcess, RequestsOK, Requests
        <4> QED  BY <2>9, <4>1, <4>2, <4>3 DEF ResolverStep, ResolverThread
      <3> QED  BY <1>1, <3>1, <3>2 DEF ThreadsOK, AppOK
    <2>10. CASE \E t \in Threads : Handle(t)
      <3>1. /\ Effect /\ HandleKeeps
            /\ ListAsks \/ requestQueue' = Append(requestQueue, "HOSTNAME")
        BY <2>10, HandleEffect
      <3>2. UNCHANGED <<callbacks, signalPC, options, alive, hasLog, pollPC, resolverPC, request>>
        BY <3>1 DEF HandleKeeps, platformVars, pollVars
      <3>3. {"ADDRESS", "PORT", "HOSTNAME"} \subseteq Requests  BY DEF Requests, EResolverRequest
      <3>4. \A type \in Requests : Append(requestQueue, type) \in Seq(Requests)  BY <1>0
      <3>5. requestQueue' \in Seq(Requests)  BY <1>0, <3>1, <3>3, <3>4 DEF ListAsks
      <3>6. pc' \in {"loop", "unwind"}  BY <3>1 DEF Effect, Ends
      <3>7. reports' \in Nat /\ exitCode' \in {0, 1} /\ wasLogAvailable' \in BOOLEAN
        BY <1>1, <3>1 DEF Effect, Ends, NotThrown, Thrown, AppOK
      <3>8. ThreadsOK'  BY <1>1, <3>2, <3>6 DEF ThreadsOK, Launched
      <3>9. AppOK'  BY <1>1, <3>2, <3>7 DEF AppOK
      <3> QED  BY <1>0, <3>2, <3>5, <3>8, <3>9 DEF RequestsOK
    <2> QED  BY <2>1, <2>3, <2>4, <2>5, <2>6, <2>7, <2>8, <2>9, <2>10 DEF Next
  <1>3. client' \in C!ClientType /\ QueueType(eventQueue')  BY ConnectingStep
  <1> QED  BY <1>2, <1>3 DEF TypeOK, QueuesOK, RequestsOK, Requests

-----------------------------------------------------------------------------
(***************************************************************************)
(* The theorems.                                                           *)
(***************************************************************************)
\* main() starts with the invariant.
LEMMA InitAInv ==
    ASSUME Init
    PROVE  AInv
  <1> USE DEF Init, InitEventSystem, InitResolver, InitPlatform
  <1>1. client \in C!ClientType /\ Tracks(client) /\ Waits([client EXCEPT !.hasConnector = TRUE])
    <2>1. C!NoCombination \in {C!NoCombination} \cup (Nat \X Nat) /\ {} \in SUBSET C!Flags
          /\ {} \in SUBSET (Nat \X Nat)
      OBVIOUS
    <2>2. client \in C!ClientType  BY <2>1 DEF C!NewClient, C!ClientType
    <2>3. Tracks(client)  BY DEF C!NewClient, Tracks
    <2>4. Waits([client EXCEPT !.hasConnector = TRUE])  BY DEF C!NewClient, Waits
    <2> QED  BY <2>2, <2>3, <2>4
  <1>2. QueueType(eventQueue) /\ eventQueue["Resolver"] = <<>>
    <2>1. \A S : <<>> \in Seq(S)  OBVIOUS
    <2> QED  BY <2>1 DEF QueueType, Threads
  <1>3. TypeOK
    <2>1. ThreadsOK  BY DEF ThreadsOK
    <2>2. QueuesOK  BY <1>2 DEF QueuesOK
    <2>3. AppOK  BY DEF AppOK
    <2> QED  BY <1>1, <2>1, <2>2, <2>3 DEF TypeOK
  <1>4. Life
    <2>1. Threading  BY DEF Threading, Launched
    <2>2. Registered  BY DEF Registered
    <2>3. ~AskedByList  BY DEF AskedByList, ListAsked, NoRequest
    <2>4. Needed  BY <2>3 DEF Needed
    <2> QED  BY <2>1, <2>2, <2>4 DEF Life
  <1>5. Shown  BY DEF Shown
  <1>6. InFlight = 0  BY <1>2 DEF InFlight, InFlightOf
  <1>7. Connecting  BY <1>1, <1>6 DEF Connecting
  <1> QED  BY <1>3, <1>4, <1>5, <1>7 DEF AInv

\* The invariant of the life of the program holds in every mode.
THEOREM LifeIsInductive == Spec => []AInv
  <1>1. Init => AInv  BY InitAInv
  <1>2. AInv /\ [Next]_vars => AInv'
    <2> SUFFICES ASSUME AInv, [Next]_vars  PROVE AInv'
      OBVIOUS
    <2>1. TypeOK /\ Life /\ Shown /\ Connecting  BY DEF AInv
    <2>2. Life'
      <3>1. CASE Launch  BY <2>1, <3>1, CreationKeepsLife DEF Launch
      <3>2. CASE Shutdown  BY <2>1, <3>2, DestructionKeepsLife
      <3>3. CASE \E t \in Threads : Handle(t)  BY <2>1, <3>3, HandlersKeepLife
      <3>4. CASE \/ Poll \/ PollExit \/ Network \/ ResolverStep \/ SignalStep
                 \/ (\E s \in Signals : RaiseStep(s)) \/ UNCHANGED vars
        BY <2>1, <3>4, ThreadsKeepLife
      <3> QED  BY <3>1, <3>2, <3>3, <3>4 DEF Next
    <2>3. Shown'  BY <2>1, ShownStep
    <2>4. Connecting'  BY <2>1, ConnectingStep
    <2>5. TypeOK'  BY <2>1, TypeStep
    <2> QED  BY <2>2, <2>3, <2>4, <2>5 DEF AInv
  <1> QED  BY <1>1, <1>2, PTL DEF Spec

(***************************************************************************)
(* No thread and no handler uses a part of App that was destroyed, in      *)
(* whatever order the threads end and whenever launch() returns or throws. *)
(***************************************************************************)
THEOREM PartsOutliveTheirUsers == Spec => []NoUseAfterDestroy
  <1>1. AInv => NoUseAfterDestroy
    <2> SUFFICES ASSUME AInv  PROVE NoUseAfterDestroy
      OBVIOUS
    <2>1. Threading /\ Registered /\ Needed  BY DEF AInv, Life
    <2>2. request \in {"ADDRESS", "PORT"} => Resolvable
      BY <2>1 DEF Needed, AskedByList, ListAsked
    <2> QED  BY <2>1, <2>2 DEF NoUseAfterDestroy, Threading, Registered, Resolvable, Launched
  <1> QED  BY <1>1, LifeIsInductive, PTL

(***************************************************************************)
(* An exception that ends the program is shown on the terminal exactly     *)
(* once.                                                                   *)
(***************************************************************************)
THEOREM ErrorsAreShownOnce == Spec => []ErrorIsShownOnce
  <1>1. AInv => ErrorIsShownOnce  BY DEF AInv, Shown, ErrorIsShownOnce
  <1> QED  BY <1>1, LifeIsInductive, PTL

(***************************************************************************)
(* An answer of the resolver for the connector finds the connector that    *)
(* asked, although the session destroys it.                                *)
(***************************************************************************)
THEOREM AnswersFindTheConnector == Spec => []ConnectorOutlivesRequest
  <1>1. AInv => ConnectorOutlivesRequest
    <2> SUFFICES ASSUME AInv, pc = "loop", Outstanding("HOSTNAME") \/ Outstanding("SERVICE")
                 PROVE  client.hasConnector
      BY DEF ConnectorOutlivesRequest
    <2>1. TypeOK /\ Connecting  BY DEF AInv
    <2>2. requestQueue \in Seq(Requests) /\ eventQueue["Resolver"] \in Seq(AnswerEvents)  BY <2>1, Types
    <2>3. DOMAIN requestQueue = 1..Len(requestQueue)  BY ONLY <2>2
    <2>4. DOMAIN eventQueue["Resolver"] = 1..Len(eventQueue["Resolver"])
      <3>1. PICK ev : ev = eventQueue["Resolver"]  OBVIOUS
      <3>2. DOMAIN ev = 1..Len(ev)  BY ONLY <2>2, <3>1
      <3> QED  BY <3>1, <3>2
    <2>5. AskedByConnector  BY <2>3, <2>4, Zenon DEF AskedByConnector, AskedOf, Outstanding
    <2> QED  BY <2>1, <2>5 DEF Connecting, Waits
  <1> QED  BY <1>1, LifeIsInductive, PTL

(***************************************************************************)
(* The client gives up only after it tried every address with every port,  *)
(* for every number of them.                                               *)
(***************************************************************************)
THEOREM EverythingIsTried == Spec => []GivesUpAfterAll
  <1>1. AInv => GivesUpAfterAll
    <2> SUFFICES ASSUME AInv  PROVE GivesUpAfterAll
      OBVIOUS
    <2>1. Tracks(client)  BY DEF AInv, Connecting
    <2> QED  BY <2>1 DEF Tracks, GivesUpAfterAll, AllCombinations
  <1> QED  BY <1>1, LifeIsInductive, PTL

=============================================================================

------------------------------- MODULE Sockets -------------------------------
(***************************************************************************)
(* StreamSocket and StreamServerSocket (Sockets.hpp, Sockets.cpp) and      *)
(* getaddrinfo for numeric texts (GetAddrInfo.hpp).                        *)
(*                                                                         *)
(* The kernel is the function k of the descriptors that are open, which    *)
(* gives each the lowest number that is free.  A socket object is          *)
(* [fd, type], with fd = -1 while it has no descriptor.  An operation      *)
(* results in [k, s, error]: `fails` names the system call that does not   *)
(* succeed, and error is "" unless SocketException is thrown.              *)
(***************************************************************************)
EXTENDS Integers, Sequences, FiniteSetsExt

CONSTANTS
    FirstFd, MaxFds,    \* the descriptors the sockets may have
    NumericHosts,       \* numeric text -> address [type, number]
    NumericPorts        \* numeric text -> port number

ASSUME FdAssumption == FirstFd \in Nat /\ MaxFds \in Nat /\ FirstFd <= MaxFds

-----------------------------------------------------------------------------
\* The kernel.

Free(k) == (FirstFd .. MaxFds - 1) \ DOMAIN k

Opened(k, fd, use) == [d \in DOMAIN k \cup {fd} |-> IF d = fd THEN use ELSE k[d]]

Closed(k, fd) == [d \in DOMAIN k \ {fd} |-> k[d]]

Unused == [state |-> "unused"]

\* Two endpoints that cannot both be bound.
Overlap(a, b) ==
    /\ a.port = b.port
    /\ a.address.type = b.address.type
    /\ a.address = b.address \/ a.address.number = "any" \/ b.address.number = "any"

InUse(k, endpoint) == \E d \in DOMAIN k : k[d].state = "listening" /\ Overlap(k[d].endpoint, endpoint)

\* GetAddrInfoNumeric.  A null node is the any or loopback address of the family.
GetAddrInfoNumeric(node, service, family) ==
    IF service \notin DOMAIN NumericPorts \/ (node # <<>> /\ node \notin DOMAIN NumericHosts) THEN [isError |-> TRUE]
    ELSE [isError |-> FALSE, port |-> NumericPorts[service],
          family |-> IF node = <<>> THEN family ELSE NumericHosts[node].type]

-----------------------------------------------------------------------------
\* The socket objects.

NoSocket == [fd |-> -1, type |-> ""]

\* isConnected, isOpen.
isOpen(s) == s.fd >= 0

Result(k, s, error) == [k |-> k, s |-> s, error |-> error]

\* The move constructor leaves the other socket without a descriptor.
MovedFrom(s) == [s EXCEPT !.fd = -1]

\* close_nothrow, and the destructors.
close_nothrow(k, s) ==
    IF isOpen(s) THEN [k |-> Closed(k, s.fd), s |-> MovedFrom(s)] ELSE [k |-> k, s |-> s]

\* The exception that follows close_nothrow.
Failed(k, s, error) == LET c == close_nothrow(k, s) IN Result(c.k, c.s, error)

\* socket, InitSocket and IPV6_V6ONLY.
Create(k, s, family, fails) ==
    IF fails = "socket" \/ Free(k) = {} THEN Result(k, [s EXCEPT !.type = "TCP"], "socket")
    ELSE LET fd == Min(Free(k))
             created == Opened(k, fd, Unused)
             socket == [fd |-> fd, type |-> "TCP"]
         IN  IF fails = "fcntl" \/ (fails = "setsockopt" /\ family = "IP6") THEN Failed(created, socket, fails)
             ELSE Result(created, socket, "")

\* StreamSocket::connect: EINPROGRESS is success.
connect(k, s, address, port, fails) ==
    IF isOpen(s) THEN Result(k, s, "EISCONN")
    ELSE LET c == Create(k, s, address.type, fails)
         IN  IF c.error # "" THEN c
             ELSE IF fails = "connect" THEN Failed(c.k, c.s, fails)
             ELSE Result(Opened(c.k, c.s.fd, [state |-> "connecting", peer |-> [address |-> address, port |-> port]]), c.s, "")

\* verifyConnect: the error of an asynchronous connect.
verifyConnect(k, s) ==
    IF ~isOpen(s) THEN "ENOTCONN" ELSE IF k[s.fd].state = "refused" THEN "ECONNREFUSED" ELSE ""

\* StreamServerSocket::open of an address and a port.
open(k, s, address, port, fails) ==
    IF isOpen(s) THEN Result(k, s, "EISCONN")
    ELSE LET c == Create(k, s, address.type, fails)
             endpoint == [address |-> address, port |-> port]
         IN  IF c.error # "" THEN c
             ELSE IF fails = "bind" \/ InUse(c.k, endpoint) THEN Failed(c.k, c.s, "bind")
             ELSE IF fails = "listen" THEN Failed(c.k, c.s, fails)
             ELSE Result(Opened(c.k, c.s.fd, [state |-> "listening", endpoint |-> endpoint]), c.s, "")

\* open of texts.
openString(k, s, addressString, portString, fails) ==
    LET info == GetAddrInfoNumeric(addressString, portString, "")
    IN  IF info.isError THEN Result(k, s, "getaddrinfo")
        ELSE open(k, s, NumericHosts[addressString], info.port, fails)

\* openAny, openLocalhost: number is "any" or "localhost".
openAny(k, s, addressType, portString, fails) ==
    LET info == GetAddrInfoNumeric(<<>>, portString, addressType)
    IN  IF info.isError THEN Result(k, s, "getaddrinfo")
        ELSE open(k, s, [type |-> info.family, number |-> "any"], info.port, fails)

openLocalhost(k, s, addressType, portString, fails) ==
    LET info == GetAddrInfoNumeric(<<>>, portString, addressType)
    IN  IF info.isError THEN Result(k, s, "getaddrinfo")
        ELSE open(k, s, [type |-> info.family, number |-> "localhost"], info.port, fails)

\* accept: the new socket, with the type of the server socket.
accept(k, s, fails) ==
    IF ~isOpen(s) THEN Result(k, NoSocket, "ENOTCONN")
    ELSE IF fails = "accept" \/ Free(k) = {} THEN Result(k, NoSocket, "accept")
    ELSE LET fd == Min(Free(k))
             accepted == Opened(k, fd, [state |-> "accepted"])
         IN  IF fails = "fcntl" THEN Result(Closed(accepted, fd), NoSocket, fails)
             ELSE Result(accepted, [fd |-> fd, type |-> s.type], "")

\* The calls that may fail.
SystemCalls == {"socket", "fcntl", "setsockopt", "connect", "bind", "listen", "accept", "open"}

=============================================================================

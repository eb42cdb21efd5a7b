--------------------------- MODULE ClientConnector ---------------------------
(***************************************************************************)
(* How a client gets its connection: ClientConnector asks the resolver for *)
(* the port and the host, then tries one combination of address and port   *)
(* after the other; ClientSession reports what became of the connect.      *)
(* The connector lives until the connection is established.                *)
(*                                                                         *)
(* A combination is <<port, address>>, both counted from 0 in the order of *)
(* the resolver's answers; port 0 stands for DEFAULT_PORT if there is no   *)
(* answer for a port.  "refused" is the set of combinations that connect() *)
(* rejects at once.  A thrown Exception leaves the event loop: field       *)
(* thrown.  Field quit says that App::quit was called.                     *)
(***************************************************************************)
EXTENDS Naturals, Sequences

CONSTANT
    TTL             \* bound: updates without a message until a session ends (4, 3 and 2)

NoCombination == <<>>

Flags == {"INPUT", "OUTPUT"}

ClientType ==
    [hasConnector : BOOLEAN,
     addresses : Nat, ports : Nat,                              \* sizes of the packs
     addressIndex : Nat, portIndex : Nat,
     current : {NoCombination} \cup (Nat \X Nat), tried : SUBSET (Nat \X Nat),
     state : {"DISCONNECTED", "OPENING", "CONNECTED", "CLOSING"},
     established : BOOLEAN, expectsHello : BOOLEAN, sendQueue : BOOLEAN,
     sessionTTL : Nat, reason : {"USER_DECISION", "OTHER"},
     socket : {"none", "connecting", "connected", "failed"},
     interest : SUBSET Flags,                                   \* {} while ignored
     thrown : BOOLEAN, quit : BOOLEAN]

NewClient ==
    [hasConnector |-> FALSE, addresses |-> 0, ports |-> 0, addressIndex |-> 0, portIndex |-> 0,
     current |-> NoCombination, tried |-> {}, state |-> "DISCONNECTED", established |-> FALSE,
     expectsHello |-> FALSE, sendQueue |-> FALSE, sessionTTL |-> 0, reason |-> "OTHER",
     socket |-> "none", interest |-> {}, thrown |-> FALSE, quit |-> FALSE]

\* m_pConnector.reset()
DestroyConnector(c) ==
    [c EXCEPT !.hasConnector = FALSE, !.addresses = 0, !.ports = 0, !.addressIndex = 0,
              !.portIndex = 0, !.current = NoCombination, !.tried = {}]

Throw(c) == [c EXCEPT !.thrown = TRUE]

\* ClientSession::connect; OUTPUT is for checking the connect status.
connect(c) ==
    IF c.state # "DISCONNECTED" THEN c
    ELSE [c EXCEPT !.socket = "connecting", !.state = "OPENING", !.sessionTTL = TTL,
                   !.expectsHello = FALSE, !.interest = Flags]

\* Variant: the last of several addresses is left out.
NextCombinationButLast(c) ==
    LET last == IF c.addresses > 1 THEN c.addresses - 1 ELSE c.addresses
        wrapped == IF c.ports > 0 /\ c.addressIndex >= last
                   THEN [c EXCEPT !.portIndex = @ + 1, !.addressIndex = 0] ELSE c
        exhausted == IF c.ports = 0 THEN c.addressIndex >= last
                     ELSE wrapped.portIndex >= c.ports
    IN  [wrapped EXCEPT !.current = IF exhausted THEN NoCombination
                                    ELSE <<wrapped.portIndex, wrapped.addressIndex>>,
                        !.addressIndex = IF exhausted /\ c.ports = 0 THEN @ ELSE @ + 1]

(***************************************************************************)
(* The next combination: all addresses with the first port, then with the  *)
(* second, and so on.                                                      *)
(***************************************************************************)
NextCombination(c) ==
    LET wrapped == IF c.ports > 0 /\ c.addressIndex >= c.addresses
                   THEN [c EXCEPT !.portIndex = @ + 1, !.addressIndex = 0] ELSE c
        exhausted == IF c.ports = 0 THEN c.addressIndex >= c.addresses
                     ELSE wrapped.portIndex >= c.ports
    IN  [wrapped EXCEPT !.current = IF exhausted THEN NoCombination
                                    ELSE <<wrapped.portIndex, wrapped.addressIndex>>,
                        !.addressIndex = IF exhausted /\ c.ports = 0 THEN @ ELSE @ + 1]

\* One round of tryNext's loop: the exception, a combination that is rejected, or a session.
TryOnce(c, refused) ==
    LET next == NextCombination(c)
        tried == [next EXCEPT !.tried = @ \cup {next.current}]
    IN  IF next.current = NoCombination THEN Throw(next)
        ELSE IF next.current \in refused THEN tried ELSE connect(tried)

\* The loop goes on: no exception, and no connected socket, which the session would have taken.
Tries(c) == ~c.thrown /\ c.state = "DISCONNECTED"

\* tryNext; the last round at the latest has no combination left and throws.
tryNext(c, refused) ==
    LET rounds == (IF c.ports = 0 THEN 1 ELSE c.ports) * c.addresses + 1
        try[d \in ClientType] == IF Tries(d) THEN TryOnce(d, refused) ELSE d
        round[n \in 0..rounds] == IF n = 0 THEN c ELSE try[round[n - 1]]
    IN  IF c.addresses = 0 THEN c ELSE round[rounds]

\* HostResolveCallback
HostResolveCallback(c, found, refused) ==
    IF found = 0 THEN Throw(c)
    ELSE tryNext([c EXCEPT !.addresses = found, !.addressIndex = 0], refused)

\* PortResolveCallback, which goes on with the host.
PortResolveCallback(c, found) ==
    IF found = 0 THEN Throw(c) ELSE [c EXCEPT !.ports = found, !.portIndex = 0]

\* Client::onSessionDisconnect
onSessionDisconnect(c, refused) ==
    LET next == IF c.hasConnector THEN tryNext(c, refused) ELSE c
    IN  [next EXCEPT !.quit = @ \/ (~next.thrown /\ c.reason = "USER_DECISION")]

\* ClientSession::quickDisconnect
quickDisconnect(c, reason, refused) ==
    onSessionDisconnect([c EXCEPT !.socket = "none", !.interest = {}, !.state = "DISCONNECTED",
                                  !.established = FALSE, !.sendQueue = FALSE, !.reason = reason],
                        refused)

\* Client::disconnect and ClientSession::disconnect
disconnect(c, refused) ==
    LET alone == DestroyConnector(c)
    IN  CASE c.state = "CONNECTED" ->
               [alone EXCEPT !.state = "CLOSING", !.sessionTTL = TTL, !.reason = "USER_DECISION",
                             !.sendQueue = TRUE, !.interest = Flags]
          [] c.state = "OPENING" -> quickDisconnect(alone, "USER_DECISION", refused)
          [] OTHER -> alone

\* Variant: F10 disconnects, whatever the state of the session.
F10Always(c, refused) == disconnect(c, refused)

\* FunctionKeyBar::handlePressedKey, F10; without a session it is App::quit.
F10(c, refused) ==
    IF c.state = "CONNECTED" THEN disconnect(c, refused) ELSE [c EXCEPT !.quit = TRUE]

\* Variant: a connection that is being opened does not time out.
onUpdateUnlessOpening(c, refused) ==
    CASE c.state \in {"DISCONNECTED", "OPENING"} -> c
      [] c.state \in {"CONNECTED", "CLOSING"} /\ c.sessionTTL > 0 -> [c EXCEPT !.sessionTTL = @ - 1]
      [] OTHER -> quickDisconnect(c, "OTHER", refused)

\* ClientSession::onUpdate, once a second.
onUpdate(c, refused) ==
    CASE c.state = "DISCONNECTED" -> c
      [] c.state # "DISCONNECTED" /\ c.sessionTTL > 0 -> [c EXCEPT !.sessionTTL = @ - 1]
      [] OTHER -> quickDisconnect(c, "OTHER", refused)

(***************************************************************************)
(* ClientSession::onMessage, reduced to the handshake: BANNER is answered  *)
(* with HELLO, HELLO opens the session, later messages keep it alive.      *)
(***************************************************************************)
onMessage(c) ==
    CASE c.state = "OPENING" /\ ~c.expectsHello ->
           [c EXCEPT !.expectsHello = TRUE, !.sendQueue = TRUE]
      [] c.state = "OPENING" /\ c.expectsHello ->
           [c EXCEPT !.state = "CONNECTED", !.sessionTTL = TTL]
      [] c.state = "CONNECTED" -> [c EXCEPT !.sessionTTL = TTL]
      [] OTHER -> c

\* What receive() may return: nothing but an error unless the socket is connected.
Inputs(c) ==
    CASE c.socket # "connected" -> {"error"}
      \* the server answers a HELLO that was sent
      [] c.socket = "connected" /\ c.state = "OPENING" /\ c.expectsHello /\ c.sendQueue ->
           {"lost", "error"}
      [] OTHER -> {"message", "lost", "error"}

HandleInput(c, input, refused) ==
    CASE input = "message" -> onMessage(c)
      [] input = "lost" ->
           quickDisconnect(c, IF c.state = "CLOSING" THEN c.reason ELSE "OTHER", refused)
      [] input = "error" -> quickDisconnect(c, "OTHER", refused)

(***************************************************************************)
(* verifyConnect reads SO_ERROR, which is 0 while connect() is in          *)
(* progress.  onSessionConnectionEstablished destroys the connector.       *)
(***************************************************************************)
HandleOutput(c, refused) ==
    CASE c.established -> [c EXCEPT !.sendQueue = FALSE]
      [] ~c.established /\ c.socket = "failed" -> quickDisconnect(c, "OTHER", refused)
      [] OTHER -> DestroyConnector([c EXCEPT !.established = TRUE])

\* The last part of SocketPollHandler: continue waiting for socket events.
Rearm(c) ==
    IF c.socket = "none" THEN c
    ELSE [c EXCEPT !.interest = IF c.sendQueue THEN Flags ELSE {"INPUT"}]

\* ClientSession::SocketPollHandler; an exception skips what is left.
SocketPollHandler(c, flags, input, refused) ==
    LET read    == IF "INPUT" \in flags THEN HandleInput(c, input, refused) ELSE c
        written == IF ~read.thrown /\ "OUTPUT" \in flags /\ read.state # "DISCONNECTED"
                   THEN HandleOutput(read, refused) ELSE read
        checked == IF ~written.thrown /\ "ERROR" \in flags /\ written.state # "DISCONNECTED"
                   THEN quickDisconnect(written, "OTHER", refused) ELSE written
    IN  IF checked.thrown THEN checked ELSE Rearm(checked)

=============================================================================

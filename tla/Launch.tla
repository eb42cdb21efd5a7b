------------------------------- MODULE Launch -------------------------------
(***************************************************************************)
(* From the command line to the sockets: main parses its arguments and     *)
(* creates the log (Main.cpp), the server opens the sockets it was asked   *)
(* for, accepts clients and drops them (Server.cpp, ServerSession), the    *)
(* client tries one address after the other (ClientConnector,              *)
(* ClientSession), and the end closes all of it.                           *)
(*                                                                         *)
(* A system call may fail at any point, MaxFailures times.  What the       *)
(* sessions say to each other is the matter of DataSync, the threads that  *)
(* wait for events that of PollSystem and App.                             *)
(***************************************************************************)
EXTENDS CmdLine, Sockets, Log

CONSTANTS
    CommandLines,   \* [argv, settings, error]: what is typed and what it means
    Messages,       \* texts that are logged: [text, hasArguments]
    Hosts,          \* text of a host -> the addresses it resolves to
    IsTerminal,     \* is standard error a terminal?
    MaxFailures,
    MaxClients      \* bound: sessions the server keeps

VARIABLES
    typed,      \* the command line, from CommandLines
    phase,      \* "typed", "parsed", "created" (the log), "running", "ended"
    exitCode,
    cmdLine,    \* gCmdLine
    log,        \* gLog: [verbosity, isColorizeEnabled, style, fd]
    line,       \* what was written to the log last
    k,          \* the descriptors that are open
    polled,     \* descriptor -> whether the poll thread waits for it
    sockets,    \* Server::m_sockets
    clients,    \* Server::m_clients: their sockets
    session,    \* the client's socket, its progress and the addresses that are left
    failures

vars == <<typed, phase, exitCode, cmdLine, log, line, k, polled, sockets, clients, session, failures>>

NoLog == [verbosity |-> "DISABLED", isColorizeEnabled |-> FALSE, style |-> "SIMPLE", fd |-> -1]

NoSession == [s |-> NoSocket, hasConnector |-> FALSE, left |-> <<>>]

Init ==
    /\ typed \in CommandLines
    /\ phase = "typed" /\ exitCode = 0
    /\ cmdLine = [args |-> <<>>, nonOptionArgs |-> <<>>, error |-> ""]
    /\ log = NoLog /\ line = <<>>
    /\ k = <<>> /\ polled = <<>>
    /\ sockets = <<>> /\ clients = <<>> /\ session = NoSession
    /\ failures = 0

\* Which system call fails, if any.
Fail(fails) ==
    \/ fails = "none" /\ UNCHANGED failures
    \/ fails \in SystemCalls /\ failures < MaxFailures /\ failures' = failures + 1

Calls == SystemCalls \cup {"none"}

-----------------------------------------------------------------------------
\* PollSystem::add, reset and remove, by descriptor.  An event disarms it.
pollAdd(p, fd) == Opened(p, fd, "armed")
pollReset(p, fd) == Opened(p, fd, "armed")
pollRemove(p, fd) == Closed(p, fd)

\* Variant of Dropped: the poll system is not told.
DroppedUnnoticed(w, s) == [w EXCEPT !.k = close_nothrow(@, s).k]

\* quickDisconnect, Server::close and the destructors of both sessions: a socket
\* is taken from the poll system before it is closed.
Dropped(w, s) ==
    IF isOpen(s) THEN [k |-> close_nothrow(w.k, s).k, polled |-> pollRemove(w.polled, s.fd)] ELSE w

\* The destructors of Server, Client and Log.
Ended(w, all, code) ==
    LET dropped == FoldLeft(Dropped, w, all)
    IN  /\ phase' = "ended" /\ exitCode' = code
        /\ k' = IF log.fd >= 0 THEN Closed(dropped.k, log.fd) ELSE dropped.k
        /\ polled' = dropped.polled
        /\ sockets' = <<>> /\ clients' = <<>> /\ session' = NoSession /\ log' = NoLog

World == [k |-> k, polled |-> polled]

-----------------------------------------------------------------------------
\* main.

\* argv is not read again.
ParseCommandLine ==
    /\ phase = "typed"
    /\ typed' = [typed EXCEPT !.argv = <<>>]
    /\ LET p == parse(typed.argv)
       IN  /\ cmdLine' = p
           /\ \/ p.error # "" /\ phase' = "ended" /\ exitCode' = 2
              \/ p.error = "" /\ (hasArg(p, "help") \/ hasArg(p, "version")) /\ phase' = "ended" /\ UNCHANGED exitCode
              \/ p.error = "" /\ ~hasArg(p, "help") /\ ~hasArg(p, "version") /\ phase' = "parsed" /\ UNCHANGED exitCode
    /\ UNCHANGED <<log, line, k, polled, sockets, clients, session, failures>>

\* CreateGlobalLog and Log::Log.
CreateGlobalLog(fails) ==
    /\ phase = "parsed"
    /\ fails \in {"open", "none"} /\ Fail(fails)
    /\ LET hasFile == hasArg(cmdLine, "log-file")
           isOpened == hasFile /\ fails = "none" /\ Free(k) # {} /\ getValue(cmdLine, "log-file") # <<>>
           fd == IF isOpened THEN Min(Free(k)) ELSE -1
       IN  \/ /\ ~IsLogValid(cmdLine) \/ (hasFile /\ ~isOpened)
              /\ Ended(World, <<>>, 1)
           \/ /\ IsLogValid(cmdLine) /\ (hasFile => isOpened)
              /\ log' = [verbosity |-> verbosity(cmdLine), style |-> style(cmdLine), fd |-> fd,
                         isColorizeEnabled |-> isColorizeEnabled(colorize(cmdLine), ~hasFile /\ IsTerminal)]
              /\ k' = IF hasFile THEN Opened(k, fd, [state |-> "file"]) ELSE k
              /\ phase' = "created"
              /\ UNCHANGED <<exitCode, polled, sockets, clients, session>>
    /\ UNCHANGED <<typed, cmdLine, line>>

\* A message is logged.  What has been written does not matter to the rest.
LogMessage(msgType, message) ==
    /\ phase = "created"
    /\ isMsgEnabled(log, msgType)
    /\ \E again \in Again(message.text, message.hasArguments) :
        line' = [msgType |-> msgType, message |-> message, written |-> logV(log, msgType, message.text, again)]
    /\ UNCHANGED <<typed, phase, exitCode, cmdLine, log, k, polled, sockets, clients, session, failures>>

-----------------------------------------------------------------------------
\* Server.

portString == IF hasArg(cmdLine, "port") THEN getValue(cmdLine, "port") ELSE <<"55555">>

\* What Server::open opens, one after the other.
Targets ==
    IF hasArg(cmdLine, "listen-any") THEN <<"any4", "any6">>
    ELSE IF hasArg(cmdLine, "listen") THEN getAllValues(cmdLine, "listen")
    ELSE <<"localhost4", "localhost6">>

OpenTarget(w, target, fails) ==
    CASE target = "any4"       -> openAny(w, NoSocket, "IP4", portString, fails)
      [] target = "any6"       -> openAny(w, NoSocket, "IP6", portString, fails)
      [] target = "localhost4" -> openLocalhost(w, NoSocket, "IP4", portString, fails)
      [] target = "localhost6" -> openLocalhost(w, NoSocket, "IP6", portString, fails)
      [] OTHER                 -> openString(w, NoSocket, target, portString, fails)

\* The n-th socket meets the failure.  An exception ends the program.
ServerOpen(n, fails) ==
    /\ phase = "created" /\ hasArg(cmdLine, "server")
    /\ Fail(fails)
    /\ LET OpenNext(r, i) ==
               LET o == OpenTarget(r.k, Targets[i], IF i = n THEN fails ELSE "none")
               IN  IF r.error # "" THEN r
                   ELSE [k |-> o.k, opened |-> IF o.error = "" THEN Append(r.opened, o.s) ELSE r.opened, error |-> o.error]
           r == FoldLeft(OpenNext, [k |-> k, opened |-> <<>>, error |-> ""], [i \in DOMAIN Targets |-> i])
       IN  \/ r.error # "" /\ Ended([k |-> r.k, polled |-> polled], r.opened, 1)
           \/ /\ r.error = ""
              /\ phase' = "running"
              /\ k' = r.k /\ sockets' = r.opened
              /\ polled' = [fd \in {s.fd : s \in Range(r.opened)} |-> "armed"]
              /\ UNCHANGED <<exitCode, clients, session, log>>
    /\ line' = <<>>
    /\ UNCHANGED <<typed, cmdLine>>

\* clientSocket has been moved to the session when it is destroyed.
Accepted(a) == [a EXCEPT !.k = close_nothrow(@, MovedFrom(a.s)).k]

\* Server::pollHandler, INPUT, and the constructor of ServerSession.
pollHandler(i, fails) ==
    /\ phase = "running" /\ fails \in {"accept", "fcntl", "none"} /\ Fail(fails)
    /\ polled[sockets[i].fd] = "armed" /\ Len(clients) < MaxClients
    /\ LET a == Accepted(accept(k, sockets[i], fails))
       IN  /\ k' = a.k
           /\ clients' = IF isOpen(a.s) THEN Append(clients, a.s) ELSE clients
           /\ polled' = pollReset(IF isOpen(a.s) THEN pollAdd(polled, a.s.fd) ELSE polled, sockets[i].fd)
    /\ UNCHANGED <<typed, phase, exitCode, cmdLine, log, line, sockets, session>>

\* ServerSession::quickDisconnect.  The session stays until the next update.
ServerSessionEnds(j) ==
    /\ phase = "running" /\ isOpen(clients[j])
    /\ LET w == Dropped(World, clients[j])
       IN  k' = w.k /\ polled' = w.polled
    /\ clients' = [clients EXCEPT ![j] = MovedFrom(@)]
    /\ UNCHANGED <<typed, phase, exitCode, cmdLine, log, line, sockets, session, failures>>

\* Server::onUpdate erases the sessions that have ended.
ServerUpdate ==
    /\ phase = "running" /\ \E j \in DOMAIN clients : ~isOpen(clients[j])
    /\ clients' = SelectSeq(clients, isOpen)
    /\ UNCHANGED <<typed, phase, exitCode, cmdLine, log, line, k, polled, sockets, session, failures>>

-----------------------------------------------------------------------------
\* Client.

\* tryNext: the first n addresses meet the failure.  It throws when none is left.
TryNext(w, left, n, fails) ==
    LET Try(r, i) ==
            LET c == connect(r.k, r.s, left[i], NumericPorts[portString], IF i <= n THEN fails ELSE "none")
            IN  IF isOpen(r.s) THEN r ELSE [k |-> c.k, s |-> c.s, left |-> SubSeq(left, i + 1, Len(left))]
        r == FoldLeft(Try, [k |-> w.k, s |-> NoSocket, left |-> left], [i \in DOMAIN left |-> i])
    IN  \/ ~isOpen(r.s) /\ Ended([w EXCEPT !.k = r.k], <<>>, 1)
        \/ /\ isOpen(r.s)
           /\ k' = r.k /\ polled' = pollAdd(w.polled, r.s.fd)
           /\ session' = [s |-> r.s, hasConnector |-> TRUE, left |-> r.left]
           /\ phase' = "running"
           /\ UNCHANGED <<exitCode, sockets, clients, log>>

\* The resolver has answered.
ClientConnect(n, fails) ==
    /\ phase = "created" /\ ~hasArg(cmdLine, "server") /\ hasArg(cmdLine, "connect")
    /\ Fail(fails)
    /\ getValue(cmdLine, "connect") \in DOMAIN Hosts /\ portString \in DOMAIN NumericPorts
    /\ TryNext(World, Hosts[getValue(cmdLine, "connect")], n, fails)
    /\ line' = <<>>
    /\ UNCHANGED <<typed, cmdLine>>

\* The kernel finishes the connect.
ConnectEnds(state) ==
    /\ isOpen(session.s) /\ k[session.s.fd].state = "connecting"
    /\ k' = [k EXCEPT ![session.s.fd] = [state |-> state]]
    /\ UNCHANGED <<typed, phase, exitCode, cmdLine, log, line, polled, sockets, clients, session, failures>>

\* ClientSession::SocketPollHandler, OUTPUT, before the connection is established.
VerifyConnect ==
    /\ isOpen(session.s) /\ session.hasConnector /\ k[session.s.fd].state # "connecting"
    /\ verifyConnect(k, session.s) = ""
    /\ session' = [session EXCEPT !.hasConnector = FALSE, !.left = <<>>]
    /\ polled' = pollReset(polled, session.s.fd)
    /\ UNCHANGED <<typed, phase, exitCode, cmdLine, log, line, k, sockets, clients, failures>>

\* verifyConnect throws, or the session's time is over - even if the kernel has
\* connected in the meantime: quickDisconnect, onSessionDisconnect and tryNext.
ConnectFails(n, fails) ==
    /\ isOpen(session.s) /\ session.hasConnector
    /\ Fail(fails)
    /\ TryNext(Dropped(World, session.s), session.left, n, fails)
    /\ UNCHANGED <<typed, cmdLine, line>>

\* A session that was established ends: quickDisconnect without a connector.
ClientSessionEnds ==
    /\ isOpen(session.s) /\ ~session.hasConnector
    /\ LET w == Dropped(World, session.s)
       IN  k' = w.k /\ polled' = w.polled
    /\ session' = [session EXCEPT !.s = MovedFrom(@)]
    /\ UNCHANGED <<typed, phase, exitCode, cmdLine, log, line, sockets, clients, failures>>

\* App::quit, or an exception: of another component, or of pollHandler (ERROR).
Quit(code) ==
    /\ phase = "running"
    /\ Ended(World, sockets \o clients \o <<session.s>>, code)
    /\ line' = <<>>
    /\ UNCHANGED <<typed, cmdLine, failures>>

Next ==
    \/ ParseCommandLine
    \/ \E fails \in Calls :
        \/ CreateGlobalLog(fails)
        \/ \E n \in DOMAIN Targets : ServerOpen(n, fails)
        \/ \E i \in DOMAIN sockets : pollHandler(i, fails)
        \/ \E n \in 0 .. 2 : ClientConnect(n, fails) \/ ConnectFails(n, fails)
    \/ \E msgType \in EType, message \in Messages : LogMessage(msgType, message)
    \/ \E j \in DOMAIN clients : ServerSessionEnds(j)
    \/ ServerUpdate
    \/ \E state \in {"connected", "refused"} : ConnectEnds(state)
    \/ VerifyConnect
    \/ ClientSessionEnds
    \/ \E code \in {0, 1} : Quit(code)

Spec == Init /\ [][Next]_vars

-----------------------------------------------------------------------------
\* Properties.

Objects == {s \in Range(sockets) \cup Range(clients) \cup {session.s} : isOpen(s)}

\* Every descriptor that is open belongs to one object, and every object's
\* descriptor is open: nothing leaks on a failure, at any system call, and nothing
\* is closed twice, which would close what has the number since.  The poll thread
\* waits for the descriptors of the sockets and for no other: a socket is taken
\* back before its number can be given to another one, and a server socket is
\* waited for again after every event, also if accept fails.
DescriptorsAreOwned ==
    /\ DOMAIN k = {s.fd : s \in Objects} \cup ({log.fd} \ {-1})
    /\ \A i, j \in DOMAIN sockets : i # j => sockets[i].fd # sockets[j].fd
    /\ \A i, j \in DOMAIN clients : i # j /\ isOpen(clients[i]) => clients[i].fd # clients[j].fd
    /\ \A i \in DOMAIN sockets, j \in DOMAIN clients : sockets[i].fd # clients[j].fd
    /\ log.fd \notin {s.fd : s \in Objects}
    /\ DOMAIN polled = {s.fd : s \in Objects}
    /\ \A fd \in DOMAIN polled : polled[fd] = "armed"

\* The values a setting was given, in the order in which they were typed.
ValuesOf(settings, name) ==
    LET given == SelectSeq(settings, LAMBDA x : x.name = name /\ x.hasValue) IN [i \in DOMAIN given |-> given[i].text]

\* The parser finds each setting as often as it was typed, with its values, and
\* an error is the one that was made.
UnderstoodAsTyped ==
    phase # "typed" =>
        /\ cmdLine.error = typed.error
        /\ typed.error = "" =>
            cmdLine.args = [name \in {x.name : x \in Range(typed.settings)} |->
                [values |-> ValuesOf(typed.settings, name),
                 count |-> Len(SelectSeq(typed.settings, LAMBDA x : x.name = name))]]

\* The endpoints that the settings ask for.
Asked ==
    LET settings == typed.settings
        names == {x.name : x \in Range(settings)}
        port == IF "port" \in names THEN NumericPorts[Last(ValuesOf(settings, "port"))] ELSE NumericPorts[<<"55555">>]
        addresses == IF "listen-any" \in names THEN {[type |-> t, number |-> "any"] : t \in {"IP4", "IP6"}}
                     ELSE IF "listen" \in names THEN {NumericHosts[v] : v \in Range(ValuesOf(settings, "listen"))}
                     ELSE {[type |-> t, number |-> "localhost"] : t \in {"IP4", "IP6"}}
    IN  {[address |-> a, port |-> port] : a \in addresses}

\* However the settings are written - long or short, the value attached or apart,
\* letters together - they are understood as they were meant, and a server that
\* runs listens on every endpoint it was asked for and on no other; if one of them
\* cannot be opened there is no server.
ListensAsAsked ==
    /\ UnderstoodAsTyped
    /\ (phase = "running" /\ hasArg(cmdLine, "server")) =>
         {k[d].endpoint : d \in {d \in DOMAIN k : k[d].state = "listening"}} = Asked

\* The line that a message should be.
Whole(message, msgType) ==
    LET isColored == log.isColorizeEnabled /\ msgType \notin Colorless
    IN  (IF isColored THEN ColorPrefix ELSE <<>>) \o StylePrefix[log.style] \o message.text
        \o (IF isColored THEN ColorSuffix ELSE <<>>) \o Newline

\* A line that needs no arguments is written whole, however its length compares
\* with the buffer's, and no line is longer than it should be.
LinesAreWhole ==
    line # <<>> =>
        /\ ~line.message.hasArguments => line.written = Whole(line.message, line.msgType)
        /\ Len(line.written) <= Len(Whole(line.message, line.msgType))
        /\ Last(line.written) = "\n"

=============================================================================

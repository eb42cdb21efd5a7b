-------------------------------- MODULE App ---------------------------------
(***************************************************************************)
(* The life of the program, from main() to its exit code: App creates its  *)
(* parts and runs the event loop, three other threads (poll, resolver and  *)
(* signal) send it events, and everything is destroyed in a fixed order    *)
(* whether launch() returns or throws.                                     *)
(*                                                                         *)
(* The main thread is one program counter.  The handlers that matter are   *)
(* the ones that end the program, ask the resolver, or belong to a client  *)
(* that is getting its connection; ClientEvent and CursesEvent only redraw *)
(* the screen and are left out.  The poll thread is the one of PollSystem, *)
(* here with its requests carried out at once.                             *)
(***************************************************************************)
EXTENDS Resolver, Platform

CONSTANTS
    TTL,            \* bound: see ClientConnector
    Modes,          \* how the program is started: subset of {"server", "client", "local"}
    MaxEvents       \* bound: events of a thread in the queue when the poll thread, or F10, adds one

ASSUME AppAssumption == TTL \in Nat /\ Modes \subseteq {"server", "client", "local"}

C == INSTANCE ClientConnector

VARIABLES
    options,        \* the command line
    pc,             \* the main thread
    alive,          \* the parts of App (and App's event system) that exist
    client,         \* the connection of a client, see ClientConnector
    stdin,          \* what poll() waits for on the keyboard
    pollPC,         \* the poll thread: "none", "run", "exit"
    isPolling,      \* m_isRunning of PollSystem
    hasLog,         \* the verbosity of the log is not VERBOSITY_DISABLED
    wasLogAvailable,\* of the exception that ends the program
    reports,        \* how often the terminal showed that exception
    exitCode

mainVars == <<options, pc, alive, client, stdin, hasLog, wasLogAvailable, reports, exitCode>>
pollVars == <<pollPC, isPolling>>
vars == <<eventVars, resolverVars, platformVars, mainVars, pollVars>>

\* The options that matter in a mode; a server resolves nothing, and GeoIP is left to local mode.
Options ==
    {o \in [mode : Modes, geoip : BOOLEAN, port : BOOLEAN, logFile : BOOLEAN] :
        (o.geoip \/ o.logFile => o.mode = "local") /\ (o.port => o.mode = "client")}

\* The order in which launch() creates the parts.
CreateOrder(o) ==
    CASE o.mode = "server" -> <<"Collector", "Server">>
      [] o.mode = "client" /\ o.geoip -> <<"GeoIP", "Resolver", "ConnectionList", "Client", "UI">>
      [] o.mode = "client" /\ ~o.geoip -> <<"Resolver", "ConnectionList", "Client", "UI">>
      [] o.mode = "local" /\ o.geoip -> <<"GeoIP", "Resolver", "ConnectionList", "Collector", "UI">>
      [] OTHER -> <<"Resolver", "ConnectionList", "Collector", "UI">>

\* The first of the parts in the order.
FirstOf(parts, order) ==
    order[CHOOSE i \in DOMAIN order : order[i] \in parts /\ \A j \in 1..i - 1 : order[j] \notin parts]

\* Variant: the members are declared in the order in which they are created.
DestroyCreatedOrder ==
    <<"Server", "UI", "Client", "Collector", "ConnectionList", "Resolver", "GeoIP", "PollSystem",
      "EventSystem">>

\* The members of App, from the last to the first.
DestroyOrder ==
    <<"Collector", "Server", "UI", "Resolver", "GeoIP", "Client", "ConnectionList", "PollSystem",
      "EventSystem">>

Parts == {DestroyOrder[i] : i \in DOMAIN DestroyOrder}

\* The part that registers the callback of an event.
Owner(id) ==
    CASE id = "RESOLVER_INTERNAL_EVENT" -> "Resolver"
      [] id = "POLL_SYSTEM_INTERNAL_EVENT" -> "PollSystem"
      [] id \in {"CLIENT_EVENT", "UI_CURSES_INTERNAL_EVENT"} -> "UI"
      [] OTHER -> "EventSystem"       \* a local variable of launch()

IDs(part) == {id \in EventID : Owner(id) = part}

Init ==
    /\ InitEventSystem /\ InitResolver /\ InitPlatform
    /\ options \in Options
    /\ pc = "App"
    /\ alive = {}
    /\ client = C!NewClient
    /\ stdin = {}
    /\ pollPC = "none" /\ isPolling = FALSE
    /\ hasLog = TRUE /\ wasLogAvailable = FALSE
    /\ reports = 0 /\ exitCode = 0

-----------------------------------------------------------------------------
(***************************************************************************)
(* The exception that leaves launch().  It is logged where it is created,  *)
(* if the log is not disabled; a log without a file is on the terminal.    *)
(***************************************************************************)
Thrown ==
    /\ wasLogAvailable' = hasLog
    /\ reports' = IF hasLog /\ ~options.logFile THEN reports + 1 ELSE reports
    /\ exitCode' = 1

NotThrown == UNCHANGED <<wasLogAvailable, reports, exitCode>>

\* App::App
CreateApp ==
    /\ pc = "App"
    /\ alive' = {"EventSystem", "PollSystem"}
    /\ pollPC' = "run" /\ isPolling' = TRUE
    /\ addCallback(IDs("PollSystem"))
    /\ pc' = "start"
    /\ NotThrown
    /\ UNCHANGED <<eventQueue, isDispatching, resolverVars, platformVars, options, client, stdin, hasLog>>

\* PlatformInitGuard
Start ==
    /\ pc = "start"
    /\ StartPlatform
    /\ pc' = "create"
    /\ NotThrown
    /\ UNCHANGED <<eventVars, resolverVars, options, alive, client, stdin, hasLog, pollVars>>

\* The part that launch() creates next.
Next1(o) ==
    LET order == CreateOrder(o)
    IN  IF \A i \in DOMAIN order : order[i] \in alive THEN "none"
        ELSE FirstOf(Parts \ alive, order)

\* launch(), the make_unique calls; the terminal guard disables a log on the terminal.
Create ==
    /\ pc = "create"
    /\ LET part == Next1(options)
       IN  /\ part # "none"
           /\ alive' = alive \cup {part}
           /\ addCallback(IDs(part))
           /\ IF part = "Resolver" THEN StartResolver ELSE UNCHANGED resolverVars
           /\ stdin' = IF part = "UI" THEN {"INPUT"} ELSE stdin
           /\ hasLog' = IF part = "UI" THEN options.logFile ELSE hasLog
    /\ NotThrown
    /\ UNCHANGED <<eventQueue, isDispatching, platformVars, options, pc, client, pollVars>>

\* The conntrack socket cannot be opened, or the terminal is not usable.
CreateFails ==
    /\ pc = "create"
    /\ Next1(options) \in {"Collector", "UI"}
    /\ Thrown
    /\ pc' = "stop"
    /\ UNCHANGED <<eventVars, resolverVars, platformVars, options, alive, client, stdin, hasLog, pollVars>>

\* The rest of launch() up to the loop: callbacks, init functions, the first update.
InitParts ==
    /\ pc = "create"
    /\ Next1(options) = "none"
    /\ addCallback({"APP_INTERNAL_EVENT", "UPDATE_EVENT"})
    /\ \/ /\ options.mode # "client"        \* Server::open, or the first query, fails
          /\ Thrown
          /\ pc' = "unwind"
          /\ UNCHANGED <<client, resolverVars>>
       \/ /\ NotThrown
          /\ pc' = "run"
          /\ CASE options.mode = "client" ->
                    /\ client' = [client EXCEPT !.hasConnector = TRUE]
                    /\ pushRequest(IF options.port THEN "SERVICE" ELSE "HOSTNAME")
               [] options.mode = "local" -> pushRequest("ADDRESS") /\ UNCHANGED client
               [] OTHER -> UNCHANGED <<client, resolverVars>>
    /\ UNCHANGED <<eventQueue, isDispatching, platformVars, options, alive, stdin, hasLog, pollVars>>

\* EventSystem::run
Run ==
    /\ pc = "run"
    /\ isDispatching' = TRUE
    /\ pc' = "loop"
    /\ NotThrown
    /\ UNCHANGED <<eventQueue, callbacks, resolverVars, platformVars, options, alive, client, stdin,
                   hasLog, pollVars>>

-----------------------------------------------------------------------------
(***************************************************************************)
(* The event loop.  After(c, queue): a handler left the client in state c; *)
(* it may have called App::quit, and it may have thrown.                   *)
(***************************************************************************)

\* App::quit, called by the main thread.
Quit(queue) == Dispatched(queue, "Main", Event("APP_INTERNAL_EVENT", "QUIT"))

After(c, queue) ==
    /\ client' = [c EXCEPT !.quit = FALSE]
    /\ eventQueue' = IF c.quit THEN Quit(queue) ELSE queue
    /\ IF c.thrown THEN Thrown /\ pc' = "unwind" ELSE NotThrown /\ pc' = "loop"

\* AppEventCallback::onEvent, QUIT
onQuit ==
    /\ isDispatching' = FALSE
    /\ pc' = "loop"
    /\ NotThrown
    /\ UNCHANGED <<client, stdin, resolverVars>>

\* The combinations that connect() may reject.
Combinations == (0..MaxPorts - 1) \X (0..MaxAddresses - 1)

\* UpdateEventCallback::onEvent; an update may bring addresses that are new.
onUpdateEvent(queue) ==
    /\ UNCHANGED <<isDispatching, stdin>>
    /\ CASE options.mode = "client" ->
              /\ \E refused \in SUBSET Combinations :
                   After(C!onUpdate(client, refused), queue)
              /\ UNCHANGED resolverVars
         [] options.mode = "local" ->
              /\ After(client, queue)
              /\ \/ /\ Len(requestQueue) + Len(eventQueue["Resolver"]) < MaxRequests
                    /\ pushRequest("ADDRESS") \/ pushRequest("PORT")
                 \/ UNCHANGED resolverVars
         [] OTHER -> After(client, queue) /\ UNCHANGED resolverVars

\* Resolver::Impl::onEvent; the list's callbacks do not concern the life cycle.
onResolverEvent(r, queue) ==
    /\ UNCHANGED <<isDispatching, stdin>>
    /\ CASE r.type = "HOSTNAME" ->
              /\ \E refused \in SUBSET Combinations :
                   After(C!HostResolveCallback(client, r.found, refused), queue)
              /\ UNCHANGED resolverVars
         [] r.type = "SERVICE" ->
              /\ After(C!PortResolveCallback(client, r.found), queue)
              /\ IF r.found = 0 THEN UNCHANGED resolverVars ELSE pushRequest("HOSTNAME")
         [] OTHER -> After(client, queue) /\ UNCHANGED resolverVars

\* PollSystem::Impl::onEvent for the socket; without a callback it is ignored.
onSocketEvent(flags, queue) ==
    /\ UNCHANGED <<isDispatching, stdin, resolverVars>>
    /\ IF client.socket = "none" THEN After(client, queue)
       ELSE \E input \in C!Inputs(client), refused \in SUBSET Combinations :
              After(C!SocketPollHandler(client, flags, input, refused), queue)

\* Curses::KeyboardPollHandler: F10 or another key; a hang-up throws.
onKeyboardEvent(flags, queue) ==
    /\ UNCHANGED <<isDispatching, resolverVars>>
    /\ stdin' = {"INPUT"}
    /\ \E c \in {client} \cup {C!F10(client, {})} :
         /\ c.quit => Len(eventQueue["Main"]) < MaxEvents
         /\ After([c EXCEPT !.thrown = "ERROR" \in flags], queue)

\* One round of the loop: an event of thread t.
Handle(t) ==
    /\ pc = "loop" /\ isDispatching
    /\ eventQueue[t] # <<>>
    /\ LET e == Head(eventQueue[t])
           queue == Dequeued(eventQueue, t)
       IN  /\ e.id \in callbacks
           /\ CASE e.id = "APP_INTERNAL_EVENT" -> onQuit /\ eventQueue' = queue
                [] e.id = "UPDATE_EVENT" -> onUpdateEvent(queue)
                [] e.id = "RESOLVER_INTERNAL_EVENT" -> onResolverEvent(e.content, queue)
                [] e.id = "POLL_SYSTEM_INTERNAL_EVENT" ->
                     IF e.content.fd = "stdin" THEN onKeyboardEvent(e.content.flags, queue)
                     ELSE onSocketEvent(e.content.flags, queue)
    /\ UNCHANGED <<callbacks, platformVars, options, alive, hasLog, pollVars>>

\* The loop ends, and launch() returns.
LeaveLoop ==
    /\ pc = "loop" /\ ~isDispatching
    /\ pc' = "unwind"
    /\ NotThrown
    /\ UNCHANGED <<eventVars, resolverVars, platformVars, options, alive, client, stdin, hasLog, pollVars>>

-----------------------------------------------------------------------------
(***************************************************************************)
(* The end: the callbacks of launch(), the platform guard, App's members.  *)
(***************************************************************************)
Unwind ==
    /\ pc = "unwind"
    /\ delCallback({"APP_INTERNAL_EVENT", "UPDATE_EVENT"})
    /\ pc' = "stop"
    /\ NotThrown
    /\ UNCHANGED <<eventQueue, isDispatching, resolverVars, platformVars, options, alive, client,
                   stdin, hasLog, pollVars>>

Stop ==
    /\ pc = "stop"
    /\ StopPlatform
    /\ pc' = "joinSignal"
    /\ NotThrown
    /\ UNCHANGED <<eventVars, resolverVars, options, alive, client, stdin, hasLog, pollVars>>

JoinSignal ==
    /\ pc = "joinSignal" /\ signalPC = "exit"
    /\ pc' = "destroy"
    /\ NotThrown
    /\ UNCHANGED <<eventVars, resolverVars, platformVars, options, alive, client, stdin, hasLog, pollVars>>

LastPart == FirstOf(alive, DestroyOrder)

\* A member without a thread of its own; the terminal guard re-enables the log.
DestroyPart ==
    /\ pc = "destroy" /\ alive # {}
    /\ LastPart \notin {"Resolver", "PollSystem"}
    /\ delCallback(IDs(LastPart))
    /\ stdin' = IF LastPart = "UI" THEN {} ELSE stdin
    /\ hasLog' = (LastPart = "UI" \/ hasLog)
    /\ client' = IF LastPart = "Client" THEN C!NewClient ELSE client
    /\ alive' = alive \ {LastPart}
    /\ NotThrown
    /\ UNCHANGED <<eventQueue, isDispatching, resolverVars, platformVars, options, pc, pollVars>>

\* Variant: the thread is woken before it is told to stop.
StopResolverAfterWake ==
    /\ pc = "destroy" /\ alive # {} /\ LastPart = "Resolver"
    /\ delCallback(IDs("Resolver"))
    /\ requestQueue' = Append(requestQueue, NoRequest)
    /\ pc' = "joinResolver"
    /\ NotThrown
    /\ UNCHANGED <<eventQueue, isDispatching, isResolving, resolverPC, request, platformVars,
                   options, alive, client, stdin, hasLog, pollVars>>

\* Resolver::Impl::~Impl: m_isRunning = false, the callback, the null request, the join.
StopResolver ==
    /\ pc = "destroy" /\ alive # {} /\ LastPart = "Resolver"
    /\ isResolving' = FALSE
    /\ delCallback(IDs("Resolver"))
    /\ pc' = "wakeResolver"
    /\ NotThrown
    /\ UNCHANGED <<eventQueue, isDispatching, requestQueue, resolverPC, request, platformVars,
                   options, alive, client, stdin, hasLog, pollVars>>

WakeResolver ==
    /\ pc = "wakeResolver"
    /\ pushRequest(NoRequest)
    /\ pc' = "joinResolver"
    /\ NotThrown
    /\ UNCHANGED <<eventVars, platformVars, options, alive, client, stdin, hasLog, pollVars>>

JoinResolver ==
    /\ pc = "joinResolver" /\ resolverPC = "exit"
    /\ alive' = alive \ {"Resolver"}
    /\ requestQueue' = <<>>
    /\ pc' = "destroy"
    /\ NotThrown
    /\ UNCHANGED <<eventVars, isResolving, resolverPC, request, platformVars, options, client, stdin,
                   hasLog, pollVars>>

\* PollSystem::Impl::~Impl, see PollSystem.
StopPoll ==
    /\ pc = "destroy" /\ alive # {} /\ LastPart = "PollSystem"
    /\ isPolling' = FALSE
    /\ delCallback(IDs("PollSystem"))
    /\ pc' = "joinPoll"
    /\ NotThrown
    /\ UNCHANGED <<eventQueue, isDispatching, resolverVars, platformVars, options, alive, client,
                   stdin, hasLog, pollPC>>

JoinPoll ==
    /\ pc = "joinPoll" /\ pollPC = "exit"
    /\ alive' = alive \ {"PollSystem"}
    /\ pc' = "destroy"
    /\ NotThrown
    /\ UNCHANGED <<eventVars, resolverVars, platformVars, options, client, stdin, hasLog, pollVars>>

\* Variant: an exception that was created is taken to be logged.
ShowsLoggedOnly == options.logFile \/ ~hasLog

\* When the handler in main() writes the exception to the terminal.
ShowsError == ~wasLogAvailable \/ options.logFile \/ ~hasLog

\* The end of main(): the exception, if there is one, is caught.
Exit ==
    /\ pc = "destroy" /\ alive = {}
    /\ pc' = "exit"
    /\ reports' = IF exitCode = 1 /\ ShowsError THEN reports + 1 ELSE reports
    /\ UNCHANGED <<eventVars, resolverVars, platformVars, options, alive, client, stdin, hasLog,
                   wasLogAvailable, exitCode, pollVars>>

-----------------------------------------------------------------------------
(***************************************************************************)
(* The environment.  Its events make no difference once the loop was left, *)
(* because nobody handles them.                                            *)
(***************************************************************************)
Ending == pc \notin {"App", "start", "create", "run", "loop"} \/ (pc = "loop" /\ ~isDispatching)

(***************************************************************************)
(* The poll thread, and what it waits for.  A socket whose connect failed  *)
(* is readable, writable and has an error (POLLHUP, POLLERR).              *)
(***************************************************************************)
Reports(fd, flags) ==
    /\ pollPC = "run" /\ isPolling /\ ~Ending
    /\ Len(eventQueue["Poll"]) < MaxEvents
    /\ eventQueue' = Dispatched(eventQueue, "Poll",
                       Event("POLL_SYSTEM_INTERNAL_EVENT", [fd |-> fd, flags |-> flags]))

PollKeyboard ==
    /\ stdin # {}
    /\ \E flags \in {{"INPUT"}, {"INPUT", "ERROR"}} : Reports("stdin", flags)
    /\ stdin' = {}
    /\ UNCHANGED client

PollSocket ==
    /\ client.interest # {}
    /\ \E flags \in CASE client.socket = "connected" -> {client.interest, client.interest \cap {"OUTPUT"}}
                      [] client.socket = "failed" -> {client.interest \cup {"ERROR"}}
                      [] OTHER -> {{}} :
         flags # {} /\ Reports("socket", flags)
    /\ client' = [client EXCEPT !.interest = {}]
    /\ UNCHANGED stdin

Poll ==
    /\ PollKeyboard \/ PollSocket
    /\ UNCHANGED <<callbacks, isDispatching, resolverVars, platformVars, options, pc, alive, hasLog,
                   wasLogAvailable, reports, exitCode, pollVars>>

PollExit ==
    /\ pollPC = "run" /\ ~isPolling
    /\ pollPC' = "exit"
    /\ UNCHANGED <<eventVars, resolverVars, platformVars, mainVars, isPolling>>

\* The network decides about a connect() in progress.
Network ==
    /\ client.socket = "connecting" /\ ~Ending
    /\ \E s \in {"connected", "failed"} : client' = [client EXCEPT !.socket = s]
    /\ UNCHANGED <<eventVars, resolverVars, platformVars, options, pc, alive, stdin, hasLog,
                   wasLogAvailable, reports, exitCode, pollVars>>

ResolverStep ==
    /\ ResolverThread
    /\ UNCHANGED <<callbacks, isDispatching, platformVars, mainVars, pollVars>>

SignalStep ==
    /\ SignalThread
    /\ UNCHANGED <<callbacks, isDispatching, resolverVars, mainVars, pollVars>>

RaiseStep(s) ==
    /\ ~Ending
    /\ Raise(s)
    /\ UNCHANGED <<callbacks, isDispatching, resolverVars, mainVars, pollVars>>

Launch == CreateApp \/ Start \/ Create \/ CreateFails \/ InitParts \/ Run

Shutdown ==
    \/ LeaveLoop \/ Unwind \/ Stop \/ JoinSignal \/ DestroyPart \/ StopResolver \/ WakeResolver
    \/ JoinResolver \/ StopPoll \/ JoinPoll \/ Exit

Next ==
    \/ Launch \/ Shutdown \/ Poll \/ PollExit \/ Network \/ ResolverStep \/ SignalStep
    \/ \E t \in Threads : Handle(t)
    \/ \E s \in Signals : RaiseStep(s)

Spec == Init /\ [][Next]_vars

(***************************************************************************)
(* All threads run and the timer expires again and again.  The consumer    *)
(* token of the event queue moves on to the next producer after a number   *)
(* of events (the quota of the queue), so that no thread's events wait for *)
(* ever: strong fairness for each of them.                                 *)
(***************************************************************************)
FairSpec ==
    /\ Spec
    /\ WF_vars(Launch) /\ WF_vars(Shutdown)
    /\ \A t \in Threads : SF_vars(Handle(t))
    /\ WF_vars(ResolverStep) /\ WF_vars(SignalStep) /\ WF_vars(PollExit)
    /\ WF_vars(RaiseStep("UPDATE_TIMER_SIGNAL"))

-----------------------------------------------------------------------------
(***************************************************************************)
(* Properties.                                                             *)
(***************************************************************************)
(***************************************************************************)
(* Nobody uses a part that does not exist: the threads send events to the  *)
(* event system until they are joined, the resolver thread reads addresses *)
(* of the list and queries GeoIP, and a registered callback is called.     *)
(* The order of App's members, and the guard declared after App, see to it.*)
(***************************************************************************)
NoUseAfterDestroy ==
    /\ signalPC \in {"wait", "handle"} => "EventSystem" \in alive
    /\ pollPC = "run" => "EventSystem" \in alive
    /\ resolverPC = "process" =>
         /\ "EventSystem" \in alive
         /\ request \in {"ADDRESS", "PORT"} => "ConnectionList" \in alive
         /\ request = "ADDRESS" /\ options.geoip => "GeoIP" \in alive
    /\ \A id \in callbacks : Owner(id) \in alive

(***************************************************************************)
(* While the event loop runs, an answer for the connector finds it alive:  *)
(* the request holds a raw pointer to it, and both disconnect and an       *)
(* established connection destroy it (Client.cpp).                         *)
(***************************************************************************)
ConnectorOutlivesRequest ==
    pc = "loop" /\ (Outstanding("HOSTNAME") \/ Outstanding("SERVICE")) => client.hasConnector

(***************************************************************************)
(* The client gives up with "Unable to connect" only after it tried every  *)
(* address with every port, in whatever mixture of refused, failed and     *)
(* timed out connects (ClientConnector::tryNext).                          *)
(***************************************************************************)
GivesUpAfterAll ==
    client.thrown /\ client.addresses > 0 /\ client.current = C!NoCombination =>
        client.tried = (0..(IF client.ports = 0 THEN 0 ELSE client.ports - 1))
                         \X (0..client.addresses - 1)

(***************************************************************************)
(* An exception that ends the program is shown on the terminal exactly     *)
(* once, whether it was created before, under or after curses, with a log  *)
(* file or without (Exception, CursesTerminalGuard and main).              *)
(***************************************************************************)
ErrorIsShownOnce == pc = "exit" /\ exitCode = 1 => reports = 1

QuitIsQueued ==
    \E t \in Threads : \E i \in DOMAIN eventQueue[t] : eventQueue[t][i].id = "APP_INTERNAL_EVENT"

(***************************************************************************)
(* Somebody who asks the program to quit sees it end: the event is queued  *)
(* at any time, before the loop runs as well, and every join returns.      *)
(***************************************************************************)
QuitEnds == (QuitIsQueued \/ (signalPC = "handle" /\ signal = "SIGTERM")) ~> pc = "exit"

\* A client does not try for ever: it gets a connection, or the program ends.
ConnectingEnds == client.hasConnector ~> ~client.hasConnector

=============================================================================

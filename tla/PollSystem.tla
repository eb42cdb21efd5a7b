----------------------------- MODULE PollSystem -----------------------------
(***************************************************************************)
(* PollSystem, PollHandle and SelfPipe (Platform/Unix), and the use that   *)
(* the session handlers make of them.  The main thread registers sockets   *)
(* and handles events; the poll thread waits in poll().  They share a      *)
(* request queue (main to poll), a self-pipe that wakes the poll thread,   *)
(* and the event queue of EventSystem (poll to main).                      *)
(*                                                                         *)
(* poll() is level triggered, but a descriptor that was reported is        *)
(* ignored until the main thread resets it.  The descriptor of the pipe    *)
(* was added first and is never removed, so its event comes first.         *)
(***************************************************************************)
EXTENDS Naturals, Sequences

CONSTANTS
    Fds,            \* the descriptors that sockets may get
    PipeCapacity,   \* bytes that fit into the self-pipe
    MaxSessions,    \* bound: sockets that are opened
    MaxPending      \* bound: events and requests in the queues when a message is sent

ASSUME PollSystemAssumption ==
    /\ PipeCapacity \in Nat \ {0}
    /\ MaxSessions \in Nat /\ MaxPending \in Nat

Flags == {"INPUT", "OUTPUT"}

Request == [type : {"ADD", "RESET", "REMOVE"}, fd : Fds, flags : SUBSET Flags]

EventFlags == Flags \cup {"ERROR"}

PollEvent == [fd : Fds, flags : SUBSET EventFlags]

VARIABLES
    callbacks,      \* the keys of m_callbackMap (main thread)
    sendQueue,      \* the sockets whose session has messages in m_sendQueue
    sessions,       \* number of sockets opened so far
    waking,         \* the main thread is about to write to the pipe
    handling,       \* the event whose handler has not reset its socket yet, if any
    isRunning,      \* m_isRunning, a plain bool shared by the threads
    requestQueue,   \* m_requestQueue
    pipe,           \* number of bytes in the self-pipe
    eventQueue,     \* the PollEvents in the queue of EventSystem
    pc,             \* the poll thread: "loop", "wait", "pipe", "events", "requests", "exit"
    entries,        \* number of entries of each descriptor in m_descriptors
    armed,          \* descriptors that are not ignored (positive fd)
    interest,       \* the events poll() waits for
    revents,        \* what the last poll() returned and is not dispatched yet
    checkRequestQueue,
    unread          \* sockets with received data that was not read

mainVars == <<callbacks, sendQueue, sessions, waking, handling, isRunning>>
pollVars == <<pc, entries, armed, interest, revents, checkRequestQueue>>
vars == <<mainVars, requestQueue, pipe, eventQueue, pollVars, unread>>

TypeOK ==
    /\ callbacks \subseteq Fds
    /\ sendQueue \subseteq callbacks
    /\ sessions \in 0..MaxSessions
    /\ waking \in BOOLEAN
    /\ handling \subseteq PollEvent
    /\ isRunning \in BOOLEAN
    /\ requestQueue \in Seq(Request)
    /\ pipe \in 0..PipeCapacity
    /\ eventQueue \in Seq(PollEvent)
    /\ pc \in {"loop", "wait", "pipe", "events", "requests", "exit"}
    /\ entries \in [Fds -> Nat]
    /\ armed \subseteq Fds
    /\ interest \in [Fds -> SUBSET Flags]
    /\ revents \in [Fds -> SUBSET EventFlags]
    /\ checkRequestQueue \in BOOLEAN
    /\ unread \subseteq callbacks

NoEvents == [fd \in Fds |-> {}]

Init ==
    /\ callbacks = {}
    /\ sendQueue = {}
    /\ sessions = 0
    /\ waking = FALSE
    /\ handling = {}
    /\ isRunning = TRUE
    /\ requestQueue = <<>>
    /\ pipe = 0
    /\ eventQueue = <<>>
    /\ pc = "loop"
    /\ entries = [fd \in Fds |-> 0]
    /\ armed = {}
    /\ interest = NoEvents
    /\ revents = NoEvents
    /\ checkRequestQueue = FALSE
    /\ unread = {}

-----------------------------------------------------------------------------
(***************************************************************************)
(* The main thread.  pushRequest first queues a request and then writes to *)
(* the pipe; the poll thread may run in between.                           *)
(***************************************************************************)
MainIdle == ~waking /\ handling = {} /\ isRunning

pushRequest(type, fd, flags) ==
    /\ requestQueue' = Append(requestQueue, [type |-> type, fd |-> fd, flags |-> flags])
    /\ waking' = TRUE

\* wakePollThread: a byte that does not fit is not needed.
wakePollThread ==
    /\ waking
    /\ waking' = FALSE
    /\ pipe' = IF pipe < PipeCapacity THEN pipe + 1 ELSE pipe
    /\ UNCHANGED <<callbacks, sendQueue, sessions, handling, isRunning, requestQueue, eventQueue,
                   pollVars, unread>>

\* addFD: a server session waits for INPUT, a connecting client also for OUTPUT.
addFD(fd, flags) ==
    /\ MainIdle
    /\ sessions < MaxSessions
    /\ fd \notin callbacks
    /\ callbacks' = callbacks \cup {fd}
    /\ sessions' = sessions + 1
    /\ pushRequest("ADD", fd, flags)
    /\ UNCHANGED <<sendQueue, handling, isRunning, pipe, eventQueue, pollVars, unread>>

\* sendMessage of a session resets the socket if nothing is queued yet.
enqueueMessage(fd) ==
    /\ fd \in callbacks \ sendQueue
    /\ Len(requestQueue) + Len(eventQueue) < MaxPending
    /\ sendQueue' = sendQueue \cup {fd}
    /\ pushRequest("RESET", fd, Flags)

\* A message is sent outside of the socket's handler: by onUpdate, or by the user.
sendMessage(fd) ==
    /\ MainIdle
    /\ enqueueMessage(fd)
    /\ UNCHANGED <<callbacks, sessions, handling, isRunning, pipe, eventQueue, pollVars, unread>>

\* removeFD, and the socket is closed: quickDisconnect.
removeFD(fd) ==
    /\ fd \in callbacks
    /\ callbacks' = callbacks \ {fd}
    /\ sendQueue' = sendQueue \ {fd}
    /\ unread' = unread \ {fd}
    /\ pushRequest("REMOVE", fd, {})

\* A session ends outside of its handler: a timeout, or the user.
quickDisconnect(fd) ==
    /\ MainIdle
    /\ removeFD(fd)
    /\ UNCHANGED <<sessions, handling, isRunning, pipe, eventQueue, pollVars>>

(***************************************************************************)
(* onEvent with a registered callback, SocketPollHandler.  On INPUT it     *)
(* reads what was received and may answer, which resets the socket         *)
(* already.  Nothing to read is an error (EAGAIN), like a failed socket,   *)
(* which is readable too: the session ends.                                *)
(***************************************************************************)
onEvent ==
    /\ MainIdle
    /\ eventQueue # <<>>
    /\ eventQueue' = Tail(eventQueue)
    /\ LET e == Head(eventQueue)
       IN  /\ e.fd \in callbacks
           /\ \/ /\ "INPUT" \in e.flags
                 /\ removeFD(e.fd)
                 /\ UNCHANGED handling
              \/ /\ "INPUT" \in e.flags /\ e.fd \in unread
                 /\ unread' = unread \ {e.fd}
                 /\ \/ enqueueMessage(e.fd)
                    \/ UNCHANGED <<sendQueue, requestQueue, waking>>
                 /\ handling' = {e}
                 /\ UNCHANGED callbacks
              \/ /\ "INPUT" \notin e.flags
                 /\ handling' = {e}
                 /\ UNCHANGED <<callbacks, sendQueue, unread, requestQueue, waking>>
    /\ UNCHANGED <<sessions, isRunning, pipe, pollVars>>

(***************************************************************************)
(* The rest of SocketPollHandler: on OUTPUT it sends what it can.  The     *)
(* session ends on ERROR, and on any failure in the handler; otherwise it  *)
(* continues waiting for socket events.                                    *)
(***************************************************************************)
resetFD ==
    /\ ~waking /\ isRunning
    /\ handling' = {}
    /\ \E e \in handling :
         \/ /\ "ERROR" \notin e.flags
            /\ sendQueue' \in {sendQueue, IF "OUTPUT" \in e.flags THEN sendQueue \ {e.fd} ELSE sendQueue}
            /\ pushRequest("RESET", e.fd, IF e.fd \in sendQueue' THEN Flags ELSE {"INPUT"})
            /\ UNCHANGED <<callbacks, unread>>
         \/ removeFD(e.fd)
    /\ UNCHANGED <<sessions, isRunning, pipe, eventQueue, pollVars>>

\* onEvent without a callback: the socket was removed in the meantime.
onEventIgnored ==
    /\ MainIdle
    /\ eventQueue # <<>>
    /\ Head(eventQueue).fd \notin callbacks
    /\ eventQueue' = Tail(eventQueue)
    /\ UNCHANGED <<mainVars, requestQueue, pipe, pollVars, unread>>

\* Variant: the poll thread is not woken.
StopWithoutWake ==
    /\ MainIdle
    /\ isRunning' = FALSE
    /\ UNCHANGED <<callbacks, sendQueue, sessions, waking, handling, requestQueue, pipe, eventQueue,
                   pollVars, unread>>

\* The destructor: m_isRunning = false, wake the poll thread, join it.
Stop ==
    /\ MainIdle
    /\ isRunning' = FALSE
    /\ waking' = TRUE
    /\ UNCHANGED <<callbacks, sendQueue, sessions, handling, requestQueue, pipe, eventQueue,
                   pollVars, unread>>

-----------------------------------------------------------------------------
(***************************************************************************)
(* The poll thread.                                                        *)
(***************************************************************************)

\* What poll() returns for a descriptor; POLLNVAL if it is closed.
Ready(fd) ==
    CASE fd \notin armed -> {}
      [] fd \in armed \ callbacks -> {"ERROR"}
      [] OTHER -> {f \in interest[fd] : f = "OUTPUT" \/ fd \in unread}

\* The loop condition of pollLoop.
loop ==
    /\ pc = "loop"
    /\ pc' = IF isRunning THEN "wait" ELSE "exit"
    /\ UNCHANGED <<mainVars, requestQueue, pipe, eventQueue, entries, armed, interest, revents,
                   checkRequestQueue, unread>>

\* PollHandle::wait, which blocks until something is ready.
wait ==
    /\ pc = "wait"
    /\ pipe > 0 \/ \E fd \in Fds : Ready(fd) # {}
    /\ revents' = [fd \in Fds |-> Ready(fd)]
    /\ pc' = IF pipe > 0 THEN "pipe" ELSE "events"
    /\ checkRequestQueue' = FALSE
    /\ UNCHANGED <<mainVars, requestQueue, pipe, eventQueue, entries, armed, interest, unread>>

\* The event of the pipe: empty it, wait for it again, remember to look at the queue.
clear ==
    /\ pc = "pipe"
    /\ pipe' = 0
    /\ checkRequestQueue' = TRUE
    /\ pc' = "events"
    /\ UNCHANGED <<mainVars, requestQueue, eventQueue, entries, armed, interest, revents, unread>>

\* getNextEvent: report a descriptor and ignore it until it is reset.
dispatch ==
    /\ pc = "events"
    /\ \E fd \in Fds :
         /\ revents[fd] # {}
         /\ eventQueue' = Append(eventQueue, [fd |-> fd, flags |-> revents[fd]])
         /\ revents' = [revents EXCEPT ![fd] = {}]
         /\ armed' = armed \ {fd}
    /\ UNCHANGED <<mainVars, requestQueue, pipe, pc, entries, interest, checkRequestQueue, unread>>

eventsDone ==
    /\ pc = "events"
    /\ revents = NoEvents
    /\ pc' = IF checkRequestQueue THEN "requests" ELSE "loop"
    /\ UNCHANGED <<mainVars, requestQueue, pipe, eventQueue, entries, armed, interest, revents,
                   checkRequestQueue, unread>>

(***************************************************************************)
(* PollHandle::add, reset and remove, on m_descriptors.                    *)
(***************************************************************************)
add(fd, flags) ==
    /\ entries' = [entries EXCEPT ![fd] = @ + 1]
    /\ armed' = armed \cup {fd}
    /\ interest' = [interest EXCEPT ![fd] = flags]

\* Variant: the ignored (negative) descriptor is not recognized.
resetArmedOnly(fd, flags) ==
    /\ interest' = [interest EXCEPT ![fd] = IF fd \in armed THEN flags ELSE @]
    /\ UNCHANGED <<entries, armed>>

reset(fd, flags) ==
    /\ \/ /\ entries[fd] > 0
          /\ armed' = armed \cup {fd}
          /\ interest' = [interest EXCEPT ![fd] = flags]
       \/ /\ entries[fd] = 0
          /\ UNCHANGED <<armed, interest>>
    /\ UNCHANGED entries

\* Variant: the ignored (negative) descriptor is not recognized.
removeArmedOnly(fd) ==
    /\ entries' = [entries EXCEPT ![fd] = IF fd \in armed THEN 0 ELSE @]
    /\ armed' = armed \ {fd}
    /\ UNCHANGED interest

remove(fd) ==
    /\ entries' = [entries EXCEPT ![fd] = 0]
    /\ armed' = armed \ {fd}
    /\ UNCHANGED interest

\* Carry out the first request of the queue.
CarryOut ==
    /\ pc = "requests"
    /\ requestQueue # <<>>
    /\ LET r == Head(requestQueue)
       IN  \/ r.type = "ADD" /\ add(r.fd, r.flags)
           \/ r.type = "RESET" /\ reset(r.fd, r.flags)
           \/ r.type = "REMOVE" /\ remove(r.fd)
    /\ requestQueue' = Tail(requestQueue)
    /\ UNCHANGED <<mainVars, pipe, eventQueue, revents, checkRequestQueue, unread>>

\* Variant: one request per wake-up.
requestOnce == CarryOut /\ pc' = "loop"

request == CarryOut /\ UNCHANGED pc

requestsDone ==
    /\ pc = "requests"
    /\ requestQueue = <<>>
    /\ pc' = "loop"
    /\ UNCHANGED <<mainVars, requestQueue, pipe, eventQueue, entries, armed, interest, revents,
                   checkRequestQueue, unread>>

-----------------------------------------------------------------------------
\* The peer sends something, or closes the connection.
Receive(fd) ==
    /\ fd \in callbacks /\ fd \notin unread
    /\ unread' = unread \cup {fd}
    /\ UNCHANGED <<mainVars, requestQueue, pipe, eventQueue, pollVars>>

Main ==
    \/ wakePollThread \/ onEvent \/ resetFD \/ onEventIgnored \/ Stop
    \/ \E fd \in Fds :
         \/ sendMessage(fd) \/ quickDisconnect(fd)
         \/ \E flags \in {{"INPUT"}, Flags} : addFD(fd, flags)

Poll == loop \/ wait \/ clear \/ dispatch \/ eventsDone \/ request \/ requestsDone

Next == Main \/ Poll \/ \E fd \in Fds : Receive(fd)

Spec == Init /\ [][Next]_vars

(***************************************************************************)
(* Both threads run.  The event queue is FIFO and main has nothing else to *)
(* do for ever, so it comes to every event.                                *)
(***************************************************************************)
FairSpec ==
    /\ Spec
    /\ WF_vars(Poll)
    /\ WF_vars(wakePollThread)
    /\ WF_vars(onEvent \/ onEventIgnored)
    /\ WF_vars(resetFD)

-----------------------------------------------------------------------------
(***************************************************************************)
(* Properties.                                                             *)
(***************************************************************************)

(***************************************************************************)
(* No lost wake-up: while a request is queued, the poll thread cannot      *)
(* sleep on it: a byte is in the pipe or about to be written, or the poll  *)
(* thread will look at the queue in this round.  pushRequest queues before *)
(* it writes, pollLoop clears the pipe before it reads the queue, and a    *)
(* full pipe drops bytes, never the wake-up.                               *)
(***************************************************************************)
NoLostWakeup ==
    requestQueue # <<>> /\ pc # "exit" =>
        \/ pipe > 0
        \/ waking
        \/ checkRequestQueue /\ pc \in {"events", "requests"}

Registered(fd) == IF fd \in callbacks THEN 1 ELSE 0

(***************************************************************************)
(* When no request is queued, poll() watches exactly the descriptors with  *)
(* a callback, each once, also when a descriptor was closed and reused     *)
(* (m_callbackMap of the main thread against m_descriptors of the poll     *)
(* thread).                                                                *)
(***************************************************************************)
SettledPollSet ==
    requestQueue = <<>> => \A fd \in Fds : entries[fd] = Registered(fd)

(***************************************************************************)
(* The same for a queue that is not empty.  Effect is what a request makes *)
(* of the number of entries of a descriptor; Counts says that the requests *)
(* of a queue take it from n to m.  QueueReplays: the queued requests will *)
(* make the poll set what m_callbackMap is now, an ADD never meets an      *)
(* entry and a REMOVE always does.                                         *)
(***************************************************************************)
Effect(r, fd, before, after) ==
    \/ (r.fd # fd \/ r.type = "RESET") /\ after = before
    \/ r.fd = fd /\ r.type = "ADD" /\ before = 0 /\ after = 1
    \/ r.fd = fd /\ r.type = "REMOVE" /\ before = 1 /\ after = 0

Counts(q, fd, n, m) ==
    \E f \in [0..Len(q) -> {0, 1}] :
        /\ f[0] = n /\ f[Len(q)] = m
        /\ \A i \in 1..Len(q) : Effect(q[i], fd, f[i - 1], f[i])

QueueReplays ==
    \A fd \in Fds : Counts(requestQueue, fd, entries[fd], Registered(fd))

(***************************************************************************)
(* What a socket received is read, or the socket is removed, or the        *)
(* program stops: one-shot descriptors are reset often enough.             *)
(***************************************************************************)
ReceivedIsRead ==
    \A fd \in Fds : fd \in unread ~> fd \notin unread \/ ~isRunning

\* The destructor's join returns: the poll thread cannot miss m_isRunning = false.
JoinReturns == ~isRunning ~> pc = "exit"

=============================================================================

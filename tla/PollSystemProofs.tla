-------------------------- MODULE PollSystemProofs --------------------------
(***************************************************************************)
(* Proofs about PollSystem, for any number of descriptors, any capacity of *)
(* the pipe and any bounds.                                                *)
(***************************************************************************)
EXTENDS PollSystem, TLAPS

USE DEF mainVars, pollVars

\* The first element and the rest of a queue keep its type.
LEMMA HeadTailType ==
    ASSUME NEW S, NEW q \in Seq(S), q # <<>>
    PROVE  Head(q) \in S /\ Tail(q) \in Seq(S)
OBVIOUS

(***************************************************************************)
(* The types are preserved by every step: in particular the pipe never     *)
(* holds more than it can, and only registered sockets have queued         *)
(* messages or unread data.                                                *)
(***************************************************************************)
LEMMA TypeStep == TypeOK /\ [Next]_vars => TypeOK'
<1> SUFFICES ASSUME TypeOK, [Next]_vars PROVE TypeOK'
  OBVIOUS
<1> USE PollSystemAssumption DEF TypeOK, Request, PollEvent, Flags, EventFlags, pushRequest
<1>1. CASE wakePollThread
  <2>1. pipe' \in 0..PipeCapacity
    BY <1>1 DEF wakePollThread
  <2> QED
    BY <1>1, <2>1 DEF wakePollThread
<1>2. ASSUME NEW fd \in Fds, NEW flags \in {{"INPUT"}, Flags}, addFD(fd, flags) PROVE TypeOK'
  BY <1>2 DEF addFD
<1>3. ASSUME NEW fd \in Fds, sendMessage(fd) PROVE TypeOK'
  BY <1>3 DEF sendMessage, enqueueMessage
<1>4. ASSUME NEW fd \in Fds, quickDisconnect(fd) PROVE TypeOK'
  BY <1>4 DEF quickDisconnect, removeFD
<1>5. CASE onEvent
  <2> DEFINE e == Head(eventQueue)
  <2>1. e \in PollEvent /\ Tail(eventQueue) \in Seq(PollEvent)
    <3> HIDE DEF PollEvent
    <3> QED
      BY <1>5, HeadTailType DEF onEvent
  <2>2. CASE removeFD(e.fd) /\ UNCHANGED handling
    BY <1>5, <2>1, <2>2 DEF onEvent, removeFD
  <2>3. CASE handling' = {e} /\ enqueueMessage(e.fd)
    <3>1. UNCHANGED callbacks /\ unread' \in {unread, unread \ {e.fd}}
      BY <1>5, <2>3 DEF onEvent, removeFD, enqueueMessage
    <3> QED
      <4> HIDE DEF e
      <4> QED
        BY <1>5, <2>1, <2>3, <3>1 DEF onEvent, enqueueMessage
  <2>4. CASE handling' = {e} /\ UNCHANGED <<callbacks, sendQueue, requestQueue, waking>>
    <3>1. unread' \in {unread, unread \ {e.fd}}
      BY <1>5, <2>4 DEF onEvent, removeFD
    <3> QED
      BY <1>5, <2>1, <2>4, <3>1 DEF onEvent
  <2> QED
    BY <1>5, <2>2, <2>3, <2>4 DEF onEvent
<1>6. CASE resetFD
  <2>1. PICK e \in handling : \/ removeFD(e.fd)
                              \/ /\ sendQueue' \subseteq sendQueue
                                 /\ \E flags \in {{"INPUT"}, Flags} : pushRequest("RESET", e.fd, flags)
                                 /\ UNCHANGED <<callbacks, unread>>
    BY <1>6 DEF resetFD
  <2>2. e \in PollEvent
    BY <2>1
  <2>3. CASE removeFD(e.fd)
    BY <1>6, <2>2, <2>3 DEF resetFD, removeFD
  <2>4. ASSUME sendQueue' \subseteq sendQueue, UNCHANGED <<callbacks, unread>>,
               NEW flags \in {{"INPUT"}, Flags}, pushRequest("RESET", e.fd, flags)
        PROVE  TypeOK'
    <3>1. requestQueue' \in Seq(Request)
      BY <2>2, <2>4
    <3> HIDE DEF Request, PollEvent
    <3> QED
      BY <1>6, <2>4, <3>1 DEF resetFD
  <2> QED
    BY <2>1, <2>3, <2>4
<1>7. CASE onEventIgnored
  BY <1>7 DEF onEventIgnored
<1>8. CASE Stop
  BY <1>8 DEF Stop
<1>9. CASE loop \/ wait
  <2>1. CASE loop
    BY <1>9, <2>1 DEF loop
  <2>2. CASE wait
    <3>1. \A fd \in Fds : Ready(fd) \in SUBSET EventFlags
      BY DEF Ready
    <3>2. revents' \in [Fds -> SUBSET EventFlags]
      BY <2>2, <3>1 DEF wait
    <3>3. pc' \in {"pipe", "events"} /\ checkRequestQueue' \in BOOLEAN
      BY <2>2 DEF wait
    <3> QED
      BY <2>2, <3>2, <3>3 DEF wait
  <2> QED
    BY <1>9, <2>1, <2>2
<1>10. CASE clear
  BY <1>10 DEF clear
<1>11. CASE dispatch
  BY <1>11 DEF dispatch
<1>12. CASE eventsDone
  BY <1>12 DEF eventsDone
<1>13. CASE request
  <2> DEFINE r == Head(requestQueue)
  <2>1. r \in Request /\ Tail(requestQueue) \in Seq(Request)
    <3> HIDE DEF Request
    <3> QED
      BY <1>13, HeadTailType DEF request, CarryOut
  <2>2. CASE add(r.fd, r.flags)
    BY <1>13, <2>1, <2>2 DEF request, CarryOut, add
  <2>3. CASE reset(r.fd, r.flags)
    BY <1>13, <2>1, <2>3 DEF request, CarryOut, reset
  <2>4. CASE remove(r.fd)
    BY <1>13, <2>1, <2>4 DEF request, CarryOut, remove
  <2> QED
    BY <1>13, <2>2, <2>3, <2>4 DEF request, CarryOut
<1>14. CASE requestsDone
  BY <1>14 DEF requestsDone
<1>15. ASSUME NEW fd \in Fds, Receive(fd) PROVE TypeOK'
  BY <1>15 DEF Receive
<1>16. CASE UNCHANGED vars
  BY <1>16 DEF vars
<1> QED
  BY <1>1, <1>2, <1>3, <1>4, <1>5, <1>6, <1>7, <1>8, <1>9, <1>10, <1>11, <1>12, <1>13, <1>14,
     <1>15, <1>16 DEF Next, Main, Poll

\* TypeOK is an invariant.
THEOREM TypeCorrect == Spec => []TypeOK
<1>1. Init => TypeOK
  <2> SUFFICES ASSUME Init PROVE TypeOK
    OBVIOUS
  <2>1. 0 \in 0..PipeCapacity /\ 0 \in 0..MaxSessions /\ 0 \in Nat
    BY PollSystemAssumption
  <2>2. <<>> \in Seq(Request) /\ <<>> \in Seq(PollEvent)
    OBVIOUS
  <2> QED
    BY <2>1, <2>2 DEF Init, TypeOK, NoEvents
<1> QED
  BY <1>1, TypeStep, PTL DEF Spec

-----------------------------------------------------------------------------
(***************************************************************************)
(* A request that is queued is never slept on: pushRequest queues before   *)
(* it writes, pollLoop empties the pipe before it reads the queue.         *)
(***************************************************************************)
THEOREM WakeupCorrect == Spec => []NoLostWakeup
<1>1. Init => NoLostWakeup
  BY DEF Init, NoLostWakeup
<1>2. TypeOK /\ NoLostWakeup /\ [Next]_vars => NoLostWakeup'
  <2> SUFFICES ASSUME TypeOK, NoLostWakeup, [Next]_vars PROVE NoLostWakeup'
    OBVIOUS
  <2> USE DEF NoLostWakeup
  <2>1. CASE wakePollThread
    <3>1. pipe' > 0
      BY <2>1, PollSystemAssumption DEF wakePollThread, TypeOK
    <3> QED
      BY <3>1
  <2>2. CASE Main /\ ~wakePollThread
    <3> DEFINE Woken == waking' = TRUE
    <3> USE DEF pushRequest
    <3>1. ASSUME NEW fd \in Fds, NEW flags, addFD(fd, flags) PROVE Woken
      BY <3>1 DEF addFD
    <3>2. ASSUME NEW fd \in Fds, sendMessage(fd) PROVE Woken
      BY <3>2 DEF sendMessage, enqueueMessage
    <3>3. ASSUME NEW fd \in Fds, quickDisconnect(fd) PROVE Woken
      BY <3>3 DEF quickDisconnect, removeFD
    <3>4. CASE onEvent
      <4>1. Woken \/ UNCHANGED <<requestQueue, waking>>
        BY <3>4 DEF onEvent, removeFD, enqueueMessage
      <4> QED
        BY <3>4, <4>1 DEF onEvent
    <3>5. CASE resetFD
      BY <3>5 DEF resetFD, removeFD
    <3>6. CASE onEventIgnored
      BY <3>6 DEF onEventIgnored
    <3>7. CASE Stop
      BY <3>7 DEF Stop
    <3> QED
      BY <2>2, <3>1, <3>2, <3>3, <3>4, <3>5, <3>6, <3>7 DEF Main
  <2>3. CASE Poll
    BY <2>3 DEF Poll, loop, wait, clear, dispatch, eventsDone, request, CarryOut, requestsDone,
              TypeOK
  <2>4. ASSUME NEW fd \in Fds, Receive(fd) PROVE NoLostWakeup'
    BY <2>4 DEF Receive
  <2>5. CASE UNCHANGED vars
    BY <2>5 DEF vars
  <2> QED
    BY <2>1, <2>2, <2>3, <2>4, <2>5 DEF Next
<1> QED
  BY <1>1, <1>2, TypeCorrect, PTL DEF Spec

-----------------------------------------------------------------------------
(***************************************************************************)
(* SettledPollSet speaks of an empty queue only.  The inductive invariant  *)
(* QueueReplays says what the queued requests will make of the poll set:   *)
(* carried out one after the other on the number of entries a descriptor   *)
(* has now, each ADD finds no entry, each REMOVE finds one, and the last   *)
(* request leaves what m_callbackMap says.                                 *)
(***************************************************************************)

\* A queue whose replay is known, one request longer.
LEMMA CountsAppend ==
    ASSUME NEW q \in Seq(Request), NEW r \in Request, NEW fd,
           NEW n \in {0, 1}, NEW m \in {0, 1}, NEW k \in {0, 1},
           Counts(q, fd, n, m), Effect(r, fd, m, k)
    PROVE  Counts(Append(q, r), fd, n, k)
<1>1. PICK f \in [0..Len(q) -> {0, 1}] :
        /\ f[0] = n /\ f[Len(q)] = m
        /\ \A i \in 1..Len(q) : Effect(q[i], fd, f[i - 1], f[i])
  BY DEF Counts
<1> DEFINE g == [i \in 0..Len(q) + 1 |-> IF i <= Len(q) THEN f[i] ELSE k]
           p == Append(q, r)
<1>2. Len(p) = Len(q) + 1 /\ Len(q) \in Nat
  OBVIOUS
<1>3. g \in [0..Len(p) -> {0, 1}] /\ g[0] = n /\ g[Len(p)] = k
  BY <1>1, <1>2
<1>4. ASSUME NEW i \in 1..Len(p) PROVE Effect(p[i], fd, g[i - 1], g[i])
  <2>1. CASE i = Len(q) + 1
    <3>1. p[i] = r /\ g[i - 1] = m /\ g[i] = k
      BY <1>1, <1>2, <2>1
    <3> QED
      BY <3>1
  <2>2. CASE i # Len(q) + 1
    <3>1. i \in 1..Len(q) /\ i - 1 \in 0..Len(q) /\ i \in 0..Len(q)
      BY <1>2, <2>2
    <3>2. p[i] = q[i] /\ g[i - 1] = f[i - 1] /\ g[i] = f[i]
      BY <3>1, <1>2
    <3> QED
      BY <1>1, <3>1, <3>2
  <2> QED
    BY <2>1, <2>2
<1> HIDE DEF g, p
<1> QED
  BY <1>3, <1>4 DEF Counts, p

\* A queue whose replay is known, without its first request.
LEMMA CountsTail ==
    ASSUME NEW q \in Seq(Request), q # <<>>, NEW fd,
           NEW n \in {0, 1}, NEW m \in {0, 1}, Counts(q, fd, n, m)
    PROVE  \E k \in {0, 1} : Effect(Head(q), fd, n, k) /\ Counts(Tail(q), fd, k, m)
<1>1. PICK f \in [0..Len(q) -> {0, 1}] :
        /\ f[0] = n /\ f[Len(q)] = m
        /\ \A i \in 1..Len(q) : Effect(q[i], fd, f[i - 1], f[i])
  BY DEF Counts
<1> DEFINE p == Tail(q)
           g == [i \in 0..Len(q) - 1 |-> f[i + 1]]
<1>2. Len(q) \in Nat \ {0} /\ Len(p) = Len(q) - 1
  OBVIOUS
<1>3. g \in [0..Len(p) -> {0, 1}] /\ g[0] = f[1] /\ g[Len(p)] = m /\ f[1] \in {0, 1}
  BY <1>1, <1>2
<1>4. ASSUME NEW i \in 1..Len(p) PROVE Effect(p[i], fd, g[i - 1], g[i])
  <2>1. i + 1 \in 1..Len(q) /\ i - 1 \in 0..Len(q) - 1 /\ i \in 0..Len(q) - 1
    BY <1>2
  <2>2. p[i] = q[i + 1] /\ g[i - 1] = f[(i + 1) - 1] /\ g[i] = f[i + 1]
    BY <1>2, <2>1
  <2> QED
    BY <1>1, <2>1, <2>2
<1>5. Counts(p, fd, f[1], m)
  <2> HIDE DEF g, p
  <2> QED
    BY <1>3, <1>4 DEF Counts
<1>6. Effect(Head(q), fd, n, f[1])
  <2>1. Head(q) = q[1] /\ 1 \in 1..Len(q) /\ 1 - 1 = 0
    BY <1>2
  <2> QED
    BY <1>1, <2>1
<1> QED
  BY <1>3, <1>5, <1>6

\* A step that queues r, and changes the registration of a descriptor the way r does.
LEMMA QueuedReplays ==
    ASSUME TypeOK, QueueReplays, NEW r \in Request, requestQueue' = Append(requestQueue, r),
           UNCHANGED entries,
           \A fd \in Fds : Effect(r, fd, Registered(fd), Registered(fd)')
    PROVE  QueueReplays'
<1> SUFFICES ASSUME NEW fd \in Fds
             PROVE  Counts(requestQueue', fd, entries'[fd], Registered(fd)')
  BY DEF QueueReplays
<1>1. Registered(fd) \in {0, 1} /\ Registered(fd)' \in {0, 1}
  BY DEF Registered
<1>2. Counts(requestQueue, fd, entries[fd], Registered(fd))
  BY DEF QueueReplays
<1>3. entries[fd] \in {0, 1}
  <2>1. PICK f \in [0..Len(requestQueue) -> {0, 1}] : f[0] = entries[fd]
    BY <1>2 DEF Counts
  <2>2. 0 \in 0..Len(requestQueue)
    BY DEF TypeOK
  <2> QED
    BY <2>1, <2>2
<1>4. requestQueue \in Seq(Request)
  BY DEF TypeOK
<1> QED
  BY <1>1, <1>2, <1>3, <1>4, CountsAppend

\* Steps of the main thread that queue a request.
LEMMA PushReplays ==
    ASSUME TypeOK, QueueReplays, NEW fd \in Fds, UNCHANGED entries,
           \/ \E flags \in SUBSET Flags : pushRequest("RESET", fd, flags) /\ UNCHANGED callbacks
           \/ \E flags \in SUBSET Flags : /\ pushRequest("ADD", fd, flags)
                                          /\ fd \notin callbacks
                                          /\ callbacks' = callbacks \cup {fd}
           \/ removeFD(fd)
    PROVE  QueueReplays'
<1> USE DEF pushRequest, Effect, Registered
<1>1. ASSUME NEW flags \in SUBSET Flags, pushRequest("RESET", fd, flags), UNCHANGED callbacks
      PROVE  QueueReplays'
  <2> DEFINE r == [type |-> "RESET", fd |-> fd, flags |-> flags]
  <2>1. r \in Request /\ \A d \in Fds : Effect(r, d, Registered(d), Registered(d)')
    BY <1>1 DEF Request
  <2> QED
    BY <1>1, <2>1, QueuedReplays
<1>2. ASSUME NEW flags \in SUBSET Flags, pushRequest("ADD", fd, flags),
             fd \notin callbacks, callbacks' = callbacks \cup {fd}
      PROVE  QueueReplays'
  <2> DEFINE r == [type |-> "ADD", fd |-> fd, flags |-> flags]
  <2>1. r \in Request /\ \A d \in Fds : Effect(r, d, Registered(d), Registered(d)')
    BY <1>2 DEF Request
  <2> QED
    BY <1>2, <2>1, QueuedReplays
<1>3. CASE removeFD(fd)
  <2> DEFINE r == [type |-> "REMOVE", fd |-> fd, flags |-> {}]
  <2>1. r \in Request /\ \A d \in Fds : Effect(r, d, Registered(d), Registered(d)')
    BY <1>3 DEF Request, removeFD
  <2> QED
    BY <1>3, <2>1, QueuedReplays DEF removeFD
<1> QED
  BY <1>1, <1>2, <1>3

\* The poll thread carries out the first request.
LEMMA RequestReplays == TypeOK /\ QueueReplays /\ request => QueueReplays'
<1> SUFFICES ASSUME TypeOK, QueueReplays, request, NEW fd \in Fds
             PROVE  Counts(requestQueue', fd, entries'[fd], Registered(fd)')
  BY DEF QueueReplays
<1> DEFINE r == Head(requestQueue)
           n == entries[fd]
           m == Registered(fd)
<1>1. m \in {0, 1} /\ m' = m
  BY DEF Registered, request, CarryOut
<1>2. Counts(requestQueue, fd, n, m)
  BY DEF QueueReplays
<1>3. n \in {0, 1}
  <2>1. PICK f \in [0..Len(requestQueue) -> {0, 1}] : f[0] = n
    BY <1>2 DEF Counts
  <2>2. 0 \in 0..Len(requestQueue)
    BY DEF TypeOK
  <2> QED
    BY <2>1, <2>2
<1>4. requestQueue \in Seq(Request) /\ requestQueue # <<>> /\ requestQueue' = Tail(requestQueue)
  BY DEF TypeOK, request, CarryOut
<1>5. PICK k \in {0, 1} : Effect(r, fd, n, k) /\ Counts(Tail(requestQueue), fd, k, m)
  <2> HIDE DEF n, m
  <2> QED
    BY <1>1, <1>2, <1>3, <1>4, CountsTail
<1>6. entries'[fd] = k
  <2>1. r \in Request
    BY <1>4, HeadTailType
  <2>2. r.fd \in Fds /\ entries \in [Fds -> Nat]
    BY <2>1 DEF Request, TypeOK
  <2>3. CASE r.type = "ADD" /\ add(r.fd, r.flags)
    BY <1>5, <2>2, <2>3 DEF add, Effect
  <2>4. CASE r.type = "RESET" /\ reset(r.fd, r.flags)
    BY <1>5, <2>2, <2>4 DEF reset, Effect
  <2>5. CASE r.type = "REMOVE" /\ remove(r.fd)
    BY <1>5, <2>2, <2>5 DEF remove, Effect
  <2> QED
    BY <2>3, <2>4, <2>5 DEF request, CarryOut
<1> QED
  BY <1>1, <1>4, <1>5, <1>6

(***************************************************************************)
(* The queued requests always turn the poll set into m_callbackMap.        *)
(***************************************************************************)
THEOREM ReplayCorrect == Spec => []QueueReplays
<1>1. Init => QueueReplays
  <2> SUFFICES ASSUME Init, NEW fd \in Fds
               PROVE  Counts(requestQueue, fd, entries[fd], Registered(fd))
    BY DEF QueueReplays
  <2> DEFINE f == [i \in 0..0 |-> 0]
  <2>1. requestQueue = <<>> /\ Len(requestQueue) = 0 /\ entries[fd] = 0 /\ Registered(fd) = 0
    BY DEF Init, Registered
  <2>2. f \in [0..0 -> {0, 1}] /\ f[0] = 0 /\ 1..0 = {}
    OBVIOUS
  <2> HIDE DEF f
  <2> QED
    BY <2>1, <2>2 DEF Counts
<1>2. TypeOK /\ QueueReplays /\ [Next]_vars => QueueReplays'
  <2> SUFFICES ASSUME TypeOK, QueueReplays, [Next]_vars PROVE QueueReplays'
    OBVIOUS
  <2> DEFINE Same == UNCHANGED <<requestQueue, entries, callbacks>>
  <2>1. ASSUME Same PROVE QueueReplays'
    BY <2>1 DEF QueueReplays, Counts, Registered
  <2>2. ASSUME NEW fd \in Fds, NEW flags \in {{"INPUT"}, Flags}, addFD(fd, flags)
        PROVE  QueueReplays'
    <3>1. flags \in SUBSET Flags
      BY DEF Flags
    <3> QED
      BY <2>2, <3>1, PushReplays DEF addFD
  <2>3. ASSUME NEW fd \in Fds, sendMessage(fd) PROVE QueueReplays'
    BY <2>3, PushReplays DEF sendMessage, enqueueMessage
  <2>4. ASSUME NEW fd \in Fds, quickDisconnect(fd) PROVE QueueReplays'
    BY <2>4, PushReplays DEF quickDisconnect
  <2>5. CASE onEvent
    <3> DEFINE e == Head(eventQueue)
    <3>1. e.fd \in Fds /\ UNCHANGED entries
      BY <2>5 DEF onEvent, TypeOK
    <3>2. CASE removeFD(e.fd)
      BY <3>1, <3>2, PushReplays
    <3>3. CASE enqueueMessage(e.fd) /\ UNCHANGED callbacks
      BY <3>1, <3>3, PushReplays DEF enqueueMessage
    <3>4. CASE UNCHANGED <<requestQueue, callbacks>>
      BY <2>1, <3>1, <3>4
    <3> QED
      BY <2>5, <3>2, <3>3, <3>4 DEF onEvent
  <2>6. CASE resetFD
    <3>1. UNCHANGED entries
      BY <2>6 DEF resetFD
    <3>2. PICK e \in handling :
            \/ removeFD(e.fd)
            \/ /\ pushRequest("RESET", e.fd, IF e.fd \in sendQueue' THEN Flags ELSE {"INPUT"})
               /\ UNCHANGED callbacks
      BY <2>6 DEF resetFD
    <3>3. e.fd \in Fds
      BY DEF TypeOK, PollEvent
    <3>4. (IF e.fd \in sendQueue' THEN Flags ELSE {"INPUT"}) \in SUBSET Flags
      BY DEF Flags
    <3> QED
      BY <3>1, <3>2, <3>3, <3>4, PushReplays
  <2>7. CASE wakePollThread \/ onEventIgnored \/ Stop
    BY <2>1, <2>7 DEF wakePollThread, onEventIgnored, Stop
  <2>8. CASE request
    BY <2>8, RequestReplays
  <2>9. CASE loop \/ wait \/ clear \/ dispatch \/ eventsDone \/ requestsDone
    BY <2>1, <2>9 DEF loop, wait, clear, dispatch, eventsDone, requestsDone
  <2>10. ASSUME NEW fd \in Fds, Receive(fd) PROVE QueueReplays'
    BY <2>1, <2>10 DEF Receive
  <2>11. CASE UNCHANGED vars
    BY <2>1, <2>11 DEF vars
  <2> QED
    BY <2>2, <2>3, <2>4, <2>5, <2>6, <2>7, <2>8, <2>9, <2>10, <2>11 DEF Next, Main, Poll
<1> QED
  BY <1>1, <1>2, TypeCorrect, PTL DEF Spec

(***************************************************************************)
(* When no request is queued, poll() watches exactly the registered        *)
(* sockets, each once.                                                     *)
(***************************************************************************)
THEOREM PollSetCorrect == Spec => []SettledPollSet
<1>1. QueueReplays => SettledPollSet
  <2> SUFFICES ASSUME QueueReplays, requestQueue = <<>>, NEW fd \in Fds
               PROVE  entries[fd] = Registered(fd)
    BY DEF SettledPollSet
  <2>1. Len(requestQueue) = 0
    OBVIOUS
  <2> QED
    BY <2>1 DEF QueueReplays, Counts
<1> QED
  BY <1>1, ReplayCorrect, PTL

=============================================================================

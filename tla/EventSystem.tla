----------------------------- MODULE EventSystem -----------------------------
(***************************************************************************)
(* EventSystem: any thread dispatches events, the main thread takes one at *)
(* a time from the queue and runs the callbacks registered for its ID.     *)
(*                                                                         *)
(* The queue is a moodycamel::BlockingConcurrentQueue used without         *)
(* producer tokens: it keeps one sub-queue per producing thread, each of   *)
(* them FIFO, and promises no order between two of them.                   *)
(***************************************************************************)
EXTENDS Naturals, Sequences

VARIABLES
    eventQueue,     \* m_eventQueue: the events each thread dispatched
    callbacks,      \* the IDs with a registered callback (m_callbackMap)
    isDispatching   \* m_isRunning

eventVars == <<eventQueue, callbacks, isDispatching>>

Threads == {"Main", "Resolver", "Signal", "Poll"}

EventID == {"UPDATE_EVENT", "APP_INTERNAL_EVENT", "RESOLVER_INTERNAL_EVENT",
            "POLL_SYSTEM_INTERNAL_EVENT", "CLIENT_EVENT", "UI_CURSES_INTERNAL_EVENT"}

\* An event and what it carries; an EventWrapper is never shared, so a value will do.
Event(id, content) == [id |-> id, content |-> content]

InitEventSystem ==
    /\ eventQueue = [t \in Threads |-> <<>>]
    /\ callbacks = {}
    /\ isDispatching = FALSE

\* pushEvent: the queue after thread t dispatched event e.
Dispatched(queue, t, e) == [queue EXCEPT ![t] = Append(@, e)]

\* wait_dequeue: the queue after an event of thread t was taken.
Dequeued(queue, t) == [queue EXCEPT ![t] = Tail(@)]

addCallback(ids) == callbacks' = callbacks \cup ids

delCallback(ids) == callbacks' = callbacks \ ids

=============================================================================

------------------------------ MODULE Resolver ------------------------------
(***************************************************************************)
(* Resolver: the main thread queues requests, the resolver thread answers  *)
(* one after the other (the C library may take its time) and sends the     *)
(* request back as an event, whose handler calls the requester with a raw  *)
(* pointer.  A hostname or a service may have no answer.                   *)
(***************************************************************************)
EXTENDS EventSystem

CONSTANTS
    MaxAddresses,   \* bound: addresses in an answer
    MaxPorts,       \* bound: ports in an answer
    MaxRequests     \* bound: requests not handled yet when the list adds one

ASSUME ResolverAssumption == {MaxAddresses, MaxPorts, MaxRequests} \subseteq Nat

VARIABLES
    requestQueue,   \* m_requestQueue
    isResolving,    \* m_isRunning, a plain bool written by the main thread
    resolverPC,     \* the resolver thread: "none", "loop", "wait", "process", "exit"
    request         \* pRequest of resolverLoop

resolverVars == <<requestQueue, isResolving, resolverPC, request>>

EResolverRequest == {"HOSTNAME", "SERVICE", "ADDRESS", "PORT"}

NoRequest == "nullptr"

InitResolver ==
    /\ requestQueue = <<>>
    /\ isResolving = FALSE
    /\ resolverPC = "none"
    /\ request = NoRequest

\* The constructor starts the thread; the callback is registered by the caller.
StartResolver ==
    /\ isResolving' = TRUE
    /\ resolverPC' = "loop"
    /\ UNCHANGED <<requestQueue, request>>

pushRequest(type) ==
    /\ requestQueue' = Append(requestQueue, type)
    /\ UNCHANGED <<isResolving, resolverPC, request>>

\* The loop condition of resolverLoop.
ResolverLoop ==
    /\ resolverPC = "loop"
    /\ resolverPC' = IF isResolving THEN "wait" ELSE "exit"
    /\ UNCHANGED <<requestQueue, isResolving, request, eventQueue>>

\* wait_dequeue; the null request only wakes the thread.
ResolverWait ==
    /\ resolverPC = "wait"
    /\ requestQueue # <<>>
    /\ requestQueue' = Tail(requestQueue)
    /\ request' = Head(requestQueue)
    /\ resolverPC' = IF Head(requestQueue) = NoRequest THEN "loop" ELSE "process"
    /\ UNCHANGED <<isResolving, eventQueue>>

\* The answers: what getaddrinfo finds, or the names, which do not matter here.
Answers(type) ==
    CASE type = "HOSTNAME" -> 0..MaxAddresses
      [] type = "SERVICE" -> 0..MaxPorts
      [] OTHER -> {1}

\* processHostname, processService, processAddress or processPort, and the event.
ResolverProcess ==
    /\ resolverPC = "process"
    /\ \E found \in Answers(request) :
         eventQueue' = Dispatched(eventQueue, "Resolver",
                         Event("RESOLVER_INTERNAL_EVENT", [type |-> request, found |-> found]))
    /\ request' = NoRequest
    /\ resolverPC' = "loop"
    /\ UNCHANGED <<requestQueue, isResolving>>

ResolverThread == ResolverLoop \/ ResolverWait \/ ResolverProcess

\* The requests that are queued, processed, or answered but not handled.
Outstanding(type) ==
    \/ \E i \in DOMAIN requestQueue : requestQueue[i] = type
    \/ request = type
    \/ \E i \in DOMAIN eventQueue["Resolver"] : eventQueue["Resolver"][i].content.type = type

=============================================================================

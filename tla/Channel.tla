------------------------------ MODULE Channel ------------------------------
(***************************************************************************)
(* What the program expects of the queues between its threads: every       *)
(* producer's items arrive, each once, in the order it sent them; nothing  *)
(* is promised about the items of two producers.  Resolver, PollSystem and *)
(* EventSystem are modelled on top of this; ReaderWriterQueue and          *)
(* ConcurrentQueue are shown to implement it.                              *)
(***************************************************************************)
EXTENDS Naturals, Sequences

CONSTANTS Producers, Items

VARIABLES
    queue,      \* what each producer sent and the consumer has not taken
    received,   \* what the consumer took from each producer
    closed      \* the queue is destroyed, with what is left in it

channelVars == <<queue, received, closed>>

Init ==
    /\ queue = [p \in Producers |-> <<>>]
    /\ received = [p \in Producers |-> <<>>]
    /\ closed = FALSE

Put(p) ==
    /\ ~closed
    /\ UNCHANGED <<received, closed>>
    /\ Len(queue'[p]) > Len(queue[p])
    /\ \E item \in Items : queue' = [queue EXCEPT ![p] = Append(@, item)]

Take(p) ==
    /\ ~closed
    /\ queue[p] # <<>>
    /\ received' = [received EXCEPT ![p] = Append(@, Head(queue[p]))]
    /\ queue' = [queue EXCEPT ![p] = Tail(@)]
    /\ UNCHANGED closed

Close ==
    /\ ~closed
    /\ closed' = TRUE
    /\ queue' = [p \in Producers |-> <<>>]
    /\ UNCHANGED received

Next ==
    \/ \E p \in Producers : Put(p) \/ Take(p)
    \/ Close

\* The consumer is never left waiting while there is something to take.
Spec ==
    /\ Init
    /\ [][Next]_channelVars
    /\ WF_channelVars(\E p \in Producers : Take(p))

=============================================================================

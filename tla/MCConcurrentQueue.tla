-------------------------- MODULE MCConcurrentQueue --------------------------
(* Instances of ConcurrentQueue. *)
EXTENDS ConcurrentQueue

\* The poll thread fills its block index, the resolver thread competes for blocks.
const_Producers == {"Poll", "Resolver"}
const_MaxItems == [p \in const_Producers |-> IF p = "Poll" THEN 5 ELSE 1]

=============================================================================

----------------------- MODULE MCScreenConnectionList -----------------------
(***************************************************************************)
(* Connections of host a to host b, and of host a to itself (Local), all   *)
(* to the same port.                                                       *)
(***************************************************************************)
EXTENDS ScreenConnectionList

CONSTANT Local

MCSrc == [c \in Conns |-> "a"]

MCDst == [c \in Conns |-> IF c \in Local THEN "a" ELSE "b"]

MCPort == [c \in Conns |-> "p"]

MCRank == [c \in Conns |-> IF c \in Local THEN 1 ELSE 2]

MCModes == {<<"TRAFFIC", FALSE>>, <<"DST_HOSTNAME", TRUE>>}

Symmetry == Permutations(Conns \ Local)
=============================================================================

------------------------ MODULE MCConnectionTransfer ------------------------
(***************************************************************************)
(* A flow, the one in the other direction, and one of the other protocol   *)
(* and family with the same numbers, which is its own peer.                *)
(***************************************************************************)
EXTENDS ConnectionTransfer

Flow(type, src, sport, dst, dport) ==
    [type |-> type, src |-> IPAddress(AddressType(type), src), sport |-> sport,
     dst |-> IPAddress(AddressType(type), dst), dport |-> dport]

MCFlows == {Flow("TCP4", 1, 0, 2, 1), Flow("TCP4", 2, 1, 1, 0), Flow("UDP6", 1, 0, 1, 0)}

MCKnown == {IPAddress("IP4", 1), NewPort("TCP", 1)}

\* The flags of a state event and of a traffic update.
MCUpdateFlags == {{"PROTO_STATE"}, {"RX_PACKETS", "TX_PACKETS", "RX_BYTES", "TX_BYTES", "RX_SPEED", "TX_SPEED"}}

=============================================================================

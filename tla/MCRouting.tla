------------------------------ MODULE MCRouting ------------------------------
(***************************************************************************)
(* The routing layer for TLC: a node with identifiers of two bytes of two   *)
(* bits, where three peers compete for one bucket of the local node, one    *)
(* has the next for itself, and the node hears of itself; or three nodes    *)
(* that Join.                                                               *)
(***************************************************************************)
EXTENDS RoutingLayer

MCLocal == {2, 1}
MCPeers == {{1}, {1, 0}, {0}, {2}, MCLocal}

\* Two nodes bootstrap through the third; or one does and meets the last on
\* its local network; or all are on one network and no more.
MCSettings ==
  {[told |-> {2, 3}, lan |-> {}], [told |-> {2}, lan |-> {2, 3}],
   [told |-> {}, lan |-> {1, 2, 3}]}
=============================================================================

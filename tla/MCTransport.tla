----------------------------- MODULE MCTransport -----------------------------
(***************************************************************************)
(* Transport with two calls, to a peer each and with ids of their own; the  *)
(* id of the first may also come in a request of a peer.                    *)
(***************************************************************************)
EXTENDS Transport

CONSTANTS r1, r2, p1, p2, t1, t2

MCTo == [r \in Reqs |-> IF r = r1 THEN p1 ELSE p2]
MCTx == [r \in Reqs |-> IF r = r1 THEN t1 ELSE t2]
=============================================================================

-------------------------------- MODULE MCAlerts --------------------------------
(***************************************************************************)
(* An instance of Alerts for TLC: a node that subscribes twice, and one     *)
(* that publishes.                                                          *)
(***************************************************************************)
EXTENDS Alerts

CONSTANTS b1, b2, s1, s2, p1, c1

MCNodeOf == [r \in Rounds |-> IF r = p1 THEN "publisher" ELSE "subscriber"]
MCFound == {<<b2, b1>>}
===============================================================================

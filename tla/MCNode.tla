--------------------------------- MODULE MCNode ---------------------------------
(***************************************************************************)
(* An instance of Node for TLC: one author, rated down.               *)
(***************************************************************************)
EXTENDS Node

MCDeltas == {-1}
===============================================================================

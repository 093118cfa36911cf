------------------------------- MODULE MCLookups -------------------------------
(***************************************************************************)
(* Both lookups for TLC, among six nodes, with a list shorter than what is  *)
(* known; three nodes may answer with the value.                            *)
(***************************************************************************)
EXTENDS Lookups

MCContacts == 1..6
MCHolders == 1..3
=============================================================================

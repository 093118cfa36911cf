------------------------------ MODULE MCFindValue ------------------------------
(***************************************************************************)
(* FindValue among five nodes, three of which may answer with the value.    *)
(***************************************************************************)
EXTENDS FindValue

MCContacts == 1..5
MCHolders == 1..3
=============================================================================

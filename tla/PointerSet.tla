------------------------------ MODULE PointerSet ------------------------------
(***************************************************************************)
(* What a keyword index promises (docs/ARCHITECTURE.md, "Set Merging"): it  *)
(* is a bounded set of pointers, to which updates add; it forgets pointers  *)
(* only when it is full, or all of them when it leaves the storage.         *)
(***************************************************************************)
EXTENDS Integers, FiniteSets

CONSTANTS Pointers, Cap

VARIABLE pointers

Bounded == {S \in SUBSET Pointers : Cardinality(S) <= Cap}

Init == pointers = {}
Add == pointers' \in {S \in Bounded : pointers \subseteq S}
Trim == pointers' \in {S \in Bounded : Cardinality(S) = Cap}
Forget == pointers' = {}

Spec == Init /\ [][Add \/ Trim \/ Forget]_pointers
=============================================================================

------------------------------ MODULE MCSearch -------------------------------
(***************************************************************************)
(* Instances of Search for TLC: two keywords, a small content and a large   *)
(* one, by one author; the first keyword lists the small content only.      *)
(***************************************************************************)
EXTENDS Search

CONSTANTS go, raft, note, book, page, alice

MCPointers == [t \in Keywords |-> IF t = go THEN {note} ELSE {note, book}]
MCSegmentsOf == [m \in Manifests |-> Segments]
MCAuthorOf ==
  [id \in Ids |-> IF id \in {note, page} THEN alice ELSE NoAuthor]
MCScores == {-4, -3}
MCMinReputation == -3
=============================================================================

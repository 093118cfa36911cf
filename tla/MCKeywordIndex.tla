---------------------------- MODULE MCKeywordIndex ----------------------------
(***************************************************************************)
(* KeywordIndex with chunks of this node, and lists sent by peers that       *)
(* overlap each other and reach the limit.                                  *)
(***************************************************************************)
EXTENDS KeywordIndex

MCIncoming == {<<1>>, <<2, 5>>, <<6>>}
MCRemote == {<<3, 5>>}
=============================================================================

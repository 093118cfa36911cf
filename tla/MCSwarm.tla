------------------------------- MODULE MCSwarm -------------------------------
(***************************************************************************)
(* Instances of Swarm and Lifetimes for TLC, the two models of replication: *)
(* one of states and messages without time, one of the time a chunk lives.  *)
(* The initial state chooses the one that runs. In Swarm, a small content   *)
(* of one chunk and a large one of a segment and a manifest, and one        *)
(* keyword.                                                                 *)
(***************************************************************************)
EXTENDS Swarm, Lifetimes

CONSTANTS n1, n2, n3, memo, book, c1, seg, manifest, topic

VARIABLE timed   \* Lifetimes runs

MCChunksOf == [c \in Contents |-> IF c = memo THEN {c1} ELSE {seg, manifest}]
MCKeywordsOf == [c \in Contents |-> Keywords]
MCShareStates ==
  [n \in Nodes |-> IF n = n1 THEN {"modified", "committed"} ELSE {"modified"}]

bothVars == <<vars, lifeVars, timed>>

BothInit ==
  /\ Init /\ LifeInit
  /\ timed \in BOOLEAN
  /\ ~timed => uptime = [n \in Replicas |-> 0]

BothNext ==
  \/ ~timed /\ Next /\ UNCHANGED <<lifeVars, timed>>
  \/ timed /\ LifeNext /\ UNCHANGED <<vars, timed>>

BothSpec == BothInit /\ [][BothNext]_bothVars /\ (~timed => Fairness)
=============================================================================

----------------------------- MODULE RoutingLayer -----------------------------
(***************************************************************************)
(* The routing layer: the table of a node with the goroutines that feed it  *)
(* (RoutingTable) and the worker that refreshes its buckets (BucketRefresh), *)
(* and the tables of several nodes that Join. In a behaviour one of the two *)
(* runs.                                                                    *)
(***************************************************************************)
EXTENDS RoutingTable

CONSTANTS
  ByteSize,
  Nodes, Seed, Alpha, Settings, MaxFaults

VARIABLES
  index, target,
  table, phase, list, wire, setting, smooth, faults,
  joining   \* Join runs

Refresh == INSTANCE BucketRefresh
J == INSTANCE Join

ASSUME LayerAssumption == Refresh!RefreshAssumption /\ J!JoinAssumption

layerVars == <<vars, index, target>>
swarmVars == <<table, phase, list, wire, setting, smooth, faults>>
allVars == <<layerVars, swarmVars, joining>>

LayerInit ==
  /\ Init /\ Refresh!Init /\ J!JoinInit
  /\ joining \in BOOLEAN
  /\ IF joining THEN target = CHOOSE id \in Refresh!RandomIDs(0) : TRUE
                ELSE setting = CHOOSE s \in Settings : TRUE

LayerNext ==
  \/ ~joining /\ Next /\ UNCHANGED <<index, target, swarmVars, joining>>
  \/ ~joining /\ Refresh!Next /\ UNCHANGED <<vars, swarmVars, joining>>
  \/ joining /\ J!JoinNext /\ UNCHANGED <<layerVars, joining>>

\* The fairness of Join asks nothing while its nodes are down.
LayerSpec == LayerInit /\ [][LayerNext]_allVars /\ J!JoinFairness

-----------------------------------------------------------------------------
(* Properties *)

\* No lookup of the refresh (workers.go:158) is for the node itself or for a
\* node nearer than the bucket: what it finds lies in this bucket or beyond.
NeverBelow == Refresh!NeverBelow

\* engine.go:691-703: nodes that have bootstrapped through one seed, without a
\* timeout, know each other once their lookups have ended.
JoinersMeet == J!JoinersMeet

\* workers.go:133-156, discovery.go: nodes that hang together come to know one
\* another, whatever was lost before.
SwarmConverges == J!SwarmConverges
===============================================================================

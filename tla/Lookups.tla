-------------------------------- MODULE Lookups --------------------------------
(***************************************************************************)
(* Both lookups of the router, for nodes (LookupNode) and for a value       *)
(* (FindValue). A lookup has its shortlist to itself, so that two under way *)
(* would not meet: the initial state chooses one, and the other has nothing *)
(* to do.                                                                   *)
(***************************************************************************)
EXTENDS LookupNode

CONSTANT Holders   \* the nodes whose answer carries the value

VARIABLES
  vList, vInflight, vSending, vOnce, vChan, vPc, vFound, vKnown

V == INSTANCE FindValue WITH
  shortlist <- vList, inflight <- vInflight, sending <- vSending,
  once <- vOnce, resChan <- vChan, pc <- vPc, found <- vFound, known <- vKnown

ASSUME ValueAssumption == V!FindAssumption

valueVars == <<vList, vInflight, vSending, vOnce, vChan, vPc, vFound, vKnown>>
allVars == <<vars, valueVars>>

NoNodeLookup ==
  /\ shortlist = NewShortlist({}) /\ inflight = {}
  /\ pc = "done" /\ result = {} /\ known = {} /\ asked = {}

NoValueLookup ==
  /\ vList = NewShortlist({}) /\ vInflight = {} /\ vSending = {}
  /\ vOnce = FALSE /\ vChan = FALSE
  /\ vPc = "done" /\ vFound = FALSE /\ vKnown = {}

LookupsInit ==
  \/ Init /\ NoValueLookup
  \/ V!Init /\ NoNodeLookup

LookupsNext ==
  \/ Next /\ UNCHANGED valueVars
  \/ V!Next /\ UNCHANGED vars

LookupsSpec ==
  /\ LookupsInit /\ [][LookupsNext]_allVars
  /\ WF_allVars(Main /\ UNCHANGED valueVars)
  /\ \A c \in Contacts : WF_allVars(Query(c) /\ UNCHANGED valueVars)
  /\ WF_allVars(V!Main /\ UNCHANGED vars)
  /\ \A c \in Contacts : WF_allVars(V!Query(c) /\ UNCHANGED vars)

-----------------------------------------------------------------------------
(* Properties *)

\* commands.go:353-446: FindValue says "not found" only when no node asked
\* has delivered the value and all of the closest were asked.
NotFoundIsHonest == V!NotFoundIsHonest

\* commands.go:384-429: no query goroutine is left behind.
QueriesEnd == V!QueriesEnd

\* commands.go:373-446: without a value the search ends.
EndsWithoutValue == V!EndsWithoutValue
=============================================================================

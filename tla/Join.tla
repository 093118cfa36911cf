---------------------------------- MODULE Join ----------------------------------
(***************************************************************************)
(* How the nodes of a swarm come to know one another: the bootstrap through *)
(* a seed (src/internal/dht/engine.go), the beacons on the local network    *)
(* (discovery.go), the refresh of the routing table (workers.go), and under *)
(* them the lookups and the handlers of PING and FIND_NODE (commands.go) of *)
(* every node, over datagrams that may be lost or late.                     *)
(*                                                                          *)
(* There are at most K nodes: no bucket is full, no shortlist and no answer *)
(* is cut, and a table is the set of the nodes it holds. A number names a   *)
(* node and says nothing of its place. RoutingTable has the table of one    *)
(* node in detail, LookupNode its lookup among any number of others.        *)
(***************************************************************************)
EXTENDS Integers, FiniteSets, FiniteSetsExt

CONSTANTS
  Nodes,
  Seed,      \* the node that others are told to bootstrap from
  Alpha,     \* the queries of a round (3)
  Settings,  \* the configurations to consider: see told and lan
  MaxFaults  \* bound on packets lost or late and on crashes, together

\* What the constants are: an instance assumes it.
JoinAssumption ==
  /\ IsFiniteSet(Nodes) /\ Nodes \subseteq Nat /\ Seed \in Nodes
  /\ Alpha \in Nat \ {0} /\ MaxFaults \in Nat
  /\ Settings \subseteq [told : SUBSET (Nodes \ {Seed}), lan : SUBSET Nodes]

VARIABLES
  table,    \* the routing table of each node
  phase,    \* what the node's goroutines are at
  list,     \* the shortlist of its lookup
  wire,     \* the datagrams under way
  setting,  \* told: who bootstraps; lan: who has discovery on, on one network
  smooth,   \* history: whose bootstrap, with the seed as it is now, met no timeout
  faults    \* history: how many there were

joinVars == <<table, phase, list, wire, setting, smooth, faults>>

Phases == {"down", "pinging", "pinged", "joining", "idle", "refreshing"}
Requests == {"ping", "find"}
Kinds == Requests \cup {"pong", "found", "beacon"}
Packet ==
  [kind : Kinds, from : Nodes, to : Nodes, contacts : SUBSET Nodes, awaited : BOOLEAN]

Short == INSTANCE Shortlist WITH Contacts <- Nodes, K <- Cardinality(Nodes)

Up == {n \in Nodes : phase[n] # "down"}
Looking(n) == phase[n] \in {"joining", "refreshing"}
Settled(n) == phase[n] \in {"idle", "refreshing"}

JoinInit ==
  /\ table = [n \in Nodes |-> {}]
  /\ phase = [n \in Nodes |-> "down"]
  /\ list = [n \in Nodes |-> Short!NewShortlist({})]
  /\ wire = {}
  /\ setting \in Settings
  /\ smooth = {} /\ faults = 0

\* A datagram to a node that is not there is lost. Nobody awaits the answer
\* to a beacon.
Sent(kind, n, S) ==
  [kind : {kind}, from : {n}, to : S \cap Up, contacts : {{}},
   awaited : {kind \in Requests}]
Answer(p, kind, contacts) ==
  [kind |-> kind, from |-> p.to, to |-> p.from, contacts |-> contacts,
   awaited |-> p.awaited]

NowPhase(n, s) == phase' = [phase EXCEPT ![n] = s]
NowList(n, l) == list' = [list EXCEPT ![n] = l]

\* A beacon to every other node on the local network.
Beacons(n) ==
  IF n \in setting.lan THEN Sent("beacon", n, setting.lan \ {n}) ELSE {}

\* runServe listens, starts the discovery, whose first beacon goes out at once,
\* and bootstraps when it was told to: a PING.
StartNode(n) ==
  /\ phase[n] = "down"
  /\ NowPhase(n, IF n \in setting.told THEN "pinging" ELSE "idle")
  /\ wire' = wire \cup Beacons(n)
                  \cup (IF n \in setting.told THEN Sent("ping", n, {Seed}) ELSE {})
  /\ smooth' = smooth \cup ({n} \cap setting.told)
  /\ UNCHANGED <<table, list, setting, faults>>

\* LookupNode starts from the table, and fails at once when that is empty.
BeginLookup(n, s) ==
  /\ NowPhase(n, IF table[n] = {} THEN "idle" ELSE s)
  /\ NowList(n, Short!NewShortlist(table[n]))
  /\ UNCHANGED <<table, wire, setting, smooth, faults>>

BootstrapLookup(n) == phase[n] = "pinged" /\ BeginLookup(n, "joining")

\* A refresh comes every 30 minutes and a beacon every 30 seconds: what else goes on
\* takes seconds and is over by then. A start may meet either. Of the lookups
\* of a refresh, one for each bucket, one asks everybody.
Quiet == wire = {} /\ \A n \in Nodes : phase[n] \in {"down", "idle"}

Refresh(n) == Quiet /\ n \in Up /\ BeginLookup(n, "refreshing")

SendBeacon(n) ==
  /\ Quiet /\ n \in Up /\ Beacons(n) # {}
  /\ wire' = Beacons(n)
  /\ UNCHANGED <<table, phase, list, setting, smooth, faults>>

\* GetNextToQuery gives the closest, which may be any, the target being any.
Querying(n) == Short!WithStatus(list[n], "querying")
Unasked(n) == Short!WithStatus(list[n], "new")

StartRound(n) ==
  /\ Looking(n) /\ Querying(n) = {} /\ Unasked(n) # {}
  /\ \E S \in kSubset(Min({Alpha, Cardinality(Unasked(n))}), Unasked(n)) :
       /\ NowList(n, Short!Mark(list[n], S, "querying"))
       /\ wire' = wire \cup Sent("find", n, S)
  /\ UNCHANGED <<table, phase, setting, smooth, faults>>

EndLookup(n) ==
  /\ Looking(n) /\ Short!IsFinished(list[n])
  /\ NowPhase(n, "idle")
  /\ NowList(n, Short!NewShortlist({}))
  /\ UNCHANGED <<table, wire, setting, smooth, faults>>

\* mutant: only requests reach the handler, a response only its call
AddRequester(p) == IF p.kind \in Requests THEN {p.from} \ {p.to} ELSE {}

\* mutant: only who answers is added
AddResponder(p) == IF p.kind \in Requests THEN {} ELSE {p.from} \ {p.to}

\* HandleMessage adds the sender of anything, before the handler of a request
\* answers from the table and before a response goes to its call.
AddSender(p) == {p.from} \ {p.to}

\* The goroutine of the query adds the contacts of the answer.
AddFound(p) == IF p.kind = "found" /\ p.awaited THEN p.contacts \ {p.to} ELSE {}

Learned(p) == table[p.to] \cup AddSender(p) \cup AddFound(p)

\* What is sent in reply. A beacon is handled as a PING.
Reply(p) ==
  CASE p.kind \in {"ping", "beacon"} -> {Answer(p, "pong", {})}
    [] p.kind = "find"              -> {Answer(p, "found", Learned(p))}
    [] OTHER                        -> {}

ReceivePacket(p) ==
  /\ p \in wire /\ p.to \in Up
  /\ table' = [table EXCEPT ![p.to] = Learned(p)]
  /\ wire' = (wire \ {p}) \cup Reply(p)
  /\ IF p.kind = "pong" /\ p.awaited
     THEN NowPhase(p.to, "pinged") ELSE UNCHANGED phase
  /\ IF p.kind = "found" /\ p.awaited
     THEN NowList(p.to, Short!MarkResponded(list[p.to], p.from, p.contacts))
     ELSE UNCHANGED list
  /\ UNCHANGED <<setting, smooth, faults>>

-----------------------------------------------------------------------------
(* Faults *)

Fault == faults < MaxFaults /\ faults' = faults + 1

\* The datagrams of n's request to m and of the answer.
Exchange(n, m) ==
  {p \in wire : p.awaited /\ IF p.kind \in Requests
                             THEN p.from = n /\ p.to = m ELSE p.from = m /\ p.to = n}
NoLonger(S) == (wire \ S) \cup {[p EXCEPT !.awaited = FALSE] : p \in S}

LosePacket(p) ==
  /\ p \in wire /\ Fault
  /\ wire' = wire \ {p}
  /\ UNCHANGED <<table, phase, list, setting, smooth>>

\* A call gives up when there is nothing to wait for, or too early.
GivesUp(n, m) ==
  /\ IF Exchange(n, m) = {} THEN UNCHANGED faults ELSE Fault
  /\ wire' = NoLonger(Exchange(n, m))
  /\ smooth' = IF phase[n] = "refreshing" THEN smooth ELSE smooth \ {n}
  /\ UNCHANGED <<table, setting>>

\* Bootstrap returns nil, and nobody tries again.
PingTimeout(n) ==
  /\ phase[n] = "pinging" /\ GivesUp(n, Seed)
  /\ NowPhase(n, "idle")
  /\ UNCHANGED list

QueryTimeout(n, m) ==
  /\ m \in Querying(n) /\ GivesUp(n, m)
  /\ NowList(n, Short!MarkFailed(list[n], m))
  /\ UNCHANGED phase

\* The process ends, with its table and its calls; all is kept in memory. What
\* others have from the seed, they have from the seed that was.
CrashNode(n) ==
  /\ n \in Up /\ Fault
  /\ table' = [table EXCEPT ![n] = {}]
  /\ NowPhase(n, "down") /\ NowList(n, Short!NewShortlist({}))
  /\ wire' = {[p EXCEPT !.awaited = p.awaited /\ ~(p.from = n /\ p.kind \in Requests)] :
                p \in {q \in wire : q.to # n}}
  /\ smooth' = IF n = Seed THEN {} ELSE smooth \ {n}
  /\ UNCHANGED setting

\* What goroutines, timers and the network do of their own.
JoinMoves ==
  \/ \E n \in Nodes :
       \/ BootstrapLookup(n) \/ StartRound(n) \/ EndLookup(n)
       \/ PingTimeout(n)
       \/ \E m \in Nodes : QueryTimeout(n, m)
  \/ \E p \in wire : ReceivePacket(p)

JoinNext ==
  \/ JoinMoves
  \/ \E n \in Nodes : StartNode(n) \/ Refresh(n) \/ SendBeacon(n) \/ CrashNode(n)
  \/ \E p \in wire : LosePacket(p)

\* What has begun is finished, every refresh and every beacon has its turn.
JoinFairness ==
  /\ WF_joinVars(JoinMoves)
  /\ \A n \in Nodes : SF_joinVars(Refresh(n)) /\ SF_joinVars(SendBeacon(n))

JoinSpec == JoinInit /\ [][JoinNext]_joinVars /\ JoinFairness

-----------------------------------------------------------------------------
(* Properties *)

JoinTypeOK ==
  /\ table \in [Nodes -> SUBSET Nodes]
  /\ phase \in [Nodes -> Phases]
  /\ list \in [Nodes -> Short!Shortlists]
  /\ wire \subseteq Packet
  /\ setting \in Settings /\ smooth \subseteq Nodes \ {Seed}
  /\ faults \in 0..MaxFaults

\* Two nodes that have bootstrapped through one seed, at the same time or one
\* after the other, without a timeout, know each other from then on, whoever
\* else ends meanwhile, and also when one of them has ended and joined again.
JoinersMeet ==
  \A n, m \in smooth :
    n # m /\ Settled(n) /\ Settled(m) => m \in table[n]

Linked(n, m) == m \in table[n] \/ n \in table[m] \/ {n, m} \subseteq setting.lan
Connected ==
  \A S \in SUBSET Up \ {{}, Up} : \E n \in S, m \in Up \ S : Linked(n, m)
AllMeet == \A n, m \in Up : n # m => m \in table[n]

\* Whatever was lost, late or crashed before: when the nodes hang together,
\* by who knows whom or by a local network, all come to know all.
SwarmConverges == <>[]Connected => <>[]AllMeet

\* What JoinersMeet needs to be inductive.  A node awaits one datagram of each
\* call at a time, and only while it makes the call;
Calls(n) ==
  /\ \A m \in Nodes : \A p, q \in Exchange(n, m) :
       /\ p = q
       /\ \/ p.kind \in {"ping", "pong"} /\ m = Seed /\ phase[n] = "pinging"
          \/ p.kind \in {"find", "found"} /\ Looking(n) /\ m \in Querying(n)
  /\ ~Looking(n) => DOMAIN list[n] = {}

\* the seed has answered a node that joins, and knows it; so has whoever the
\* node asked since, unless its process has ended;
Introduced(n) ==
  /\ phase[n] # "down"
  /\ phase[n] # "pinging" => n \in table[Seed] /\ Seed \in table[n]
  /\ \A p \in Exchange(n, Seed) : p.kind \notin Requests => n \in table[Seed]
  /\ phase[n] = "joining" =>
       /\ Seed \in DOMAIN list[n] /\ Short!WithStatus(list[n], "failed") = {}
       /\ Short!WithStatus(list[n], "responded") \ {n} \subseteq table[n]

\* and of two nodes that the seed has told whom it knows, one was told of the
\* other, and asks it before its lookup ends,
ToldBySeed(n) ==
  {p.contacts : p \in {q \in Exchange(n, Seed) : q.kind = "found"}}

Served(n) ==
  \/ Settled(n)
  \/ /\ phase[n] = "joining"
     /\ Seed \in Short!WithStatus(list[n], "responded") \/ ToldBySeed(n) # {}

Hears(n, m) == phase[n] = "joining" /\ m \in DOMAIN list[n] \cup UNION ToldBySeed(n)

Meets(n, m) == (m \in table[n] /\ n \in table[m]) \/ Hears(n, m)

\* which then knows it, or has begun anew and hears of it in turn.
Answered(n, m) ==
  /\ phase[n] = "joining"
  /\ \/ m \in Short!WithStatus(list[n], "responded")
     \/ \E p \in Exchange(n, m) : p.kind \notin Requests

Recalls(m, n) == n \in table[m] \/ Hears(m, n)

JoinInv ==
  /\ JoinTypeOK
  /\ \A n \in Nodes : Calls(n)
  /\ \A n \in smooth : Introduced(n)
  /\ \A n, m \in smooth : n # m /\ Served(m) =>
       /\ Served(n) => Meets(n, m) \/ Meets(m, n)
       /\ Answered(n, m) => Recalls(m, n)

\* A claim that does not hold (see README.md).
\* README.md:78: "Join a specific network via bootstrap".
BootstrapJoins ==
  \A n \in setting.told : Settled(n) => Seed \in table[n]
=================================================================================

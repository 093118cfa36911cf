-------------------------------- MODULE Lifetimes --------------------------------
(***************************************************************************)
(* How long a committed chunk lives in the swarm, in ticks of time. Every   *)
(* node has two tickers that start together with its workers                *)
(* (src/internal/dht/workers.go): the collector removes expired copies      *)
(* (CleanExpired, storage.go), the replicator sends every copy to the       *)
(* others, the expired ones not yet collected included. A copy expires when *)
(* the envelope around it says, which Share sets (sanitizer/outbound.go)    *)
(* and Store keeps; nothing else looks at it. Swarm models the replication  *)
(* in full, but without time.                                               *)
(***************************************************************************)
EXTENDS Integers, FiniteSets, Functions

CONSTANTS
  Replicas,    \* the nodes, which all know one another
  Day,         \* the life of a chunk when it is shared
  GCPeriod,    \* of the collector (10 minutes)
  RepPeriod,   \* of the replicator (1 hour)
  MaxShares,   \* bound on how often the chunk is shared
  MaxRestarts  \* bound on the restarts of nodes

ASSUME LifeAssumption ==
  /\ IsFiniteSet(Replicas)
  /\ {Day, GCPeriod, RepPeriod} \subseteq Nat \ {0}
  /\ RepPeriod % GCPeriod = 0
  /\ MaxShares \in Nat /\ MaxRestarts \in Nat

VARIABLES
  life,      \* of each node that holds a copy: the ticks until it expires
  uptime,    \* each node's, modulo RepPeriod
  gcDue,     \* the nodes whose collector's ticker has fired
  repDue,    \* those whose replicator's has
  strangers, \* the contacts a node has not heard from since its start
  offers,    \* STORE messages on the wire
  newest,    \* history: the ticks until the last share of the chunk expires
  shares, restarts, handoffs   \* history: how often each happened

lifeVars ==
  <<life, uptime, gcDue, repDue, strangers, offers, newest, shares, restarts, handoffs>>

\* The nodes have been started at different times.
LifeInit ==
  /\ life = <<>>
  /\ uptime \in [Replicas -> 0..(RepPeriod - 1)]
  /\ gcDue = {} /\ repDue = {}
  /\ strangers = [n \in Replicas |-> {}]
  /\ offers = {}
  /\ newest = 0
  /\ shares = 0 /\ restarts = 0 /\ handoffs = 0

Holding == DOMAIN life
Keep(n, ticks) == [m \in Holding \cup {n} |-> IF m = n THEN ticks ELSE life[m]]

\* Share with state "committed". On a node that holds the chunk, expired or
\* not, Store refuses it: sharing again does not renew it.
LifeShare(n) ==
  /\ shares < MaxShares
  /\ n \notin Holding
  /\ life' = Keep(n, Day)
  /\ newest' = Day
  /\ shares' = shares + 1
  /\ UNCHANGED <<uptime, gcDue, repDue, strangers, offers, restarts, handoffs>>

\* StartWorkers passes each worker its own interval.
GCWithRepPeriod(t) == t % RepPeriod = 0   \* mutant: the two are swapped
GCFires(t) == t % GCPeriod = 0
RepFires(t) == t % RepPeriod = 0

\* Time passes when what is due has run and what was sent has arrived or is
\* lost: both take less than a tick.
Tick ==
  /\ gcDue = {} /\ repDue = {} /\ offers = {}
  /\ uptime' = [n \in Replicas |-> (uptime[n] + 1) % RepPeriod]
  /\ gcDue' = {n \in Replicas : GCFires(uptime'[n])}
  /\ repDue' = {n \in Replicas : RepFires(uptime'[n])}
  /\ life' = [n \in Holding |-> life[n] - 1]
  /\ newest' = IF newest = 0 THEN 0 ELSE newest - 1
  /\ UNCHANGED <<strangers, offers, shares, restarts, handoffs>>

\* CleanExpired: ExpiresAt < now.
Expired(ticks) == ticks < 0

Collect(n) ==
  /\ n \in gcDue
  /\ gcDue' = gcDue \ {n}
  /\ life' = IF n \in Holding /\ Expired(life[n])
             THEN Restrict(life, Holding \ {n}) ELSE life
  /\ UNCHANGED <<uptime, repDue, strangers, offers, newest, shares, restarts, handoffs>>

Offer(n, S) ==
  IF n \in Holding THEN [to : S \ {n}, ticks : {life[n]}] ELSE {}

\* replicateData; when both tickers have fired, either worker may be first.
Replicate(n) ==
  /\ n \in repDue
  /\ repDue' = repDue \ {n}
  /\ offers' = offers \cup Offer(n, Replicas)
  /\ UNCHANGED <<life, uptime, gcDue, strangers, newest, shares, restarts, handoffs>>

\* n hears from m for the first time since it started: proactiveReplication,
\* unless the channel of new contacts is full.
MeetAgain(n, m) ==
  /\ m \in strangers[n]
  /\ strangers' = [strangers EXCEPT ![n] = @ \ {m}]
  /\ \/ /\ offers' = offers \cup Offer(n, {m})
        /\ handoffs' = handoffs + 1
     \/ UNCHANGED <<offers, handoffs>>
  /\ UNCHANGED <<life, uptime, gcDue, repDue, newest, shares, restarts>>

RenewedLife(ticks) == Day   \* mutant: a copy lives as if shared on arrival
ReceivedLife(ticks) == ticks

\* handleStore takes an expired copy like any other, and refuses a chunk that
\* is there already.
Receive(offer) ==
  /\ offer \in offers
  /\ offers' = offers \ {offer}
  /\ life' = IF offer.to \in Holding THEN life
             ELSE Keep(offer.to, ReceivedLife(offer.ticks))
  /\ UNCHANGED <<uptime, gcDue, repDue, strangers, newest, shares, restarts, handoffs>>

LoseOffer(offer) ==
  /\ offer \in offers
  /\ offers' = offers \ {offer}
  /\ UNCHANGED <<life, uptime, gcDue, repDue, strangers, newest, shares, restarts, handoffs>>

\* The process of a node ends and is started again within a tick: its copies
\* are on disk, its tickers and its routing table start afresh.
RestartNode(n) ==
  /\ restarts < MaxRestarts
  /\ restarts' = restarts + 1
  /\ uptime' = [uptime EXCEPT ![n] = 0]
  /\ gcDue' = gcDue \ {n} /\ repDue' = repDue \ {n}
  /\ strangers' = [strangers EXCEPT ![n] = Replicas \ {n}]
  /\ UNCHANGED <<life, offers, newest, shares, handoffs>>

LifeNext ==
  \/ Tick
  \/ \E n \in Replicas : LifeShare(n) \/ Collect(n) \/ Replicate(n) \/ RestartNode(n)
  \/ \E n, m \in Replicas : MeetAgain(n, m)
  \/ \E offer \in offers : Receive(offer) \/ LoseOffer(offer)

LifeSpec == LifeInit /\ [][LifeNext]_lifeVars

-----------------------------------------------------------------------------
(* Properties *)

LifeTypeOK ==
  /\ Holding \subseteq Replicas
  /\ \A n \in Holding : life[n] \in Int
  /\ uptime \in [Replicas -> 0..(RepPeriod - 1)]
  /\ gcDue \subseteq Replicas /\ repDue \subseteq Replicas
  /\ strangers \in [Replicas -> SUBSET Replicas]
  /\ offers \subseteq [to : Replicas, ticks : Int]
  /\ newest \in 0..Day
  /\ shares \in 0..MaxShares /\ restarts \in 0..MaxRestarts /\ handoffs \in Nat

\* Collected copies are sent back by the nodes that have not collected yet;
\* still an expired chunk is gone from everywhere after a collector's period
\* per node and one more, and one per handoff and restart, provided all these
\* fit between two replications of a node (workers.go, storage.go:218).
Patience == (1 + Cardinality(Replicas) + handoffs + restarts) * GCPeriod

ExpiredGoSoon ==
  Patience <= RepPeriod => \A n \in Holding : -life[n] <= Patience

\* However often a chunk is sent round, restored where it was collected, or
\* shared again, no copy outlives the signature made last (storage.go:117).
NeverRenewed ==
  \A n \in Holding : life[n] <= newest

-----------------------------------------------------------------------------
(* Claims of the documentation that do not hold (see README.md) *)

\* docs/ARCHITECTURE.md:49: "Periodically scans and removes expired memory
\* chunks": an expired chunk goes, also from a swarm in which the nodes'
\* replications follow one another within the collector's period.
ExpiredGo == \A n \in Holding : -life[n] <= 2 * RepPeriod
===============================================================================

---------------------------------- MODULE Alerts ----------------------------------
(***************************************************************************)
(* From a SUBSCRIBE to the dashboard: PubSub between the nodes, and         *)
(* Telemetry inside one of the brokers, whose read loop handles requests    *)
(* and emits the alerts a PUBLISH calls for, while the topology worker and  *)
(* indexContent emit events of their own and clients come and go.           *)
(***************************************************************************)
EXTENDS PubSub, Telemetry

CONSTANTS
  Found,       \* the lists of brokers that lookups return
  Watched,     \* the broker whose telemetry is modelled
  ReadLoop, Topology, Indexer,   \* the emitters
  NoRound

ASSUME AlertsAssumption ==
  /\ Watched \in Brokers /\ Found \subseteq BrokerLists
  /\ Emitters = {ReadLoop, Topology, Indexer}
  /\ ReadLoop # Topology /\ Topology # Indexer /\ Indexer # ReadLoop
  /\ NoRound \notin Rounds

VARIABLES
  handling,  \* the PUBLISH the read loop of the watched broker handles
  left,      \* the alerts it has still to emit for it
  own,       \* the other emitters that have emitted
  owed       \* history: the publications a client was to hear of

readerVars == <<handling, left, own, owed>>
allVars == <<pubSubVars, telVars, readerVars>>

AlertsInit ==
  /\ PubSubInit /\ TelInit
  /\ handling = NoRound /\ left = 0
  /\ own = {}
  /\ owed = [c \in Clients |-> {}]

\* What goes on outside the watched broker. What the other brokers do with
\* the requests they are sent is not told apart.
Elsewhere ==
  /\ \/ \E r \in Rounds, list \in Found : Subscribe(r, list) \/ Publish(r, list)
     \/ \E r \in Rounds : Ask(r)
     \/ \E n \in Peers : Unsubscribe(n)
  /\ UNCHANGED <<telVars, readerVars>>

\* The read loop takes one packet at a time.
ReaderFree == handling = NoRound

ReadSubscribe(msg) ==
  /\ ReaderFree /\ msg.to = Watched
  /\ HandleSubscribe(msg)
  /\ UNCHANGED <<telVars, readerVars>>

ReadPublish(msg) ==
  /\ ReaderFree /\ msg.to = Watched
  /\ HandlePublish(msg)
  /\ handling' = msg.round
  /\ left' = AlertsDue(Watched)
  /\ owed' = [c \in Clients |->
       IF c \in clients /\ subscribers[Watched] # <<>>
       THEN owed[c] \cup {msg.round} ELSE owed[c]]
  /\ UNCHANGED <<telVars, own>>

Alert(r, i) == [kind |-> "alert", of |-> r, number |-> i]

EmitAlert ==
  /\ ~ReaderFree /\ left > 0
  /\ BeginEmit(ReadLoop, Alert(handling, left))
  /\ left' = left - 1
  /\ UNCHANGED <<pubSubVars, handling, own, owed>>

\* The handler answers, and returns.
PublishHandled ==
  /\ ~ReaderFree /\ left = 0 /\ doing[ReadLoop] = "idle"
  /\ handling' = NoRound
  /\ UNCHANGED <<pubSubVars, telVars, left, own, owed>>

\* emitTopology, and the KeywordSeen of indexContent.
EmitOwn(e) ==
  /\ e \in {Topology, Indexer} \ own
  /\ BeginEmit(e, [kind |-> IF e = Topology THEN "topology" ELSE "keyword",
                   of |-> NoRound, number |-> 0])
  /\ own' = own \cup {e}
  /\ UNCHANGED <<pubSubVars, handling, left, owed>>

TelStep ==
  /\ \/ \E e \in Emitters : EmitStep(e)
     \/ \E c \in Clients : Connect(c) \/ Disconnect(c) \/ Stall(c) \/ ClientStep(c)
  /\ UNCHANGED <<pubSubVars, readerVars>>

RestartWatched ==
  /\ RestartBroker(Watched)
  /\ TelGone
  /\ handling' = NoRound /\ left' = 0
  /\ owed' = [c \in Clients |-> {}]
  /\ UNCHANGED own

AlertsNext ==
  \/ Elsewhere
  \/ \E msg \in wire : ReadSubscribe(msg) \/ ReadPublish(msg)
  \/ EmitAlert \/ PublishHandled
  \/ \E e \in Emitters : EmitOwn(e)
  \/ TelStep
  \/ RestartWatched

\* What the goroutines of the nodes do by themselves. All of it is bounded by
\* what comes from outside, so that it is enough to assume that the nodes do
\* not stop as long as one of their goroutines can run.
Run ==
  \/ (\E r \in Rounds : Ask(r)) /\ UNCHANGED <<telVars, readerVars>>
  \/ EmitAlert \/ PublishHandled
  \/ /\ (\E e \in Emitters : EmitStep(e)) \/ (\E c \in Clients : ClientStep(c))
     /\ UNCHANGED <<pubSubVars, readerVars>>

AlertsSpec == AlertsInit /\ [][AlertsNext]_allVars /\ WF_allVars(Run)

-----------------------------------------------------------------------------
(* Properties *)

Events ==
  [kind : {"alert", "topology", "keyword"}, of : PubRounds \cup {NoRound}, number : Nat]

AlertsTypeOK ==
  /\ PubSubTypeOK /\ TelTypeOK
  /\ event \in [Emitters -> Events \cup {NoEvent}] /\ emitted \in Seq(Events)
  /\ {chan, seen} \subseteq [Clients -> Seq(Events)]
  /\ dropped \in [Clients -> SUBSET Events]
  /\ handling \in PubRounds \cup {NoRound}
  /\ left \in 0..Cardinality(Peers)
  /\ own \subseteq {Topology, Indexer}
  /\ owed \in [Clients -> SUBSET PubRounds]

\* The nodes that subscribe.
Subscribing == {NodeOf[s] : s \in SubRounds}

\* A client's stream is faithful: no emission is broadcast twice, a client sees
\* events in the order of their broadcast, and a publication is announced at
\* most once per subscribing node, however often and through however many
\* requests that node has subscribed.
StreamFaithful ==
  /\ IsInjective(emitted)
  /\ \A c \in Clients : InOrder(c)
  /\ \A r \in PubRounds :
       Cardinality({i \in DOMAIN emitted : emitted[i].kind = "alert" /\ emitted[i].of = r})
         <= Cardinality(Subscribing)

\* commands.go:282-302: when a PUBLISH reaches a broker with a subscriber, a
\* client that is watching the broker hears of it, unless its connection
\* ends or stalls, or its channel has no room at that moment.
Heard(c, r) ==
  \E ev \in ToSet(seen[c]) \cup dropped[c] : ev.kind = "alert" /\ ev.of = r

WatchersHear ==
  \A c \in Clients, r \in PubRounds :
    r \in owed[c] ~> (Heard(c, r) \/ ~connected[c] \/ sse[c] = "stalled")

-----------------------------------------------------------------------------
(* Claims of the documentation that do not hold (see README.md) *)

\* docs/API.md:18: "Subscribes/unsubscribes to a keyword for real-time
\* alerts": nothing is announced for nodes that have all unsubscribed.
SilentWhenUnsubscribed ==
  [][EmitAlert => interests # {}]_allVars

\* docs/ARCHITECTURE.md:62: "Nodes register their interest with the brokers":
\* a node that is interested is listed by the broker that has handled its
\* SUBSCRIBE. A restart of the broker forgets it, and nothing renews it.
InterestRegistered ==
  \A r \in SubRounds :
    /\ Watched \in asked[r] /\ NodeOf[r] \in interests
    /\ [round |-> r, to |-> Watched] \notin wire
    => NodeOf[r] \in ToSet(subscribers[Watched])
===============================================================================

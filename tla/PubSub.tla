--------------------------------- MODULE PubSub ---------------------------------
(***************************************************************************)
(* Subscriptions to one topic (src/internal/dht/subscriptions.go, the       *)
(* handlers of commands.go, Subscribe and the publishing half of            *)
(* indexContent in engine.go). A call of either is a round: a goroutine     *)
(* that looks up the nodes closest to the topic, its brokers, and sends a   *)
(* request to one after the other, whatever became of the one before. A     *)
(* request arrives, perhaps after its second has passed, or it never does.  *)
(***************************************************************************)
EXTENDS Integers, FiniteSets, Sequences, SequencesExt

CONSTANTS
  Brokers,
  SubRounds,   \* calls of Subscribe
  PubRounds,   \* updates of the topic's index
  NodeOf,      \* the node each round is of
  MaxRestarts  \* bound on the restarts of brokers

Rounds == SubRounds \cup PubRounds
Peers == {NodeOf[r] : r \in Rounds}

ASSUME PubSubAssumption ==
  /\ IsFiniteSet(Brokers) /\ IsFiniteSet(Peers)
  /\ SubRounds \cap PubRounds = {}
  /\ MaxRestarts \in Nat

Request == [round : Rounds, to : Brokers]

VARIABLES
  begun,        \* the rounds that have begun
  todo,         \* the brokers a round has still to send to, in order
  wire,         \* the requests sent and not handled; some never will be
  subscribers,  \* subStore of each broker, for the topic
  interests,    \* the nodes whose SubscriptionManager has the topic
  found,        \* history: the brokers its lookup returned
  asked,        \* history: the brokers it has sent to
  restarts

pubSubVars == <<begun, todo, wire, subscribers, interests, found, asked, restarts>>
roundVars == <<begun, todo, found, asked>>

PubSubInit ==
  /\ begun = {}
  /\ todo = [r \in Rounds |-> <<>>]
  /\ wire = {}
  /\ subscribers = [b \in Brokers |-> <<>>]
  /\ interests = {}
  /\ found = [r \in Rounds |-> {}]
  /\ asked = [r \in Rounds |-> {}]
  /\ restarts = 0

\* What LookupNode may return: some of the brokers, in some order; none when
\* the node has no contact, in which case nothing is sent, now or later.
BrokerLists == {l \in SeqOf(Brokers, Cardinality(Brokers)) : IsInjective(l)}

\* The lookup of a round meets nothing that is modelled here.
BeginRound(r, list) ==
  /\ r \notin begun
  /\ begun' = begun \cup {r}
  /\ todo' = [todo EXCEPT ![r] = list]
  /\ found' = [found EXCEPT ![r] = ToSet(list)]
  /\ UNCHANGED <<wire, subscribers, asked, restarts>>

Subscribe(r, list) ==
  /\ r \in SubRounds
  /\ BeginRound(r, list)
  /\ interests' = interests \cup {NodeOf[r]}

\* Unsubscribe tells no broker.
Unsubscribe(n) ==
  /\ n \in interests
  /\ interests' = interests \ {n}
  /\ UNCHANGED <<roundVars, wire, subscribers, restarts>>

\* indexContent has stored the new index.
Publish(r, list) ==
  /\ r \in PubRounds
  /\ BeginRound(r, list)
  /\ UNCHANGED interests

GivesUp(r) == <<>>   \* mutant: an error ends the round
Remaining(r) == Tail(todo[r])

\* A request is sent, and Request returns, with the answer, an error, or after
\* its second: the results are ignored. Whether the broker has handled the
\* request by then, will do so later, or never, is up to the network.
Ask(r) ==
  /\ todo[r] # <<>>
  /\ asked' = [asked EXCEPT ![r] = @ \cup {Head(todo[r])}]
  /\ wire' = wire \cup {[round |-> r, to |-> Head(todo[r])]}
  /\ todo' = [todo EXCEPT ![r] = Remaining(r)]
  /\ UNCHANGED <<begun, found, subscribers, interests, restarts>>

AppendSubscriber(list, n) == Append(list, n)   \* mutant: listed once per SUBSCRIBE

\* AddSubscriber: a node is listed once.
AddSubscriber(list, n) == IF n \in ToSet(list) THEN list ELSE Append(list, n)

HandleSubscribe(msg) ==
  /\ msg \in wire /\ msg.round \in SubRounds
  /\ wire' = wire \ {msg}
  /\ subscribers' =
       [subscribers EXCEPT ![msg.to] = AddSubscriber(@, NodeOf[msg.round])]
  /\ UNCHANGED <<roundVars, interests, restarts>>

AlertsToSelf(b) == 0   \* mutant: only a subscription of the broker itself counts
\* handlePublish emits an alert of its own for each subscriber, whether that
\* is the broker itself or not; nothing is sent to the subscriber.
AlertsDue(b) == Len(subscribers[b])

HandlePublish(msg) ==
  /\ msg \in wire /\ msg.round \in PubRounds
  /\ wire' = wire \ {msg}
  /\ UNCHANGED <<roundVars, subscribers, interests, restarts>>

\* The subscribers are in memory only.
RestartBroker(b) ==
  /\ restarts < MaxRestarts
  /\ restarts' = restarts + 1
  /\ subscribers' = [subscribers EXCEPT ![b] = <<>>]
  /\ UNCHANGED <<roundVars, wire, interests>>

-----------------------------------------------------------------------------
(* Properties *)

PubSubTypeOK ==
  /\ begun \subseteq Rounds
  /\ todo \in [Rounds -> BrokerLists]
  /\ wire \subseteq Request
  /\ subscribers \in [Brokers -> Seq(Peers)]
  /\ interests \subseteq Peers
  /\ found \in [Rounds -> SUBSET Brokers] /\ asked \in [Rounds -> SUBSET Brokers]
  /\ restarts \in 0..MaxRestarts

\* engine.go:130-136, 436-442: a broker that does not answer, or whose
\* request is lost, costs a round a second and nothing else: every broker the
\* lookup found has been asked, or is still to be.
EveryBrokerAsked ==
  \A r \in Rounds : found[r] = asked[r] \cup ToSet(todo[r])
===============================================================================

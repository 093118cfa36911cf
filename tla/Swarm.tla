-------------------------------- MODULE Swarm --------------------------------
(***************************************************************************)
(* The lifecycle of a chunk across the nodes of the swarm: Share writes it  *)
(* on one node (src/internal/dht/engine.go), the replication workers offer  *)
(* it to contacts (workers.go), and handleStore takes it in (commands.go).  *)
(* A node's store is reduced here to the state each identifier is held in;  *)
(* DiskStorage models it in full.  A message is lost, delayed or duplicated *)
(* as UDP datagrams are.  With at most K contacts, every contact is among   *)
(* the K closest to every key.                                              *)
(***************************************************************************)
CONSTANTS
  Nodes,
  Contents,      \* what users share
  Ids,           \* chunk identifiers
  Keywords,      \* those under which an index is stored
  ChunksOf,      \* the chunk of a content, or its segments and its manifest
  KeywordsOf,    \* the keywords a content is indexed under
  ShareStates,   \* the states the users of a node pass to Share
  Indexed,       \* the nodes that hold every index from an earlier session
  Oversized,     \* chunks whose STORE message exceeds the receive buffer
  Expiring,      \* chunks the collector and the evictor may remove
  NoKey

ChunkState == {"modified", "staged", "committed", "index"}

ASSUME SwarmAssumption ==
  /\ Keywords \subseteq Ids
  /\ Indexed \subseteq Nodes
  /\ Oversized \subseteq Ids /\ Expiring \subseteq Ids
  /\ ChunksOf \in [Contents -> SUBSET (Ids \ Keywords)]
  /\ KeywordsOf \in [Contents -> SUBSET Keywords]
  /\ ShareStates \in [Nodes -> SUBSET (ChunkState \ {"index"})]
  /\ NoKey \notin Ids

StoreMessage == [from : Nodes, to : Nodes, key : Ids]

VARIABLES
  held,       \* the state a node holds an identifier in, or "none"
  met,        \* the contacts in a node's routing table
  announced,  \* contacts waiting in newContactChan
  keys,       \* keys[n][w]: what worker w of n has not looked at yet
  cur,        \* cur[n][w]: the key it has let through, or NoKey
  indexing,   \* the keywords indexContent has not dealt with yet
  net,        \* STORE messages on the wire
  released    \* history: the contents shared as committed, anywhere

vars == <<held, met, announced, keys, cur, indexing, net, released>>
table == <<met, announced>>
workers == <<keys, cur>>

\* Worker n of node n is its periodic replicator, worker m the handoff to m.
Init ==
  /\ held = [n \in Nodes |->
       [k \in Ids |-> IF n \in Indexed /\ k \in Keywords THEN "index" ELSE "none"]]
  /\ met = [n \in Nodes |-> {}]
  /\ announced = [n \in Nodes |-> {}]
  /\ keys = [n \in Nodes |-> [w \in Nodes |-> {}]]
  /\ cur = [n \in Nodes |-> [w \in Nodes |-> NoKey]]
  /\ indexing = [n \in Nodes |-> {}]
  /\ net = {}
  /\ released = {}

Holds(n) == {k \in Ids : held[n][k] # "none"}

\* mutant: committed chunks can be overwritten
AlwaysWritten(old, new) == new
\* The state an identifier has after a Store, which refuses a committed one.
Written(old, new) == IF old = "committed" THEN old ELSE new

-----------------------------------------------------------------------------
(* Sharing *)

Large(c) == \E j, k \in ChunksOf[c] : j # k

\* Large content is stored as committed, whatever its user asked for.
SharedAs(c, s) == IF Large(c) THEN "committed" ELSE s

Share(n, c, s) ==
  /\ held' = [held EXCEPT ![n] =
       [k \in Ids |-> IF k \in ChunksOf[c]
                      THEN Written(held[n][k], SharedAs(c, s)) ELSE held[n][k]]]
  /\ IF s = "committed"
     THEN /\ released' = released \cup {c}
          /\ indexing' = [indexing EXCEPT ![n] = @ \cup KeywordsOf[c]]
     ELSE UNCHANGED <<released, indexing>>
  /\ UNCHANGED <<table, workers, net>>

\* indexContent stores the index it updated, unless the one it found, here
\* or (when there is none here) on another node, lists the content already.
Index(n, kw) ==
  /\ kw \in indexing[n]
  /\ indexing' = [indexing EXCEPT ![n] = @ \ {kw}]
  /\ \/ held' = [held EXCEPT ![n][kw] = Written(@, "index")]
     \/ /\ held[n][kw] = "none"
        /\ \E m \in met[n] : held[m][kw] = "index"
        /\ held' = held
  /\ UNCHANGED <<table, workers, net, released>>

-----------------------------------------------------------------------------
(* The routing table, as far as the workers use it *)

\* A message of m reaches n: a new contact is announced to the handoff
\* worker, unless the channel is full.
Hears(n, m) ==
  /\ met' = [met EXCEPT ![n] = @ \cup {m}]
  /\ \/ m \notin met[n]
        /\ announced' = [announced EXCEPT ![n] = @ \cup {m}]
     \/ announced' = announced

Meet(n, m) ==
  /\ m # n /\ m \notin met[n]
  /\ Hears(n, m)
  /\ UNCHANGED <<held, workers, indexing, net, released>>

-----------------------------------------------------------------------------
(* replicateData and proactiveReplication *)

\* The keys are listed once, at the start.
Begin(n, w) ==
  /\ keys[n][w] = {} /\ cur[n][w] = NoKey
  /\ \/ w = n /\ announced' = announced
     \/ w \in announced[n]
        /\ announced' = [announced EXCEPT ![n] = @ \ {w}]
  /\ keys' = [keys EXCEPT ![n][w] = Holds(n)]
  /\ UNCHANGED <<held, met, cur, indexing, net, released>>

AnyState(n, k) == TRUE   \* mutant: work in progress is let through

\* A key that is not committed is skipped; one that is gone is not.
LetThrough(n, k) == held[n][k] \in {"committed", "none"}

Check(n, w, k) ==
  /\ cur[n][w] = NoKey
  /\ k \in keys[n][w]
  /\ keys' = [keys EXCEPT ![n][w] = @ \ {k}]
  /\ cur' = [cur EXCEPT ![n][w] = IF LetThrough(n, k) THEN k ELSE NoKey]
  /\ UNCHANGED <<held, table, indexing, net, released>>

Targets(n, w) == IF w = n THEN met[n] ELSE met[n] \cap {w}

\* Retrieve takes the lock again: it finds what is there by now.
Send(n, w) ==
  /\ cur[n][w] # NoKey
  /\ cur' = [cur EXCEPT ![n][w] = NoKey]
  /\ net' = IF held[n][cur[n][w]] = "none" THEN net
            ELSE net \cup [from : {n}, to : Targets(n, w), key : {cur[n][w]}]
  /\ UNCHANGED <<held, table, keys, indexing, released>>

-----------------------------------------------------------------------------
(* handleStore *)

\* mutant: the state is left to Store's default
ReceivedByDefault(k) == "modified"
ReceivedUnset(k) == ""   \* mutant: no state is passed on
Received(k) == IF k \in Keywords THEN "index" ELSE "committed"

\* A message that does not fit the buffer cannot be parsed and is dropped.
Readable(msg) == msg.key \notin Oversized

Deliver(msg) ==
  /\ msg \in net
  /\ Readable(msg)
  /\ \/ net' = net \ {msg}
     \/ net' = net
  /\ Hears(msg.to, msg.from)
  /\ held' = [held EXCEPT ![msg.to][msg.key] = Written(@, Received(msg.key))]
  /\ UNCHANGED <<workers, indexing, released>>

Lose(msg) ==
  /\ msg \in net
  /\ net' = net \ {msg}
  /\ UNCHANGED <<held, table, workers, indexing, released>>

-----------------------------------------------------------------------------
(* Removal: the collector and the evictor *)

Expire(n, k) ==
  /\ k \in Expiring
  /\ held[n][k] # "none"
  /\ held' = [held EXCEPT ![n][k] = "none"]
  /\ UNCHANGED <<table, workers, indexing, net, released>>

Next ==
  \/ \E n \in Nodes, c \in Contents : \E s \in ShareStates[n] : Share(n, c, s)
  \/ \E n \in Nodes, kw \in Keywords : Index(n, kw)
  \/ \E n, m \in Nodes : Meet(n, m)
  \/ \E n, w \in Nodes : Begin(n, w)
  \/ \E n, w \in Nodes, k \in Ids : Check(n, w, k)
  \/ \E n, w \in Nodes : Send(n, w)
  \/ \E msg \in net : Deliver(msg)
  \/ \E msg \in net : Lose(msg)
  \/ \E n \in Nodes, k \in Ids : Expire(n, k)

Spec == Init /\ [][Next]_vars

\* The replicator's ticker fires again and again and its loop goes on; a
\* message sent again and again arrives sooner or later.
Fairness ==
  /\ \A n \in Nodes :
       /\ WF_vars(Begin(n, n))
       /\ WF_vars(\E k \in Ids : Check(n, n, k))
       /\ WF_vars(Send(n, n))
       /\ \A kw \in Keywords : WF_vars(Index(n, kw))
  /\ \A msg \in StoreMessage :
       msg.from # msg.to /\ Readable(msg) => SF_vars(Deliver(msg))

FairSpec == Spec /\ Fairness

-----------------------------------------------------------------------------
(* Properties *)

\* Every variable has its type, and every worker its own keys.
TypeOK ==
  /\ held \in [Nodes -> [Ids -> ChunkState \cup {"none"}]]
  /\ met \in [Nodes -> SUBSET Nodes]
  /\ announced \in [Nodes -> SUBSET Nodes]
  /\ keys \in [Nodes -> [Nodes -> SUBSET Ids]]
  /\ cur \in [Nodes -> [Nodes -> Ids \cup {NoKey}]]
  /\ indexing \in [Nodes -> SUBSET Keywords]
  /\ net \subseteq StoreMessage
  /\ released \subseteq Contents

\* The chunks of contents nobody ever shared as committed.
Unreleased ==
  {k \in Ids \ Keywords : \A c \in released : k \notin ChunksOf[c]}

\* Those of small contents that nothing removes under a worker: what the code
\* does to the others is said at the end of the module.
Private ==
  {k \in Unreleased \ Expiring : \A c \in Contents : k \in ChunksOf[c] => ~Large(c)}

\* Work in progress stays on the node it was shared on: as long as nobody
\* has shared a content as committed, no node holds a chunk of it as
\* committed, which is how handleStore would record it, and no STORE message
\* carries one (CHANGELOG.md:27).
WIPStaysLocal ==
  \A k \in Private :
    /\ \A n \in Nodes : held[n][k] # "committed"
    /\ \A msg \in net : msg.key # k

\* The workers' part: none is about to send such a chunk, nor will it find a
\* key gone that it listed and has yet to look at, which it would let through.
WorkersSkipWIP ==
  \A n, w \in Nodes :
    /\ cur[n][w] \notin Private
    /\ keys[n][w] \ Expiring \subseteq Holds(n)

SwarmInv == TypeOK /\ WIPStaysLocal /\ WorkersSkipWIP

\* Immutability across the swarm: on no node does a committed chunk, once
\* there, take another state; it can only be removed.
StaysCommitted ==
  [][\A n \in Nodes, k \in Ids :
       held[n][k] = "committed" => held'[n][k] \in {"committed", "none"}]_vars

\* Replication: what a node holds as committed, every contact of it comes to
\* hold as committed, whatever it held under that key before, in spite of
\* lost and duplicated messages, if the message fits the contact's buffer and
\* the chunk does not expire first.
CommittedSpreads ==
  \A n \in Nodes : \A m \in Nodes \ {n}, k \in Ids \ (Oversized \cup Expiring) :
    held[n][k] = "committed" /\ m \in met[n] ~> held[m][k] = "committed"

-----------------------------------------------------------------------------
(* Claims of the documentation that do not hold (see README.md) *)

\* The same of every chunk, whatever the size of its STORE message.
AllCommittedSpreads ==
  \A n \in Nodes : \A m \in Nodes \ {n}, k \in Ids \ Expiring :
    held[n][k] = "committed" /\ m \in met[n] ~> held[m][k] = "committed"

\* storage.go:33: an index is "broadcastable": it reaches the contacts.
IndexSpreads ==
  \A n \in Nodes : \A m \in Nodes \ {n}, k \in Ids \ Expiring :
    held[n][k] = "index" /\ m \in met[n] ~> held[m][k] = "index"

\* CHANGELOG.md:27: the workers skip what is not committed, which prevents
\* work in progress from propagating: none of it is ever sent, be it of a
\* large content or removed and shared again while a worker looks at it.
WIPNotSent == \A msg \in net : msg.key \notin Unreleased
=============================================================================

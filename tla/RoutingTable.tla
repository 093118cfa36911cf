----------------------------- MODULE RoutingTable -----------------------------
(***************************************************************************)
(* The k-buckets of a node (src/internal/dht/routing.go) and what the router *)
(* makes of a contact it had not known: it announces it on a channel to the  *)
(* worker that hands chunks over.  Messages are handled by two goroutines,   *)
(* the read loop and the multicast listener, while lookups add the contacts  *)
(* they hear of.  rt.mu makes AddContact one step; the announcement is a     *)
(* step of its own.                                                         *)
(*                                                                          *)
(* The order within a bucket is written (most recently seen last) but never  *)
(* read, so a bucket is a function from the identifiers it holds to their    *)
(* addresses.                                                               *)
(***************************************************************************)
EXTENDS NodeID, Sequences

CONSTANTS
  localID,
  Peers,     \* the identifiers that occur in messages
  Addrs,     \* addresses
  K,         \* the size of a bucket (20)
  ChanSize,  \* the capacity of newContactChan (64)
  Handlers,  \* the goroutines that run HandleMessage
  NoContact

Contact == [id : Peers, addr : Addrs]

ASSUME RoutingAssumption ==
  /\ localID \in NodeID /\ Peers \subseteq NodeID
  /\ K \in Nat \ {0} /\ ChanSize \in Nat \ {0}
  /\ NoContact \notin Contact

VARIABLES
  buckets,         \* rt.buckets
  handler,         \* the new contact each handler is about to announce
  newContactChan,
  handed,          \* the contacts the handoff worker has started on
  dropped,         \* history: announcements dropped at a full channel
  heard            \* history: the identifiers heard of

vars == <<buckets, handler, newContactChan, handed, dropped, heard>>

Buckets == UNION {[S -> Addrs] : S \in SUBSET Peers}

Init ==
  /\ buckets = [i \in Positions |-> <<>>]
  /\ handler = [h \in Handlers |-> NoContact]
  /\ newContactChan = <<>>
  /\ handed = {} /\ dropped = {} /\ heard = {}

In(id, i) == id \in DOMAIN buckets[i]

BucketOf(id) == getBucketIndex(localID, id)
Known == {id \in Peers : \E i \in Positions : In(id, i)}

\* mutant: the arguments are swapped
WithSwapped(bucket, id, addr) ==
  [x \in DOMAIN bucket \cup {addr} |-> IF x = addr THEN id ELSE bucket[x]]

With(bucket, id, addr) ==
  [x \in DOMAIN bucket \cup {id} |-> IF x = id THEN addr ELSE bucket[x]]

\* mutant: one contact too many
HasRoomForOneMore(bucket) == Cardinality(DOMAIN bucket) <= K
HasRoom(bucket) == Cardinality(DOMAIN bucket) < K

\* mutant: a contact seen again counts as new
IsNewOrSeen(id) == id # localID /\ HasRoom(buckets[BucketOf(id)])

\* What AddContact returns.
IsNew(id) ==
  id # localID /\ ~In(id, BucketOf(id)) /\ HasRoom(buckets[BucketOf(id)])

\* A contact already there gets its new address, a new one is added if there
\* is room; a full bucket keeps what it has.
AddContact(id, addr) ==
  /\ heard' = heard \cup {id}
  /\ IF id # localID /\ (In(id, BucketOf(id)) \/ IsNew(id))
     THEN buckets' = [buckets EXCEPT ![BucketOf(id)] = With(@, id, addr)]
     ELSE UNCHANGED buckets

\* HandleMessage, up to what it does with the message itself.  A message of
\* another protocol version is dropped before this.
HandleMessage(h, id, addr) ==
  /\ handler[h] = NoContact
  /\ AddContact(id, addr)
  /\ handler' = [handler EXCEPT ![h] =
                   IF IsNew(id) THEN [id |-> id, addr |-> addr] ELSE NoContact]
  /\ UNCHANGED <<newContactChan, handed, dropped>>

\* The select with a default: a full channel drops the announcement.
Announce(h) ==
  /\ handler[h] # NoContact
  /\ IF Len(newContactChan) < ChanSize
     THEN /\ newContactChan' = Append(newContactChan, handler[h])
          /\ UNCHANGED dropped
     ELSE /\ dropped' = dropped \cup {handler[h]}
          /\ UNCHANGED newContactChan
  /\ handler' = [handler EXCEPT ![h] = NoContact]
  /\ UNCHANGED <<buckets, handed, heard>>

\* A lookup adds the contacts of an answer and ignores what AddContact returns.
LearnContact(id, addr) ==
  /\ AddContact(id, addr)
  /\ UNCHANGED <<handler, newContactChan, handed, dropped>>

\* handoffWorker starts proactiveReplication for the contact.
Handoff ==
  /\ newContactChan # <<>>
  /\ handed' = handed \cup {Head(newContactChan)}
  /\ newContactChan' = Tail(newContactChan)
  /\ UNCHANGED <<buckets, handler, dropped, heard>>

Next ==
  \/ \E id \in Peers, addr \in Addrs :
       LearnContact(id, addr) \/ \E h \in Handlers : HandleMessage(h, id, addr)
  \/ \E h \in Handlers : Announce(h)
  \/ Handoff

Spec == Init /\ [][Next]_vars

\* The handlers run on, and the handoff worker drains its channel.
Fairness == (\A h \in Handlers : WF_vars(Announce(h))) /\ WF_vars(Handoff)
FairSpec == Spec /\ Fairness

-----------------------------------------------------------------------------
(* FindClosestContacts: the count known contacts closest to the target.     *)

Closer(target, id) == {c \in Known : Less(XOR(target, c), XOR(target, id))}
FindClosestContacts(target, count) ==
  {id \in Known : Cardinality(Closer(target, id)) < count}

-----------------------------------------------------------------------------
(* Properties *)

\* Every variable has its type.
TypeOK ==
  /\ buckets \in [Positions -> Buckets]
  /\ handler \in [Handlers -> Contact \cup {NoContact}]
  /\ newContactChan \in Seq(Contact) /\ Len(newContactChan) <= ChanSize
  /\ handed \subseteq Contact /\ dropped \subseteq Contact
  /\ heard \subseteq Peers

\* A node heard of is missing from the table only if its bucket is full (or
\* it is the node itself), and no bucket holds more than K: dropping a
\* newcomer is never premature.
OnlyFullBucketsRefuse ==
  /\ \A i \in Positions : Cardinality(DOMAIN buckets[i]) <= K
  /\ \A id \in heard \ {localID} :
       In(id, BucketOf(id)) \/ Cardinality(DOMAIN buckets[BucketOf(id)]) = K

\* A contact sits in the bucket of its distance from the local node, and so
\* in no other: the table never lists a node twice.
InItsBucket ==
  \A i \in Positions : \A id \in DOMAIN buckets[i] :
    id # localID /\ getBucketIndex(localID, id) = i

RoutingInv == TypeOK /\ OnlyFullBucketsRefuse /\ InItsBucket

\* The places where a node's announcement is: with a handler, in the channel,
\* dropped or handed over.
Announcing(id) == {h \in Handlers : handler[h] # NoContact /\ handler[h].id = id}
Queued(id) == {i \in DOMAIN newContactChan : newContactChan[i].id = id}
Ended(id) == {c \in handed \cup dropped : c.id = id}

Announcements(id) ==
  Cardinality(Announcing(id)) + Cardinality(Queued(id)) + Cardinality(Ended(id))

\* A node is announced to the handoff worker at most once, even when its
\* first packet and its beacon are handled at the same time, and only once
\* the table holds it, on which proactiveReplication relies.
AnnouncedOnce ==
  \A id \in Peers :
    Announcements(id) <= 1 /\ (Announcements(id) = 1 => id \in Known)

\* What it needs to be inductive: no two places, and who was announced stays
\* known, so that AddContact never calls it new again.
AtMostOne(S) == \A x, y \in S : x = y
OnePlace(id) ==
  /\ AtMostOne(Announcing(id)) /\ AtMostOne(Queued(id)) /\ AtMostOne(Ended(id))
  /\ Announcing(id) = {} \/ Queued(id) = {}
  /\ Announcing(id) \cup Queued(id) # {} => Ended(id) = {}
  /\ Announcing(id) \cup Queued(id) \cup Ended(id) # {} => id \in Known

AnnouncedInv == RoutingInv /\ \A id \in Peers : OnePlace(id)

\* A claim that does not hold (see README.md).
\* docs/ARCHITECTURE.md:21: "When a new node joins, its neighbors proactively
\* transfer relevant chunks to it": a node that enters the table is handed over.
NewNodesHandedOver ==
  \A id \in Peers : (id \in Known) ~> (\E c \in handed \cup dropped : c.id = id)
=============================================================================

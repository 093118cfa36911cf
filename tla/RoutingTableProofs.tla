-------------------------- MODULE RoutingTableProofs --------------------------
(***************************************************************************)
(* Identifiers and the table built on their distances: the metric that      *)
(* buckets, lookups and the placement of chunks rest on, the buckets, sound *)
(* for every identifier length, K and set of peers, their refresh, and the  *)
(* nodes that join through one seed.                                        *)
(***************************************************************************)
EXTENDS RoutingLayer, WellFoundedInduction, FiniteSetTheorems, SequenceTheorems, TLAPS

-----------------------------------------------------------------------------
(* Identifiers (NodeID) *)

\* A non-empty distance has a highest one bit.
LEMMA HighestBit ==
  ASSUME NEW S \in SUBSET Positions, S # {}
  PROVE  \E p \in S : \A q \in S : q <= p
<1> DEFINE Mirror == {Bits - 1 - p : p \in S}
<1>1. Mirror \subseteq Nat /\ Mirror # {}
  <2>1. \A p \in S : Bits - 1 - p \in Nat
    BY BitsAssumption DEF Positions
  <2>2. PICK p \in S : TRUE
    OBVIOUS
  <2>3. Bits - 1 - p \in Mirror
    BY <2>2
  <2> QED
    BY <2>1, <2>3
<1> HIDE DEF Mirror
<1>2. PICK m \in Mirror : \A n \in Mirror : <<n, m>> \notin OpToRel(<, Nat)
  BY <1>1, NatLessThanWellFounded, WFMin
<1>3. \A n \in Mirror : ~(n < m)
  BY <1>1, <1>2 DEF OpToRel
<1>4. PICK p \in S : m = Bits - 1 - p
  BY DEF Mirror
<1>5. ASSUME NEW q \in S PROVE q <= p
  <2>1. Bits - 1 - q \in Mirror
    BY DEF Mirror
  <2>2. p \in Int /\ q \in Int /\ Bits \in Int
    BY BitsAssumption DEF Positions
  <2> QED
    BY <1>3, <1>4, <2>1, <2>2
<1> QED
  BY <1>5

\* getBucketIndex returns the highest position where two identifiers differ,
\* and -1 for equal ones.
LEMMA BucketIndex ==
  ASSUME NEW n \in NodeID, NEW o \in NodeID
  PROVE  /\ n = o => getBucketIndex(n, o) = -1
         /\ n # o => /\ getBucketIndex(n, o) \in XOR(n, o)
                     /\ getBucketIndex(n, o) \in Positions
                     /\ \A q \in XOR(n, o) : q <= getBucketIndex(n, o)
<1>1. CASE n = o
  BY <1>1 DEF getBucketIndex, XOR
<1>2. CASE n # o
  <2>1. XOR(n, o) # {} /\ XOR(n, o) \in SUBSET Positions
    BY <1>2 DEF XOR, NodeID
  <2>2. \E p \in XOR(n, o) : \A q \in XOR(n, o) : q <= p
    BY <2>1, HighestBit
  <2> QED
    BY <1>2, <2>1, <2>2 DEF getBucketIndex
<1> QED
  BY <1>1, <1>2

\* node.go:18: the XOR of two identifiers determines one from the other: no
\* two nodes are at the same distance from a target.
THEOREM XorInjective ==
  ASSUME NEW t \in NodeID, NEW a \in NodeID, NEW b \in NodeID,
         XOR(t, a) = XOR(t, b)
  PROVE  a = b
BY DEF XOR, NodeID

\* The comparison is a strict total order, which sorting by it needs.
THEOREM LessIsTotalOrder ==
  ASSUME NEW a \in NodeID, NEW b \in NodeID, NEW c \in NodeID
  PROVE  /\ ~Less(a, a)
         /\ a # b => Less(a, b) \/ Less(b, a)
         /\ ~(Less(a, b) /\ Less(b, a))
         /\ Less(a, b) /\ Less(b, c) => Less(a, c)
<1>1. ~Less(a, a)
  BY DEF Less
<1>2. a # b => Less(a, b) \/ Less(b, a)
  <2> SUFFICES ASSUME a # b PROVE Less(a, b) \/ Less(b, a)
    OBVIOUS
  <2>1. PICK p \in XOR(a, b) : \A q \in XOR(a, b) : q <= p
    BY HighestBit DEF XOR, NodeID
  <2>2. XOR(a, b) = XOR(b, a)
    BY DEF XOR
  <2> QED
    BY <2>1, <2>2 DEF Less, XOR
<1>3. ~(Less(a, b) /\ Less(b, a))
  <2> SUFFICES ASSUME Less(a, b), Less(b, a) PROVE FALSE
    OBVIOUS
  <2>1. PICK p \in b \ a : \A q \in XOR(a, b) : q <= p
    BY DEF Less
  <2>2. PICK r \in a \ b : \A q \in XOR(b, a) : q <= r
    BY DEF Less
  <2>3. p <= r /\ r <= p
    BY <2>1, <2>2 DEF XOR
  <2>4. p \in Int /\ r \in Int
    BY <2>1, <2>2 DEF NodeID, Positions
  <2> QED
    BY <2>1, <2>2, <2>3, <2>4
<1>4. Less(a, b) /\ Less(b, c) => Less(a, c)
  <2> SUFFICES ASSUME Less(a, b), Less(b, c) PROVE Less(a, c)
    OBVIOUS
  <2>1. PICK p \in b \ a : \A q \in XOR(a, b) : q <= p
    BY DEF Less
  <2>2. PICK r \in c \ b : \A q \in XOR(b, c) : q <= r
    BY DEF Less
  <2>3. \A q \in a \cup b \cup c : q \in Int
    BY DEF NodeID, Positions
  <2>4. CASE p < r
    <3>1. r \notin XOR(a, b)
      BY <2>1, <2>2, <2>3, <2>4 DEF XOR
    <3>2. r \in c \ a
      BY <2>2, <3>1 DEF XOR
    <3>3. ASSUME NEW q \in XOR(a, c) PROVE q <= r
      <4>1. q \in XOR(a, b) \/ q \in XOR(b, c)
        BY DEF XOR
      <4>2. q \in Int /\ p \in Int /\ r \in Int
        BY <2>1, <2>2, <2>3 DEF XOR
      <4> QED
        BY <2>1, <2>2, <2>4, <4>1, <4>2
    <3> QED
      BY <3>2, <3>3 DEF Less
  <2>5. CASE r < p
    <3>1. p \notin XOR(b, c)
      BY <2>1, <2>2, <2>3, <2>5 DEF XOR
    <3>2. p \in c \ a
      BY <2>1, <3>1 DEF XOR
    <3>3. ASSUME NEW q \in XOR(a, c) PROVE q <= p
      <4>1. q \in XOR(a, b) \/ q \in XOR(b, c)
        BY DEF XOR
      <4>2. q \in Int /\ p \in Int /\ r \in Int
        BY <2>1, <2>2, <2>3 DEF XOR
      <4> QED
        BY <2>1, <2>2, <2>5, <4>1, <4>2
    <3> QED
      BY <3>2, <3>3 DEF Less
  <2>6. p # r
    BY <2>1, <2>2
  <2> QED
    BY <2>1, <2>2, <2>3, <2>4, <2>5, <2>6
<1> QED
  BY <1>1, <1>2, <1>3, <1>4

\* What a bucket means: two nodes in one bucket are closer to each other than
\* the local node is to either of them.
THEOREM BucketsAreNeighbourhoods ==
  ASSUME NEW l \in NodeID, NEW a \in NodeID \ {l}, NEW b \in NodeID \ {l},
         getBucketIndex(l, a) = getBucketIndex(l, b)
  PROVE  Less(XOR(a, b), XOR(l, a))
<1> DEFINE i == getBucketIndex(l, a)
<1>1. i \in XOR(l, a) /\ \A q \in XOR(l, a) : q <= i
  BY BucketIndex
<1>2. i \in XOR(l, b) /\ \A q \in XOR(l, b) : q <= i
  BY BucketIndex
<1> HIDE DEF i
<1>3. i \in XOR(l, a) \ XOR(a, b)
  BY <1>1, <1>2 DEF XOR
<1>4. ASSUME NEW q \in XOR(XOR(a, b), XOR(l, a)) PROVE q <= i
  <2>1. q \in XOR(l, b)
    BY DEF XOR
  <2> QED
    BY <1>2, <2>1
<1> QED
  BY <1>3, <1>4 DEF Less

-----------------------------------------------------------------------------
(* The table *)

\* The bucket of any other node is one of the table's.
LEMMA BucketExists ==
  ASSUME NEW id \in Peers, id # localID
  PROVE  BucketOf(id) \in Positions
BY BucketIndex, RoutingAssumption DEF BucketOf

\* Adding to a bucket keeps what it holds.
LEMMA WithType ==
  ASSUME NEW b \in Buckets, NEW id \in Peers, NEW addr \in Addrs
  PROVE  /\ With(b, id, addr) \in Buckets
         /\ DOMAIN With(b, id, addr) = DOMAIN b \cup {id}
         /\ DOMAIN b \in SUBSET Peers
<1>1. PICK S \in SUBSET Peers : b \in [S -> Addrs]
  BY DEF Buckets
<1>2. DOMAIN b = S
  BY <1>1
<1>3. DOMAIN With(b, id, addr) = S \cup {id}
  BY <1>2 DEF With
<1>4. With(b, id, addr) \in [S \cup {id} -> Addrs]
  BY <1>1, <1>2 DEF With
<1>5. S \cup {id} \in SUBSET Peers
  OBVIOUS
<1> QED
  BY <1>2, <1>3, <1>4, <1>5 DEF Buckets

LEMMA PeersFinite == IsFiniteSet(Peers)
<1>1. IsFiniteSet(Positions)
  BY BitsAssumption, FS_Interval DEF Positions
<1>2. IsFiniteSet(NodeID)
  BY <1>1, FS_SUBSET DEF NodeID
<1> QED
  BY <1>2, RoutingAssumption, FS_Subset

\* AddContact keeps the table sound, whoever calls it.
LEMMA AddContactSound ==
  ASSUME TypeOK, OnlyFullBucketsRefuse, InItsBucket,
         NEW id \in Peers, NEW addr \in Addrs, AddContact(id, addr)
  PROVE  /\ buckets' \in [Positions -> Buckets]
         /\ heard' \subseteq Peers
         /\ OnlyFullBucketsRefuse' /\ InItsBucket'
<1> DEFINE B == BucketOf(id)
<1>1. heard' = heard \cup {id}
  BY DEF AddContact
<1>2. CASE id # localID /\ (In(id, B) \/ IsNew(id))
  <2>1. B \in Positions
    BY <1>2, BucketExists
  <2>2. buckets' = [buckets EXCEPT ![B] = With(buckets[B], id, addr)]
    BY <1>2 DEF AddContact
  <2>3. buckets[B] \in Buckets
    BY <2>1 DEF TypeOK
  <2>4. /\ With(buckets[B], id, addr) \in Buckets
        /\ DOMAIN With(buckets[B], id, addr) = DOMAIN buckets[B] \cup {id}
        /\ DOMAIN buckets[B] \in SUBSET Peers
    BY <2>3, WithType
  <2>5. buckets' \in [Positions -> Buckets]
    BY <2>2, <2>4 DEF TypeOK
  <2>6. /\ DOMAIN buckets'[B] = DOMAIN buckets[B] \cup {id}
        /\ \A i \in Positions \ {B} : buckets'[i] = buckets[i]
    BY <2>1, <2>2, <2>4 DEF TypeOK
  <2>7. IsFiniteSet(DOMAIN buckets[B])
    BY <2>4, PeersFinite, FS_Subset
  <2>8. Cardinality(DOMAIN buckets'[B]) <= K
    <3>1. CASE In(id, B)
      <4>1. DOMAIN buckets'[B] = DOMAIN buckets[B]
        BY <2>6, <3>1 DEF In
      <4> QED
        BY <2>1, <4>1 DEF OnlyFullBucketsRefuse
    <3>2. CASE IsNew(id)
      <4>1. /\ id \notin DOMAIN buckets[B]
            /\ Cardinality(DOMAIN buckets[B]) < K
        BY <3>2 DEF IsNew, In, HasRoom
      <4>2. Cardinality(DOMAIN buckets[B] \cup {id})
              = Cardinality(DOMAIN buckets[B]) + 1
        BY <2>7, <4>1, FS_AddElement
      <4>3. Cardinality(DOMAIN buckets[B]) \in Nat
        BY <2>7, FS_CardinalityType
      <4> QED
        BY <2>6, <4>1, <4>2, <4>3, RoutingAssumption
    <3> QED
      BY <1>2, <3>1, <3>2
  <2>9. \A i \in Positions : Cardinality(DOMAIN buckets'[i]) <= K
    BY <2>6, <2>8 DEF OnlyFullBucketsRefuse
  <2>10. ASSUME NEW x \in heard' \ {localID}
         PROVE  \/ x \in DOMAIN buckets'[BucketOf(x)]
                \/ Cardinality(DOMAIN buckets'[BucketOf(x)]) = K
    <3>1. BucketOf(x) \in Positions
      BY <1>1, BucketExists DEF TypeOK
    <3>2. CASE x = id
      BY <2>6, <3>2
    <3>3. CASE x # id /\ BucketOf(x) # B
      BY <1>1, <2>6, <3>1, <3>3 DEF OnlyFullBucketsRefuse, In
    <3>4. CASE x # id /\ BucketOf(x) = B
      <4>1. \/ x \in DOMAIN buckets[B]
            \/ Cardinality(DOMAIN buckets[B]) = K
        BY <1>1, <3>4 DEF OnlyFullBucketsRefuse, In
      <4>2. CASE x \in DOMAIN buckets[B]
        BY <2>6, <3>4, <4>2
      <4>3. CASE Cardinality(DOMAIN buckets[B]) = K
        <5>1. In(id, B)
          BY <1>2, <4>3, RoutingAssumption DEF IsNew, HasRoom
        <5>2. DOMAIN buckets'[B] = DOMAIN buckets[B]
          BY <2>6, <5>1 DEF In
        <5> QED
          BY <3>4, <4>3, <5>2
      <4> QED
        BY <4>1, <4>2, <4>3
    <3> QED
      BY <3>2, <3>3, <3>4
  <2>11. OnlyFullBucketsRefuse'
    BY <2>9, <2>10 DEF OnlyFullBucketsRefuse, In, BucketOf
  <2>12. InItsBucket'
    <3> SUFFICES ASSUME NEW i \in Positions, NEW x \in DOMAIN buckets'[i]
                 PROVE  x # localID /\ getBucketIndex(localID, x) = i
      BY DEF InItsBucket
    <3>1. CASE x \in DOMAIN buckets[i]
      BY <3>1 DEF InItsBucket
    <3>2. CASE x \notin DOMAIN buckets[i]
      <4>1. i = B /\ x = id
        BY <2>6, <3>2
      <4> QED
        BY <1>2, <4>1 DEF BucketOf
    <3> QED
      BY <3>1, <3>2
  <2> QED
    BY <1>1, <2>5, <2>11, <2>12 DEF TypeOK
<1>3. CASE ~(id # localID /\ (In(id, B) \/ IsNew(id)))
  <2>1. buckets' = buckets
    BY <1>3 DEF AddContact
  <2>2. ASSUME id # localID
        PROVE  ~In(id, B) /\ Cardinality(DOMAIN buckets[B]) = K
    <3>1. B \in Positions
      BY <2>2, BucketExists
    <3>2. ~In(id, B) /\ ~(Cardinality(DOMAIN buckets[B]) < K)
      BY <1>3, <2>2 DEF IsNew, HasRoom
    <3>3. Cardinality(DOMAIN buckets[B]) <= K
      BY <3>1 DEF OnlyFullBucketsRefuse
    <3>4. buckets[B] \in Buckets
      BY <3>1 DEF TypeOK
    <3>5. DOMAIN buckets[B] \in SUBSET Peers
      BY <3>4, WithType
    <3>6. Cardinality(DOMAIN buckets[B]) \in Nat
      BY <3>5, PeersFinite, FS_Subset, FS_CardinalityType
    <3> QED
      BY <3>2, <3>3, <3>6, RoutingAssumption
  <2>3. OnlyFullBucketsRefuse'
    BY <1>1, <2>1, <2>2 DEF OnlyFullBucketsRefuse, In, BucketOf
  <2>4. InItsBucket'
    BY <2>1 DEF InItsBucket
  <2> QED
    BY <1>1, <2>1, <2>3, <2>4 DEF TypeOK
<1> QED
  BY <1>2, <1>3

\* Taking the first contact out of the channel, or putting one in.
LEMMA ChannelType ==
  ASSUME NEW c \in Contact, NEW s \in Seq(Contact), Len(s) <= ChanSize
  PROVE  /\ Len(s) < ChanSize =>
              Append(s, c) \in Seq(Contact) /\ Len(Append(s, c)) <= ChanSize
         /\ s # <<>> =>
              /\ Head(s) \in Contact
              /\ Tail(s) \in Seq(Contact) /\ Len(Tail(s)) <= ChanSize
<1>1. Len(s) \in Nat /\ ChanSize \in Nat
  BY RoutingAssumption
<1>2. Len(s) < ChanSize =>
        Append(s, c) \in Seq(Contact) /\ Len(Append(s, c)) <= ChanSize
  BY <1>1
<1>3. s # <<>> =>
        /\ Head(s) \in Contact
        /\ Tail(s) \in Seq(Contact) /\ Len(Tail(s)) <= ChanSize
  BY <1>1
<1> QED
  BY <1>2, <1>3

LEMMA InitRouting == Init => RoutingInv
<1> SUFFICES ASSUME Init PROVE RoutingInv
  OBVIOUS
<1>1. <<>> \in [{} -> Addrs]
  OBVIOUS
<1>2. <<>> \in Buckets
  BY <1>1 DEF Buckets
<1>3. DOMAIN <<>> = {} /\ Cardinality({}) = 0
  BY FS_EmptySet
<1>4. TypeOK
  BY <1>2, RoutingAssumption DEF Init, TypeOK
<1>5. OnlyFullBucketsRefuse
  BY <1>3, RoutingAssumption DEF Init, OnlyFullBucketsRefuse
<1>6. InItsBucket
  BY <1>3 DEF Init, InItsBucket
<1> QED
  BY <1>4, <1>5, <1>6 DEF RoutingInv

LEMMA NextRouting == RoutingInv /\ [Next]_vars => RoutingInv'
<1> SUFFICES ASSUME RoutingInv, [Next]_vars PROVE RoutingInv'
  OBVIOUS
<1>0. TypeOK /\ OnlyFullBucketsRefuse /\ InItsBucket
  BY DEF RoutingInv
<1>1. ASSUME NEW id \in Peers, NEW addr \in Addrs, LearnContact(id, addr)
      PROVE  RoutingInv'
  <2>1. /\ buckets' \in [Positions -> Buckets] /\ heard' \subseteq Peers
        /\ OnlyFullBucketsRefuse' /\ InItsBucket'
    BY <1>0, <1>1, AddContactSound DEF LearnContact
  <2>2. TypeOK'
    BY <1>0, <1>1, <2>1 DEF LearnContact, TypeOK
  <2> QED
    BY <2>1, <2>2 DEF RoutingInv
<1>2. ASSUME NEW id \in Peers, NEW addr \in Addrs, NEW h \in Handlers,
             HandleMessage(h, id, addr)
      PROVE  RoutingInv'
  <2>1. /\ buckets' \in [Positions -> Buckets] /\ heard' \subseteq Peers
        /\ OnlyFullBucketsRefuse' /\ InItsBucket'
    BY <1>0, <1>2, AddContactSound DEF HandleMessage
  <2>2. [id |-> id, addr |-> addr] \in Contact
    BY DEF Contact
  <2>3. handler' \in [Handlers -> Contact \cup {NoContact}]
    BY <1>0, <1>2, <2>2 DEF HandleMessage, TypeOK
  <2>4. TypeOK'
    BY <1>0, <1>2, <2>1, <2>3 DEF HandleMessage, TypeOK
  <2> QED
    BY <2>1, <2>4 DEF RoutingInv
<1>3. ASSUME NEW h \in Handlers, Announce(h) PROVE RoutingInv'
  <2>1. handler[h] \in Contact
    BY <1>0, <1>3 DEF Announce, TypeOK
  <2>2. /\ newContactChan' \in Seq(Contact) /\ Len(newContactChan') <= ChanSize
        /\ dropped' \subseteq Contact
    BY <1>0, <1>3, <2>1, ChannelType DEF Announce, TypeOK
  <2>3. TypeOK'
    BY <1>0, <1>3, <2>2 DEF Announce, TypeOK
  <2>4. OnlyFullBucketsRefuse' /\ InItsBucket'
    BY <1>0, <1>3 DEF Announce, OnlyFullBucketsRefuse, InItsBucket, In, BucketOf
  <2> QED
    BY <2>3, <2>4 DEF RoutingInv
<1>4. CASE Handoff
  <2>1. Head(newContactChan) \in Contact
          /\ newContactChan' \in Seq(Contact) /\ Len(newContactChan') <= ChanSize
    BY <1>0, <1>4, ChannelType DEF Handoff, TypeOK
  <2>2. TypeOK'
    BY <1>0, <1>4, <2>1 DEF Handoff, TypeOK
  <2>3. OnlyFullBucketsRefuse' /\ InItsBucket'
    BY <1>0, <1>4 DEF Handoff, OnlyFullBucketsRefuse, InItsBucket, In, BucketOf
  <2> QED
    BY <2>2, <2>3 DEF RoutingInv
<1>5. CASE UNCHANGED vars
  BY <1>0, <1>5 DEF vars, RoutingInv, TypeOK, OnlyFullBucketsRefuse,
                    InItsBucket, In, BucketOf
<1> QED
  BY <1>1, <1>2, <1>3, <1>4, <1>5 DEF Next

\* Every variable keeps its type (routing.go, commands.go:117-125).
THEOREM TypeCorrect == Spec => []TypeOK
<1>1. RoutingInv => TypeOK
  BY DEF RoutingInv
<1> QED
  BY <1>1, InitRouting, NextRouting, PTL DEF Spec

\* routing.go:59-89: however messages and answers interleave, a bucket holds
\* at most K contacts, only at the distance it stands for, and refuses a
\* newcomer only when it is full.
THEOREM TableCorrect == Spec => [](OnlyFullBucketsRefuse /\ InItsBucket)
<1>1. RoutingInv => OnlyFullBucketsRefuse /\ InItsBucket
  BY DEF RoutingInv
<1> QED
  BY <1>1, InitRouting, NextRouting, PTL DEF Spec

-----------------------------------------------------------------------------
(* Announcements *)

\* What AddContact takes for new is not in the table, and is from then on.
LEMMA NewIsKnown ==
  ASSUME TypeOK, InItsBucket, NEW id \in Peers, NEW addr \in Addrs,
         AddContact(id, addr)
  PROVE  /\ Known \subseteq Known'
         /\ IsNew(id) => id \notin Known /\ id \in Known'
<1>1. IsNew(id) => id \notin Known
  BY DEF IsNew, Known, In, InItsBucket, BucketOf
<1>2. CASE buckets' = buckets /\ ~IsNew(id)
  BY <1>2 DEF Known, In
<1>3. CASE id # localID /\ (In(id, BucketOf(id)) \/ IsNew(id))
  <2>1. BucketOf(id) \in Positions
    BY <1>3, BucketExists
  <2>2. buckets' = [buckets EXCEPT ![BucketOf(id)] = With(buckets[BucketOf(id)], id, addr)]
    BY <1>3 DEF AddContact
  <2>3. buckets[BucketOf(id)] \in Buckets
    BY <2>1 DEF TypeOK
  <2>4. /\ DOMAIN buckets'[BucketOf(id)] = DOMAIN buckets[BucketOf(id)] \cup {id}
        /\ \A i \in Positions \ {BucketOf(id)} : buckets'[i] = buckets[i]
    BY <2>1, <2>2, <2>3, WithType DEF TypeOK
  <2>5. Known \subseteq Known'
    BY <2>4 DEF Known, In
  <2>6. id \in Known'
    BY <2>1, <2>4 DEF Known, In
  <2> QED
    BY <1>1, <2>5, <2>6
<1> QED
  BY <1>1, <1>2, <1>3 DEF AddContact, IsNew

\* A step that adds contacts and moves no announcement.
LEMMA NothingAnnounced ==
  ASSUME AnnouncedInv, RoutingInv', Known \subseteq Known',
         UNCHANGED <<handler, newContactChan, handed, dropped>>
  PROVE  AnnouncedInv'
BY DEF AnnouncedInv, OnePlace, AtMostOne, Announcing, Queued, Ended

LEMMA HandleStep ==
  ASSUME AnnouncedInv, RoutingInv',
         NEW id \in Peers, NEW addr \in Addrs, NEW h \in Handlers,
         HandleMessage(h, id, addr)
  PROVE  AnnouncedInv'
<1> DEFINE c == [id |-> id, addr |-> addr]
<1>1. /\ TypeOK /\ InItsBucket /\ \A x \in Peers : OnePlace(x)
      /\ AddContact(id, addr) /\ handler[h] = NoContact
      /\ UNCHANGED <<newContactChan, handed, dropped>>
  BY DEF AnnouncedInv, RoutingInv, HandleMessage
<1>2. Known \subseteq Known' /\ (IsNew(id) => id \notin Known /\ id \in Known')
  BY <1>1, NewIsKnown
<1>3. c \in Contact /\ c.id = id /\ c # NoContact
  BY RoutingAssumption DEF Contact
<1>4. CASE IsNew(id)
  <2>1. /\ handler' = [handler EXCEPT ![h] = c]
        /\ handler'[h] = c /\ \A g \in Handlers \ {h} : handler'[g] = handler[g]
    BY <1>1, <1>4 DEF HandleMessage, TypeOK
  <2>2. \A x \in Peers : Queued(x)' = Queued(x) /\ Ended(x)' = Ended(x)
    BY <1>1 DEF Queued, Ended
  <2>3. Announcing(id) = {} /\ Queued(id) = {} /\ Ended(id) = {}
    BY <1>1, <1>2, <1>4 DEF OnePlace
  <2>4. Announcing(id)' = {h}
    BY <1>3, <2>1, <2>3 DEF Announcing
  <2>5. \A x \in Peers \ {id} : Announcing(x)' = Announcing(x)
    BY <1>1, <1>3, <2>1 DEF Announcing
  <2>6. OnePlace(id)'
    BY <1>2, <1>4, <2>2, <2>3, <2>4 DEF OnePlace, AtMostOne
  <2>7. \A x \in Peers \ {id} : OnePlace(x)'
    BY <1>1, <1>2, <2>2, <2>5 DEF OnePlace, AtMostOne
  <2> QED
    BY <2>6, <2>7 DEF AnnouncedInv
<1>5. CASE ~IsNew(id)
  <2>1. handler' = handler
    BY <1>1, <1>5 DEF HandleMessage, TypeOK
  <2> QED
    BY <1>1, <1>2, <2>1, NothingAnnounced
<1> QED
  BY <1>4, <1>5

\* The announcement moves from its handler to the channel, or to those dropped.
LEMMA AnnounceStep ==
  ASSUME AnnouncedInv, RoutingInv', NEW h \in Handlers, Announce(h)
  PROVE  AnnouncedInv'
<1> DEFINE n == Len(newContactChan)
<1>0. PICK c \in Contact : c = handler[h]
  BY DEF AnnouncedInv, RoutingInv, Announce, TypeOK
<1>1. /\ TypeOK /\ \A x \in Peers : OnePlace(x)
      /\ c # NoContact /\ c.id \in Peers
      /\ handler' = [handler EXCEPT ![h] = NoContact]
      /\ UNCHANGED <<buckets, handed>>
  BY <1>0 DEF AnnouncedInv, RoutingInv, Announce, Contact
<1>2. Known' = Known
  BY <1>1 DEF Known, In
<1>3. handler'[h] = NoContact /\ \A g \in Handlers \ {h} : handler'[g] = handler[g]
  BY <1>1 DEF TypeOK
<1>4. \A x \in Peers : Announcing(x)' = Announcing(x) \ {h}
  BY <1>3 DEF Announcing
<1>5. h \in Announcing(c.id) /\ \A x \in Peers \ {c.id} : h \notin Announcing(x)
  BY <1>0, <1>1 DEF Announcing
<1>6. /\ Announcing(c.id)' = {} /\ Queued(c.id) = {} /\ Ended(c.id) = {}
      /\ c.id \in Known
  BY <1>1, <1>4, <1>5 DEF OnePlace, AtMostOne
<1>7. n \in Nat /\ newContactChan \in Seq(Contact)
  BY <1>1, LenProperties DEF TypeOK
<1>8. CASE n < ChanSize
  <2>1. newContactChan' = Append(newContactChan, c) /\ dropped' = dropped
    BY <1>0, <1>8 DEF Announce
  <2>2. DOMAIN newContactChan = 1..n /\ DOMAIN newContactChan' = 1..(n + 1)
        /\ newContactChan'[n + 1] = c
        /\ \A i \in 1..n : newContactChan'[i] = newContactChan[i]
    BY <1>1, <1>7, <2>1
  <2>3. Queued(c.id)' = {n + 1} /\ \A x \in Peers \ {c.id} : Queued(x)' = Queued(x)
    <3>1. \A x \in Peers \ {c.id} : Queued(x)' = Queued(x)
      BY <1>7, <2>2 DEF Queued
    <3>2. Queued(c.id)' = {n + 1}
      BY <1>6, <1>7, <2>2 DEF Queued
    <3> QED
      BY <3>1, <3>2
  <2>4. \A x \in Peers : Ended(x)' = Ended(x)
    BY <1>1, <2>1 DEF Ended
  <2>5. OnePlace(c.id)'
    BY <1>2, <1>6, <2>3, <2>4, <1>1 DEF OnePlace, AtMostOne
  <2>6. \A x \in Peers \ {c.id} : OnePlace(x)'
    BY <1>1, <1>2, <1>4, <1>5, <2>3, <2>4 DEF OnePlace, AtMostOne
  <2> QED
    BY <2>5, <2>6 DEF AnnouncedInv
<1>9. CASE ~(n < ChanSize)
  <2>1. newContactChan' = newContactChan /\ dropped' = dropped \cup {c}
    BY <1>0, <1>9 DEF Announce
  <2>2. \A x \in Peers : Queued(x)' = Queued(x)
    BY <2>1 DEF Queued
  <2>3. Ended(c.id)' = {c} /\ \A x \in Peers \ {c.id} : Ended(x)' = Ended(x)
    BY <1>1, <1>6, <2>1 DEF Ended
  <2>4. OnePlace(c.id)'
    BY <1>1, <1>2, <1>6, <2>2, <2>3 DEF OnePlace, AtMostOne
  <2>5. \A x \in Peers \ {c.id} : OnePlace(x)'
    BY <1>1, <1>2, <1>4, <1>5, <2>2, <2>3 DEF OnePlace, AtMostOne
  <2> QED
    BY <2>4, <2>5 DEF AnnouncedInv
<1> QED
  BY <1>8, <1>9

\* The first announcement moves from the channel to the worker.
LEMMA HandoffStep ==
  ASSUME AnnouncedInv, RoutingInv', Handoff
  PROVE  AnnouncedInv'
<1> DEFINE n == Len(newContactChan)
<1>0. PICK c : c = Head(newContactChan)
  OBVIOUS
<1>1. /\ TypeOK /\ \A x \in Peers : OnePlace(x)
      /\ newContactChan # <<>> /\ newContactChan' = Tail(newContactChan)
      /\ handed' = handed \cup {c}
      /\ UNCHANGED <<buckets, handler, dropped>>
  BY <1>0 DEF AnnouncedInv, RoutingInv, Handoff
<1>2. Known' = Known /\ \A x \in Peers : Announcing(x)' = Announcing(x)
  BY <1>1 DEF Known, In, Announcing
<1>3. n \in Nat /\ newContactChan \in Seq(Contact) /\ n >= 1
  BY <1>1, LenProperties, EmptySeq DEF TypeOK
<1>4. /\ DOMAIN newContactChan = 1..n /\ DOMAIN newContactChan' = 1..(n - 1)
      /\ c = newContactChan[1] /\ c \in Contact
      /\ \A i \in 1..(n - 1) : newContactChan'[i] = newContactChan[i + 1]
  BY <1>0, <1>1, <1>3
<1>5. c.id \in Peers /\ 1 \in Queued(c.id)
  BY <1>3, <1>4 DEF Contact, Queued
<1>6. /\ Queued(c.id) = {1} /\ Announcing(c.id) = {} /\ Ended(c.id) = {}
      /\ c.id \in Known
  BY <1>1, <1>5 DEF OnePlace, AtMostOne
<1>7. \A x \in Peers : \A i \in Queued(x)' : i + 1 \in Queued(x)
  BY <1>3, <1>4 DEF Queued
<1>8. Queued(c.id)' = {}
  <2>1. SUFFICES ASSUME NEW i \in Queued(c.id)' PROVE FALSE
    OBVIOUS
  <2>2. i + 1 = 1 /\ i \in 1..(n - 1)
    BY <1>4, <1>5, <1>6, <1>7, <2>1 DEF Queued
  <2> QED
    BY <1>3, <2>2
<1>9. Ended(c.id)' = {c} /\ \A x \in Peers \ {c.id} : Ended(x)' = Ended(x)
  BY <1>1, <1>6 DEF Ended
<1>10. OnePlace(c.id)'
  BY <1>2, <1>5, <1>6, <1>8, <1>9 DEF OnePlace, AtMostOne
<1>11. ASSUME NEW x \in Peers \ {c.id} PROVE OnePlace(x)'
  <2>1. AtMostOne(Queued(x))'
    <3>1. SUFFICES ASSUME NEW i \in Queued(x)', NEW j \in Queued(x)' PROVE i = j
      BY DEF AtMostOne
    <3>2. i + 1 = j + 1
      BY <1>1, <1>7, <3>1 DEF OnePlace, AtMostOne
    <3>3. i \in Int /\ j \in Int
      BY <1>4, <3>1 DEF Queued
    <3> QED
      BY <3>2, <3>3
  <2>2. Queued(x)' # {} => Queued(x) # {}
    BY <1>7
  <2> QED
    BY <1>1, <1>2, <1>9, <2>1, <2>2 DEF OnePlace, AtMostOne
<1> QED
  BY <1>10, <1>11 DEF AnnouncedInv

LEMMA InitAnnounced == Init => AnnouncedInv
<1> SUFFICES ASSUME Init, NEW id \in Peers PROVE OnePlace(id)
  BY InitRouting DEF AnnouncedInv
<1>1. Announcing(id) = {} /\ Queued(id) = {} /\ Ended(id) = {}
  BY DEF Init, Announcing, Queued, Ended
<1> QED
  BY <1>1 DEF OnePlace, AtMostOne

LEMMA NextAnnounced == AnnouncedInv /\ [Next]_vars => AnnouncedInv'
<1> SUFFICES ASSUME AnnouncedInv, [Next]_vars PROVE AnnouncedInv'
  OBVIOUS
<1>1. RoutingInv'
  BY NextRouting DEF AnnouncedInv
<1>2. ASSUME NEW id \in Peers, NEW addr \in Addrs, LearnContact(id, addr)
      PROVE  AnnouncedInv'
  BY <1>1, <1>2, NewIsKnown, NothingAnnounced DEF LearnContact, AnnouncedInv, RoutingInv
<1>3. CASE UNCHANGED vars
  <2>1. Known' = Known
    BY <1>3 DEF vars, Known, In
  <2> QED
    BY <1>1, <1>3, <2>1, NothingAnnounced DEF vars
<1> QED
  BY <1>1, <1>2, <1>3, HandleStep, AnnounceStep, HandoffStep DEF Next

\* What OnePlace says in numbers.
LEMMA AtMostOneIsOne ==
  ASSUME NEW S, AtMostOne(S)
  PROVE  S # {} => Cardinality(S) = 1
<1> SUFFICES ASSUME S # {} PROVE Cardinality(S) = 1
  OBVIOUS
<1>1. PICK x \in S : TRUE
  OBVIOUS
<1>2. S = {x}
  BY <1>1 DEF AtMostOne
<1> QED
  BY <1>2, FS_Singleton

\* commands.go:117-125, workers.go: a node is announced to the handoff worker
\* at most once, however the read loop, the listener and lookups interleave,
\* and is in the table by then.
THEOREM AnnouncementsUnique == Spec => []AnnouncedOnce
<1>1. AnnouncedInv => AnnouncedOnce
  <2> SUFFICES ASSUME AnnouncedInv, NEW id \in Peers
               PROVE  Announcements(id) <= 1 /\ (Announcements(id) = 1 => id \in Known)
    BY DEF AnnouncedOnce
  <2>1. OnePlace(id)
    BY DEF AnnouncedInv
  <2>2. Cardinality({}) = 0
    BY FS_EmptySet
  <2> DEFINE A == Announcing(id)
             B == Queued(id)
             C == Ended(id)
  <2>3. /\ A # {} => Cardinality(A) = 1 /\ B = {} /\ C = {}
        /\ B # {} => Cardinality(B) = 1 /\ A = {} /\ C = {}
        /\ C # {} => Cardinality(C) = 1 /\ A = {} /\ B = {}
        /\ A # {} \/ B # {} \/ C # {} => id \in Known
    BY <2>1, AtMostOneIsOne DEF OnePlace
  <2>4. Announcements(id) = Cardinality(A) + Cardinality(B) + Cardinality(C)
    BY DEF Announcements
  <2> HIDE DEF A, B, C
  <2> QED
    BY <2>2, <2>3, <2>4
<1> QED
  BY <1>1, InitAnnounced, NextAnnounced, PTL DEF Spec

-----------------------------------------------------------------------------
(* The refresh of the buckets (BucketRefresh) *)

\* The identifiers of BucketRefresh are those of the table.
LEMMA SameIdentifiers ==
  /\ Refresh!NodeID = NodeID /\ Refresh!Positions = Positions
  /\ \A n, o : /\ Refresh!XOR(n, o) = XOR(n, o)
               /\ Refresh!getBucketIndex(n, o) = getBucketIndex(n, o)
<1>1. Refresh!NodeID = NodeID /\ Refresh!Positions = Positions
  BY DEF Refresh!NodeID, NodeID, Refresh!Positions, Positions
<1>2. ASSUME NEW n, NEW o PROVE Refresh!XOR(n, o) = XOR(n, o)
  BY DEF Refresh!XOR, XOR
<1>3. ASSUME NEW n, NEW o PROVE Refresh!getBucketIndex(n, o) = getBucketIndex(n, o)
  BY DEF Refresh!getBucketIndex, getBucketIndex, Refresh!XOR, XOR
<1> QED
  BY <1>1, <1>2, <1>3

\* Whatever the random bits, what is generated for a bucket is an identifier
\* that differs from the local one in the bit of the bucket.
LEMMA RandomKeepsBit ==
  ASSUME Refresh!RefreshAssumption, NEW i \in Positions, NEW id \in Refresh!RandomIDs(i)
  PROVE  id \in NodeID /\ i \in XOR(localID, id)
<1> DEFINE b == i \div ByteSize
           above == {p \in Positions : p \div ByteSize > b}
           below == {p \in (b * ByteSize)..(b * ByteSize + ByteSize - 1) : p < i}
<1>1. i \in Nat /\ i < Bits /\ Bits \in Nat /\ ByteSize \in Nat \ {0}
  BY BitsAssumption DEF Refresh!RefreshAssumption, Positions
<1>2. b \in Nat
  BY <1>1
<1>3. b * ByteSize \in Nat
  <2> HIDE DEF b
  <2> QED
    BY <1>1, <1>2
<1>4. PICK random \in SUBSET (above \cup below) :
        id = (XOR(localID, {i}) \ (above \cup below)) \cup random
  BY SameIdentifiers DEF Refresh!RandomIDs, Refresh!FlipBit, Refresh!ByteOf, Refresh!Byte
<1>5. below \subseteq Positions
  <2> DEFINE base == b * ByteSize
  <2> HIDE DEF base, b
  <2>1. ASSUME NEW p \in base..(base + ByteSize - 1), p < i PROVE p \in 0..(Bits - 1)
    BY <1>1, <1>3, <2>1 DEF base
  <2> QED
    BY <2>1 DEF Positions, base
<1>6. i \notin above /\ i \notin below
  <2>1. ~(b > b) /\ ~(i < i)
    BY <1>1, <1>2
  <2> QED
    BY <2>1
<1> HIDE DEF above, below
<1>7. XOR(localID, {i}) \subseteq Positions
  BY SameIdentifiers DEF Refresh!RefreshAssumption, NodeID, XOR
<1>8. id \in NodeID
  BY <1>4, <1>5, <1>7 DEF NodeID, above
<1>9. i \in id <=> i \notin localID
  BY <1>4, <1>6 DEF XOR
<1> QED
  BY <1>8, <1>9 DEF XOR

\* workers.go:148-165: no lookup of a refresh is for the node itself or for a
\* nearer bucket than the one it refreshes.
THEOREM RefreshNeverBelow == Refresh!Spec => []NeverBelow
<1> DEFINE RefreshInv == index \in Positions /\ target \in Refresh!RandomIDs(index)
<1>1. Refresh!Init => RefreshInv
  BY BitsAssumption DEF Refresh!Init, Positions
<1>2. RefreshInv /\ [Refresh!Next]_(Refresh!vars) => RefreshInv'
  <2> SUFFICES ASSUME RefreshInv, [Refresh!Next]_(Refresh!vars) PROVE RefreshInv'
    OBVIOUS
  <2>1. CASE Refresh!RefreshNext
    <3>1. index' \in Positions
      BY <2>1, BitsAssumption DEF Refresh!RefreshNext, Positions
    <3>2. target' \in Refresh!RandomIDs(index')
      BY <2>1 DEF Refresh!RefreshNext
    <3> QED
      BY <3>1, <3>2 DEF Refresh!RandomIDs, Refresh!FlipBit, Refresh!ByteOf, Refresh!Byte
  <2>2. CASE Refresh!RefreshAgain
    <3>1. index' \in Positions
      BY <2>2, BitsAssumption DEF Refresh!RefreshAgain, Positions
    <3>2. target' \in Refresh!RandomIDs(index')
      BY <2>2 DEF Refresh!RefreshAgain
    <3> QED
      BY <3>1, <3>2 DEF Refresh!RandomIDs, Refresh!FlipBit, Refresh!ByteOf, Refresh!Byte
  <2>3. CASE UNCHANGED Refresh!vars
    BY <2>3 DEF Refresh!vars
  <2> QED
    BY <2>1, <2>2, <2>3 DEF Refresh!Next
<1>3. RefreshInv => NeverBelow
  <2> SUFFICES ASSUME RefreshInv PROVE getBucketIndex(localID, target) >= index
    BY SameIdentifiers DEF NeverBelow, Refresh!NeverBelow
  <2>1. localID \in NodeID /\ target \in NodeID /\ index \in XOR(localID, target)
    BY RandomKeepsBit, SameIdentifiers, LayerAssumption DEF Refresh!RefreshAssumption
  <2>2. localID # target
    BY <2>1 DEF XOR
  <2>3. index <= getBucketIndex(localID, target)
    BY <2>1, <2>2, BucketIndex
  <2>4. index \in Int /\ getBucketIndex(localID, target) \in Int
    BY <2>1, <2>2, BucketIndex DEF Positions
  <2> HIDE DEF RefreshInv
  <2> QED
    BY <2>3, <2>4
<1> QED
  BY <1>1, <1>2, <1>3, PTL DEF Refresh!Spec

-----------------------------------------------------------------------------
(* Nodes that join (Join) *)

\* What the joining nodes and the settings they join in are.
LEMMA JoinConstants ==
  /\ IsFiniteSet(Nodes) /\ Nodes \subseteq Nat /\ Seed \in Nodes
  /\ \A s \in Settings : s.told \subseteq Nodes \ {Seed} /\ s.lan \subseteq Nodes
<1>1. J!IsFiniteSet(Nodes) <=> IsFiniteSet(Nodes)
  BY DEF J!IsFiniteSet, IsFiniteSet
<1> QED
  BY <1>1, LayerAssumption DEF J!JoinAssumption

\* With no more nodes than entries no shortlist is cut.
LEMMA KeepsAll ==
  ASSUME NEW S \in SUBSET Nodes
  PROVE  J!Short!NClosest(S, J!Cardinality(Nodes)) = S
<1>1. J!Cardinality(Nodes) = Cardinality(Nodes)
      /\ \A T : J!Short!Cardinality(T) = Cardinality(T)
  BY DEF J!Cardinality, J!Short!Cardinality, Cardinality
<1>2. ASSUME NEW c \in S
      PROVE  Cardinality(J!Short!Closer(S, c)) < Cardinality(Nodes)
  <2>1. c \in Nodes /\ c \notin J!Short!Closer(S, c)
        /\ J!Short!Closer(S, c) \in SUBSET (Nodes \ {c})
    <3>1. c \in Nat
      BY JoinConstants
    <3>2. ~(c < c)
      BY <3>1
    <3> QED
      BY <3>2 DEF J!Short!Closer
  <2>2. IsFiniteSet(Nodes \ {c}) /\ Cardinality(Nodes \ {c}) = Cardinality(Nodes) - 1
        /\ Cardinality(Nodes) \in Nat
    BY <2>1, JoinConstants, FS_RemoveElement, FS_CardinalityType
  <2>3. Cardinality(J!Short!Closer(S, c)) <= Cardinality(Nodes \ {c})
        /\ Cardinality(J!Short!Closer(S, c)) \in Nat
    BY <2>1, <2>2, FS_Subset, FS_CardinalityType
  <2> QED
    BY <2>2, <2>3
<1> QED
  BY <1>1, <1>2 DEF J!Short!NClosest

\* A shortlist is one of nodes.
LEMMA ListType ==
  ASSUME NEW l \in J!Short!Shortlists
  PROVE  DOMAIN l \in SUBSET Nodes /\ \A c \in DOMAIN l : l[c] \in J!Short!contactStatus
BY DEF J!Short!Shortlists

\* A fresh shortlist has everybody on it, not asked.
LEMMA NewList ==
  ASSUME NEW S \in SUBSET Nodes
  PROVE  LET l == J!Short!NewShortlist(S)
         IN  /\ l \in J!Short!Shortlists /\ DOMAIN l = S
             /\ \A c \in S : l[c] = "new"
<1>1. J!Short!NewShortlist(S) \in [S -> J!Short!contactStatus]
  BY DEF J!Short!NewShortlist, J!Short!contactStatus
<1> QED
  BY <1>1 DEF J!Short!NewShortlist, J!Short!Shortlists

\* Marking changes the status of the marked, and no other.
LEMMA MarkedList ==
  ASSUME NEW l \in J!Short!Shortlists, NEW S, NEW s \in J!Short!contactStatus
  PROVE  LET next == J!Short!Mark(l, S, s)
         IN  /\ next \in J!Short!Shortlists /\ DOMAIN next = DOMAIN l
             /\ \A c \in DOMAIN l : next[c] = IF c \in S THEN s ELSE l[c]
<1>1. J!Short!Mark(l, S, s) \in [DOMAIN l -> J!Short!contactStatus]
  BY ListType DEF J!Short!Mark
<1> QED
  BY <1>1, ListType DEF J!Short!Mark, J!Short!Shortlists

\* An answer marks who gave it and adds whom it tells of.
LEMMA RespondedStatus ==
  ASSUME NEW l \in J!Short!Shortlists, NEW c \in Nodes, NEW S \in SUBSET Nodes
  PROVE  /\ DOMAIN J!Short!MarkResponded(l, c, S) = DOMAIN l \cup S
         /\ \A d \in DOMAIN l \cup S :
              J!Short!MarkResponded(l, c, S)[d]
                = IF d \notin DOMAIN l THEN "new"
                  ELSE IF d = c THEN "responded" ELSE l[d]
<1> DEFINE marked == J!Short!Mark(l, {c}, "responded")
           added == J!Short!AddContacts(marked, S)
           next == J!Short!MarkResponded(l, c, S)
<1>1. /\ DOMAIN marked = DOMAIN l /\ DOMAIN l \in SUBSET Nodes
      /\ \A d \in DOMAIN l : marked[d] = IF d = c THEN "responded" ELSE l[d]
  BY MarkedList, ListType DEF J!Short!contactStatus
<1>2. /\ DOMAIN added = DOMAIN l \cup S
      /\ \A d \in DOMAIN l \cup S :
           added[d] = IF d \in DOMAIN l THEN marked[d] ELSE "new"
  BY <1>1 DEF J!Short!AddContacts
<1>3. next = [d \in DOMAIN l \cup S |-> added[d]]
  BY <1>1, <1>2, KeepsAll DEF J!Short!MarkResponded, J!Short!Truncate
<1> QED
  BY <1>1, <1>2, <1>3

\* Whom the list holds after an answer.
LEMMA RespondedDomain ==
  ASSUME NEW l \in J!Short!Shortlists, NEW c \in Nodes, NEW S \in SUBSET Nodes
  PROVE  DOMAIN J!Short!MarkResponded(l, c, S) = DOMAIN l \cup S
BY RespondedStatus

\* It is a shortlist still.
LEMMA RespondedList ==
  ASSUME NEW l \in J!Short!Shortlists, NEW c \in Nodes, NEW S \in SUBSET Nodes
  PROVE  J!Short!MarkResponded(l, c, S) \in J!Short!Shortlists
<1> DEFINE next == J!Short!MarkResponded(l, c, S)
<1>1. /\ DOMAIN l \in SUBSET Nodes
      /\ \A e \in DOMAIN l : l[e] \in J!Short!contactStatus
  BY ListType
<1>2. DOMAIN next = DOMAIN l \cup S
  BY RespondedDomain
<1>3. ASSUME NEW d \in DOMAIN next PROVE next[d] \in J!Short!contactStatus
  <2>1. next[d] = IF d \notin DOMAIN l THEN "new"
                  ELSE IF d = c THEN "responded" ELSE l[d]
    BY <1>2, <1>3, RespondedStatus
  <2> QED
    BY <1>1, <2>1 DEF J!Short!contactStatus
<1>4. next = [d \in DOMAIN next |-> next[d]]
  BY DEF J!Short!MarkResponded, J!Short!Truncate
<1> HIDE DEF next
<1>5. next \in [DOMAIN l \cup S -> J!Short!contactStatus]
  BY <1>2, <1>3, <1>4
<1>6. next \in J!Short!Shortlists
  BY <1>1, <1>5 DEF J!Short!Shortlists
<1> QED
  BY <1>6 DEF next

\* What is sent.
LEMMA SentFacts ==
  ASSUME NEW k \in J!Kinds, NEW n \in Nodes, NEW S, NEW q \in J!Sent(k, n, S)
  PROVE  /\ q \in J!Packet /\ q.kind = k /\ q.from = n /\ q.to \in S
         /\ q.awaited => k \in J!Requests
         /\ \A r \in J!Sent(k, n, S) : r.to = q.to => r = q
<1>1. q \in J!Packet
  BY DEF J!Sent, J!Up, J!Packet
<1>2. q.kind = k /\ q.from = n /\ q.to \in S
  BY DEF J!Sent, J!Up
<1>3. q.awaited => k \in J!Requests
  BY DEF J!Sent
<1>4. \A r \in J!Sent(k, n, S) : r.to = q.to => r = q
  BY DEF J!Sent
<1> QED
  BY <1>1, <1>2, <1>3, <1>4

\* A beacon announces its sender and asks for no answer.
LEMMA BeaconFacts ==
  ASSUME J!JoinTypeOK, NEW n \in Nodes, NEW q \in J!Beacons(n)
  PROVE  q \in J!Packet /\ q.kind = "beacon" /\ ~q.awaited
BY SentFacts, JoinConstants DEF J!Beacons, J!JoinTypeOK, J!Kinds, J!Requests

\* What a received packet tells, and the answer.
LEMMA LearnedFacts ==
  ASSUME J!JoinTypeOK, NEW p \in wire
  PROVE  /\ p \in J!Packet /\ p.from \in Nodes /\ p.to \in Nodes
         /\ J!Learned(p) \subseteq Nodes
         /\ table[p.to] \subseteq J!Learned(p)
         /\ p.from # p.to => p.from \in J!Learned(p)
<1>1. p \in J!Packet /\ p.from \in Nodes /\ p.to \in Nodes /\ p.contacts \subseteq Nodes
  BY DEF J!JoinTypeOK, J!Packet
<1>2. table[p.to] \subseteq Nodes
  BY <1>1 DEF J!JoinTypeOK
<1> QED
  BY <1>1, <1>2 DEF J!Learned, J!AddSender, J!AddFound

\* The answer goes back to who asked.
LEMMA ReplyFacts ==
  ASSUME J!JoinTypeOK, NEW p \in wire, NEW r \in J!Reply(p)
  PROVE  /\ r \in J!Packet /\ r.from = p.to /\ r.to = p.from /\ r.awaited = p.awaited
         /\ p.kind # "find" => r.kind = "pong" /\ p.kind \in {"ping", "beacon"}
         /\ p.kind = "find" => r.kind = "found" /\ r.contacts = J!Learned(p)
<1>1. /\ p \in J!Packet /\ p.from \in Nodes /\ p.to \in Nodes
      /\ J!Learned(p) \subseteq Nodes
  BY LearnedFacts
<1>2. p.awaited \in BOOLEAN
  BY <1>1 DEF J!Packet
<1>3. CASE p.kind = "find"
  <2>1. r = [kind |-> "found", from |-> p.to, to |-> p.from,
             contacts |-> J!Learned(p), awaited |-> p.awaited]
    BY <1>3 DEF J!Reply, J!Answer
  <2> QED
    BY <1>1, <1>2, <1>3, <2>1 DEF J!Packet, J!Kinds
<1>4. CASE p.kind \in {"ping", "beacon"}
  <2>1. r = [kind |-> "pong", from |-> p.to, to |-> p.from,
             contacts |-> {}, awaited |-> p.awaited]
    BY <1>4 DEF J!Reply, J!Answer
  <2> QED
    BY <1>1, <1>2, <1>4, <2>1 DEF J!Packet, J!Kinds
<1>5. CASE p.kind \notin {"find", "ping", "beacon"}
  BY <1>5 DEF J!Reply
<1> QED
  BY <1>3, <1>4, <1>5

\* The type invariant: at first, and by every step.
LEMMA JoinTypeInit ==
  ASSUME J!JoinInit PROVE J!JoinTypeOK
<1>1. J!Short!NewShortlist({}) \in J!Short!Shortlists
  BY NewList
<1> QED
  BY <1>1, LayerAssumption DEF J!JoinInit, J!JoinTypeOK, J!Phases, J!JoinAssumption

\* Every step keeps the types of what it changes.
LEMMA JoinTypeStep ==
  ASSUME J!JoinTypeOK, J!JoinNext
  PROVE  J!JoinTypeOK'
<1> USE DEF J!NowPhase, J!NowList, J!Phases
<1>0. J!Short!NewShortlist({}) \in J!Short!Shortlists
      /\ \A s \in {"querying", "failed"} : s \in J!Short!contactStatus
  BY NewList DEF J!Short!contactStatus
<1>1. ASSUME NEW n \in Nodes, J!StartNode(n) PROVE J!JoinTypeOK'
  <2>1. wire' \subseteq J!Packet
    BY <1>1, BeaconFacts, SentFacts DEF J!StartNode, J!JoinTypeOK, J!Kinds, J!Requests
  <2>2. setting.told \subseteq Nodes \ {Seed}
    BY JoinConstants DEF J!JoinTypeOK
  <2> QED
    BY <1>1, <2>1, <2>2 DEF J!StartNode, J!JoinTypeOK
<1>2. ASSUME NEW n \in Nodes, NEW s \in J!Phases, J!BeginLookup(n, s)
      PROVE J!JoinTypeOK'
  <2>1. J!Short!NewShortlist(table[n]) \in J!Short!Shortlists
    BY NewList DEF J!JoinTypeOK
  <2> QED
    BY <1>2, <2>1 DEF J!BeginLookup, J!JoinTypeOK
<1>3. ASSUME NEW n \in Nodes, J!SendBeacon(n) PROVE J!JoinTypeOK'
  <2>1. wire' \subseteq J!Packet
    BY <1>3, BeaconFacts DEF J!SendBeacon
  <2> QED
    BY <1>3, <2>1 DEF J!SendBeacon, J!JoinTypeOK
<1>4. ASSUME NEW n \in Nodes, J!StartRound(n) PROVE J!JoinTypeOK'
  <2>1. PICK S : /\ list' = [list EXCEPT ![n] = J!Short!Mark(list[n], S, "querying")]
                 /\ wire' = wire \cup J!Sent("find", n, S)
                 /\ UNCHANGED <<table, phase, setting, smooth, faults>>
    BY <1>4 DEF J!StartRound
  <2>2. J!Short!Mark(list[n], S, "querying") \in J!Short!Shortlists
    BY <1>0, MarkedList DEF J!JoinTypeOK
  <2>3. wire' \subseteq J!Packet
    BY <2>1, SentFacts DEF J!JoinTypeOK, J!Kinds, J!Requests
  <2> QED
    BY <2>1, <2>2, <2>3 DEF J!JoinTypeOK
<1>5. ASSUME NEW n \in Nodes, J!EndLookup(n) PROVE J!JoinTypeOK'
  BY <1>0, <1>5 DEF J!EndLookup, J!JoinTypeOK
<1>6. ASSUME NEW p \in wire, J!ReceivePacket(p) PROVE J!JoinTypeOK'
  <2>1. p \in J!Packet /\ p.to \in Nodes /\ p.from \in Nodes /\ J!Learned(p) \subseteq Nodes
        /\ p.contacts \subseteq Nodes
    BY LearnedFacts DEF J!Packet
  <2>2. wire' \subseteq J!Packet
    BY <1>6, ReplyFacts DEF J!ReceivePacket, J!JoinTypeOK
  <2>3. table' \in [Nodes -> SUBSET Nodes]
    BY <1>6, <2>1 DEF J!ReceivePacket, J!JoinTypeOK
  <2>4. phase' \in [Nodes -> J!Phases]
    BY <1>6, <2>1 DEF J!ReceivePacket, J!JoinTypeOK
  <2>5. J!Short!MarkResponded(list[p.to], p.from, p.contacts) \in J!Short!Shortlists
    BY <2>1, RespondedList DEF J!JoinTypeOK
  <2>6. list' \in [Nodes -> J!Short!Shortlists]
    BY <1>6, <2>1, <2>5 DEF J!ReceivePacket, J!JoinTypeOK
  <2> QED
    BY <1>6, <2>2, <2>3, <2>4, <2>6 DEF J!ReceivePacket, J!JoinTypeOK
<1>7. ASSUME J!Fault PROVE faults' \in 0..MaxFaults
  BY <1>7, LayerAssumption DEF J!Fault, J!JoinTypeOK, J!JoinAssumption
<1>8. ASSUME NEW p \in wire, J!LosePacket(p) PROVE J!JoinTypeOK'
  BY <1>7, <1>8 DEF J!LosePacket, J!JoinTypeOK
<1>9. ASSUME NEW n \in Nodes, NEW m \in Nodes, J!GivesUp(n, m)
      PROVE  /\ wire' \subseteq J!Packet /\ smooth' \subseteq Nodes \ {Seed}
             /\ faults' \in 0..MaxFaults /\ UNCHANGED <<table, setting>>
  <2>1. faults' \in 0..MaxFaults
    BY <1>7, <1>9 DEF J!GivesUp, J!JoinTypeOK
  <2>2. J!Exchange(n, m) \subseteq J!Packet
    BY DEF J!Exchange, J!JoinTypeOK
  <2>3. \A p \in J!Packet : [p EXCEPT !.awaited = FALSE] \in J!Packet
    BY DEF J!Packet
  <2>4. wire' \subseteq J!Packet
    BY <1>9, <2>2, <2>3 DEF J!GivesUp, J!NoLonger, J!JoinTypeOK
  <2> QED
    BY <1>9, <2>1, <2>4 DEF J!GivesUp, J!JoinTypeOK
<1>10. ASSUME NEW n \in Nodes, J!PingTimeout(n) PROVE J!JoinTypeOK'
  BY <1>9, <1>10, JoinConstants DEF J!PingTimeout, J!JoinTypeOK
<1>11. ASSUME NEW n \in Nodes, NEW m \in Nodes, J!QueryTimeout(n, m)
       PROVE J!JoinTypeOK'
  <2>1. J!Short!MarkFailed(list[n], m) \in J!Short!Shortlists
    BY <1>0, MarkedList DEF J!Short!MarkFailed, J!JoinTypeOK
  <2> QED
    BY <1>9, <1>11, <2>1 DEF J!QueryTimeout, J!JoinTypeOK
<1>12. ASSUME NEW n \in Nodes, J!CrashNode(n) PROVE J!JoinTypeOK'
  <2>1. \A p \in J!Packet :
          [p EXCEPT !.awaited = p.awaited /\ ~(p.from = n /\ p.kind \in J!Requests)]
            \in J!Packet
    BY DEF J!Packet
  <2>2. wire' \subseteq J!Packet
    BY <1>12, <2>1 DEF J!CrashNode, J!JoinTypeOK
  <2> QED
    BY <1>0, <1>7, <1>12, <2>2 DEF J!CrashNode, J!JoinTypeOK
<1> QED
  BY <1>1, <1>2, <1>3, <1>4, <1>5, <1>6, <1>8, <1>10, <1>11, <1>12
  DEF J!JoinNext, J!JoinMoves, J!BootstrapLookup, J!Refresh

-----------------------------------------------------------------------------
\* What a step does to a node it is not about: at most a datagram is lost.
Undisturbed(n) ==
  /\ phase'[n] = phase[n] /\ list'[n] = list[n]
  /\ \A m \in Nodes : J!Exchange(n, m)' \subseteq J!Exchange(n, m)

\* The tables that matter forget nothing.
Grown == \A n \in smooth' \cup {Seed} : table[n] \subseteq table'[n]

\* What JoinInv asks of a step for one node: it still meets or recalls whom it
\* was to meet or recall, or hears of all that the seed has answered; and if
\* somebody has answered it only now, that node knows it.
Faithful(n) ==
  /\ n \in smooth /\ J!Served(n)
  /\ \A m \in smooth' \ {n} :
       /\ J!Meets(n, m) /\ J!Served(m)' => J!Meets(n, m)' \/ J!Meets(m, n)'
       /\ J!Recalls(n, m) => J!Recalls(n, m)'
ToldOfAll(n) ==
  \A m \in smooth' \ {n} : phase'[m] \notin {"pinging", "down"} => J!Hears(n, m)'
Orderly(n) ==
  /\ J!Calls(n)'
  /\ n \in smooth' =>
       /\ J!Introduced(n)'
       /\ J!Served(n)' => Faithful(n) \/ ToldOfAll(n)
       /\ \A m \in smooth' \ {n} :
            J!Answered(n, m)' => n \in table'[m] \/ (n \in smooth /\ J!Answered(n, m))

\* A node the step leaves alone is served after it only if it was before.
LEMMA AloneServed ==
  ASSUME NEW n \in Nodes, n \in smooth', J!Calls(n), Grown, Undisturbed(n), J!Served(n)'
  PROVE  /\ J!Served(n)
         /\ \A m \in smooth' \ {n} : /\ J!Meets(n, m) => J!Meets(n, m)'
                                     /\ J!Recalls(n, m) => J!Recalls(n, m)'
<1>1. Seed \in Nodes
  BY JoinConstants
<1>2. J!ToldBySeed(n)' \subseteq J!ToldBySeed(n)
  BY <1>1 DEF J!ToldBySeed, Undisturbed
<1>3. J!Served(n)
  BY <1>2 DEF J!Served, J!Settled, Undisturbed
<1>4. ASSUME NEW m, J!Hears(n, m) PROVE J!Hears(n, m)'
  <2>1. phase[n] = "joining"
    BY <1>4 DEF J!Hears
  <2>2. CASE m \in DOMAIN list[n]
    BY <2>1, <2>2 DEF Undisturbed, J!Hears
  <2>3. CASE m \in UNION J!ToldBySeed(n)
    <3>1. PICK p \in J!Exchange(n, Seed) : p.kind = "found" /\ m \in p.contacts
      BY <2>3 DEF J!ToldBySeed
    <3>2. Seed \in J!Querying(n)
      BY <1>1, <3>1 DEF J!Calls
    <3>3. Seed \notin J!Short!WithStatus(list[n], "responded")
      BY <3>2 DEF J!Querying, J!Short!WithStatus
    <3>4. PICK q \in J!Exchange(n, Seed)' : q.kind = "found"
      BY <2>1, <3>3 DEF J!Served, J!Settled, J!ToldBySeed, Undisturbed
    <3>5. q = p
      BY <1>1, <3>1, <3>4 DEF Undisturbed, J!Calls
    <3>6. m \in UNION J!ToldBySeed(n)'
      BY <3>1, <3>4, <3>5 DEF J!ToldBySeed
    <3> QED
      BY <2>1, <3>6 DEF Undisturbed, J!Hears
  <2> QED
    BY <1>4, <2>2, <2>3 DEF J!Hears
<1>5. ASSUME NEW m \in smooth' \ {n}
      PROVE  (J!Meets(n, m) => J!Meets(n, m)') /\ (J!Recalls(n, m) => J!Recalls(n, m)')
  BY <1>4, <1>5 DEF J!Meets, J!Recalls, Grown
<1> QED
  BY <1>3, <1>5

\* Its calls are in order as they were.
LEMMA UndisturbedCalls ==
  ASSUME NEW n \in Nodes, J!Calls(n), Undisturbed(n)
  PROVE  J!Calls(n)'
BY DEF J!Calls, Undisturbed, J!Looking, J!Querying

\* A step is right for every node it leaves alone.
LEMMA UndisturbedOrderly ==
  ASSUME J!JoinInv, J!JoinTypeOK', NEW n \in Nodes, n \in smooth' => n \in smooth,
         Grown, Undisturbed(n)
  PROVE  Orderly(n)
<1>1. J!Calls(n)
  BY DEF J!JoinInv
<1>2. J!Calls(n)'
  BY <1>1, UndisturbedCalls
<1>3. ASSUME n \in smooth, J!Introduced(n), n \in smooth' PROVE J!Introduced(n)'
  <2>1. Seed \in Nodes /\ J!Exchange(n, Seed)' \subseteq J!Exchange(n, Seed)
    BY JoinConstants DEF Undisturbed
  <2>2. table[n] \subseteq table'[n] /\ table[Seed] \subseteq table'[Seed]
    BY <1>3 DEF Grown
  <2> QED
    BY <1>3, <2>1, <2>2 DEF J!Introduced, Undisturbed
<1>4. n \in smooth' /\ J!Served(n)' => Faithful(n)
  BY <1>1, AloneServed DEF Faithful
<1>5. \A m \in smooth' : J!Answered(n, m)' => J!Answered(n, m)
  <2>1. smooth' \subseteq Nodes
    BY DEF J!JoinTypeOK
  <2> QED
    BY <2>1 DEF J!Answered, Undisturbed
<1> QED
  BY <1>2, <1>3, <1>4, <1>5 DEF Orderly, J!JoinInv

\* A step is about one node `a`: the invariant holds after it if it does for `a`.
LEMMA StepKeeps ==
  ASSUME J!JoinInv, J!JoinTypeOK', Grown, NEW a \in Nodes,
         \A n \in Nodes \ {a} : Undisturbed(n) /\ (n \in smooth' => n \in smooth),
         Orderly(a)
  PROVE  J!JoinInv'
<1>1. \A n \in Nodes : Orderly(n)
  BY UndisturbedOrderly
<1>2. smooth' \subseteq Nodes
  BY DEF J!JoinTypeOK
<1>3. ASSUME NEW n \in smooth', NEW m \in smooth', n # m, J!Served(n)', J!Served(m)'
      PROVE  J!Meets(n, m)' \/ J!Meets(m, n)'
  <2>1. (Faithful(n) \/ ToldOfAll(n)) /\ (Faithful(m) \/ ToldOfAll(m))
    BY <1>1, <1>2, <1>3 DEF Orderly
  <2>2. phase'[n] \notin {"pinging", "down"} /\ phase'[m] \notin {"pinging", "down"}
    BY <1>3 DEF J!Served, J!Settled
  <2>3. CASE ToldOfAll(n) \/ ToldOfAll(m)
    BY <1>3, <2>2, <2>3 DEF ToldOfAll, J!Meets
  <2>4. CASE Faithful(n) /\ Faithful(m)
    <3>1. J!Meets(n, m) \/ J!Meets(m, n)
      BY <1>3, <2>4 DEF Faithful, J!JoinInv
    <3> QED
      BY <1>3, <2>4, <3>1 DEF Faithful
  <2> QED
    BY <2>1, <2>3, <2>4
<1>4. ASSUME NEW n \in smooth', NEW m \in smooth', n # m, J!Served(m)', J!Answered(n, m)'
      PROVE  J!Recalls(m, n)'
  <2>1. Faithful(m) \/ ToldOfAll(m)
    BY <1>1, <1>2, <1>4 DEF Orderly
  <2>2. n \in table'[m] \/ (n \in smooth /\ J!Answered(n, m))
    BY <1>1, <1>2, <1>4 DEF Orderly
  <2>3. CASE n \in table'[m]
    BY <2>3 DEF J!Recalls
  <2>4. CASE ToldOfAll(m)
    <3>1. phase'[n] = "joining"
      BY <1>4 DEF J!Answered
    <3>2. J!Hears(m, n)'
      BY <1>4, <2>4, <3>1 DEF ToldOfAll
    <3> QED
      BY <3>2 DEF J!Recalls
  <2>5. CASE Faithful(m) /\ n \in smooth /\ J!Answered(n, m)
    <3>1. J!Recalls(m, n)
      BY <1>4, <2>5 DEF Faithful, J!JoinInv
    <3> QED
      BY <1>4, <2>5, <3>1 DEF Faithful
  <2> QED
    BY <2>1, <2>2, <2>3, <2>4, <2>5
<1>5. \A n \in smooth' : J!Introduced(n)'
  BY <1>1, <1>2 DEF Orderly
<1>6. \A n \in Nodes : J!Calls(n)'
  BY <1>1 DEF Orderly
<1> QED
  BY <1>3, <1>4, <1>5, <1>6 DEF J!JoinInv

\* Who neither pings nor has a query out waits for no datagram.
LEMMA NoCalls ==
  ASSUME NEW n \in Nodes, J!Calls(n), phase[n] # "pinging",
         J!Looking(n) => J!Querying(n) = {}
  PROVE  \A m \in Nodes : J!Exchange(n, m) = {}
BY DEF J!Calls

\* A request is in no other exchange than its own.
LEMMA NewRequests ==
  ASSUME NEW a, NEW S,
         wire' \subseteq wire \cup S,
         \A q \in S : q.awaited => q.kind \in J!Requests /\ q.from = a
  PROVE  \A n, m \in Nodes :
           /\ n # a => J!Exchange(n, m)' \subseteq J!Exchange(n, m)
           /\ \A q \in J!Exchange(n, m)' :
                q \in J!Exchange(n, m) \/ (q \in S /\ q.awaited /\ q.to = m)
BY DEF J!Exchange

\* Start: the beacon, and the PING of the seed, are sent.
LEMMA StartKeeps ==
  ASSUME J!JoinInv, J!JoinTypeOK', NEW a \in Nodes, J!StartNode(a)
  PROVE  J!JoinInv'
<1> DEFINE pings == IF a \in setting.told THEN J!Sent("ping", a, {Seed}) ELSE {}
<1>1. /\ phase[a] = "down" /\ wire' = wire \cup (J!Beacons(a) \cup pings)
      /\ phase' = [phase EXCEPT ![a] = IF a \in setting.told THEN "pinging" ELSE "idle"]
      /\ smooth' = smooth \cup ({a} \cap setting.told)
      /\ UNCHANGED <<table, list, setting, faults>>
  BY DEF J!StartNode, J!NowPhase
<1>2. J!JoinTypeOK /\ J!Calls(a) /\ phase \in [Nodes -> J!Phases]
  BY DEF J!JoinInv, J!JoinTypeOK
<1>3. \A q \in pings : /\ q \in J!Packet /\ q.kind = "ping" /\ q.from = a /\ q.to = Seed
                       /\ \A r \in pings : r = q
  BY SentFacts DEF J!Kinds, J!Requests
<1>4. \A q \in J!Beacons(a) \cup pings : q.awaited => q \in pings
  BY <1>2, BeaconFacts
<1> HIDE DEF pings
<1>5. \A n, m \in Nodes :
         /\ n # a => J!Exchange(n, m)' \subseteq J!Exchange(n, m)
         /\ \A q \in J!Exchange(n, m)' :
              q \in J!Exchange(n, m) \/ (q \in pings /\ q.to = m)
  <2> DEFINE new == J!Beacons(a) \cup pings
  <2>1. wire' \subseteq wire \cup new
    BY <1>1
  <2>2. \A q \in new : q.awaited => q.kind \in J!Requests /\ q.from = a /\ q \in pings
    BY <1>3, <1>4 DEF J!Requests
  <2> HIDE DEF new
  <2>3. \A n, m \in Nodes :
           /\ n # a => J!Exchange(n, m)' \subseteq J!Exchange(n, m)
           /\ \A q \in J!Exchange(n, m)' :
                q \in J!Exchange(n, m) \/ (q \in new /\ q.awaited /\ q.to = m)
    BY <2>1, <2>2, NewRequests
  <2> QED
    BY <2>2, <2>3
<1>6. \A m \in Nodes : J!Exchange(a, m) = {}
  BY <1>1, <1>2, NoCalls DEF J!Looking
<1>7. Grown /\ \A n \in Nodes \ {a} : Undisturbed(n) /\ (n \in smooth' => n \in smooth)
  BY <1>1, <1>2, <1>5 DEF Grown, Undisturbed
<1>8. DOMAIN list'[a] = {}
  BY <1>1, <1>2 DEF J!Calls, J!Looking
<1>9. \A m \in Nodes : \A q \in J!Exchange(a, m)' : q \in pings /\ m = Seed
  BY <1>3, <1>5, <1>6
<1>10. pings # {} => phase'[a] = "pinging"
  BY <1>1, <1>2 DEF pings
<1>11. J!Calls(a)'
  BY <1>3, <1>8, <1>9, <1>10 DEF J!Calls
<1>12. a \in smooth' => phase'[a] = "pinging"
  BY <1>1, <1>2 DEF J!JoinInv, J!Introduced
<1>13. a \in smooth' => /\ J!Introduced(a)' /\ ~J!Served(a)'
                       /\ \A m : ~J!Answered(a, m)'
  BY <1>3, <1>9, <1>12, JoinConstants
  DEF J!Introduced, J!Served, J!Settled, J!Answered, J!Requests
<1> QED
  BY <1>7, <1>11, <1>13, StepKeeps DEF Orderly

\* A lookup that begins has asked nobody yet.
LEMMA BeginKeeps ==
  ASSUME J!JoinInv, J!JoinTypeOK', NEW a \in Nodes,
         J!BootstrapLookup(a) \/ J!Refresh(a)
  PROVE  J!JoinInv'
<1>1. PICK s \in {"joining", "refreshing"} :
        /\ s = "joining" => phase[a] = "pinged"
        /\ s = "refreshing" => phase[a] = "idle"
        /\ phase' = [phase EXCEPT ![a] = IF table[a] = {} THEN "idle" ELSE s]
        /\ list' = [list EXCEPT ![a] = J!Short!NewShortlist(table[a])]
        /\ UNCHANGED <<table, wire, setting, smooth, faults>>
  BY DEF J!BootstrapLookup, J!Refresh, J!BeginLookup, J!NowPhase, J!NowList, J!Quiet, J!Up
<1>2. /\ J!JoinTypeOK /\ J!Calls(a)
      /\ phase \in [Nodes -> J!Phases] /\ list \in [Nodes -> J!Short!Shortlists]
      /\ table[a] \in SUBSET Nodes
  BY DEF J!JoinInv, J!JoinTypeOK
<1>3. /\ DOMAIN list'[a] = table[a]
      /\ \A c \in table[a] : list'[a][c] = "new"
  BY <1>1, <1>2, NewList
<1>4. \A n, m \in Nodes : J!Exchange(n, m)' = J!Exchange(n, m)
  BY <1>1 DEF J!Exchange
<1>5. \A m \in Nodes : J!Exchange(a, m) = {}
  BY <1>1, <1>2, NoCalls DEF J!Looking
<1>6. Grown /\ \A n \in Nodes \ {a} : Undisturbed(n) /\ (n \in smooth' => n \in smooth)
  BY <1>1, <1>2, <1>4 DEF Grown, Undisturbed
<1>7. J!Calls(a)'
  BY <1>1, <1>2, <1>3, <1>4, <1>5 DEF J!Calls, J!Looking
<1>8. ASSUME a \in smooth
      PROVE  /\ J!Introduced(a)' /\ (J!Served(a)' => Faithful(a))
             /\ \A m \in Nodes : ~J!Answered(a, m)'
  <2>1. a \in table[Seed] /\ Seed \in table[a]
    BY <1>1, <1>8 DEF J!JoinInv, J!Introduced
  <2>2. J!Introduced(a)'
    BY <1>1, <1>2, <1>3, <1>4, <1>5, <2>1, JoinConstants
    DEF J!Introduced, J!Short!WithStatus
  <2>5. \A m \in Nodes : ~J!Answered(a, m)'
    BY <1>3, <1>4, <1>5 DEF J!Answered, J!Short!WithStatus
  <2>3. CASE s = "joining"
    <3>1. phase'[a] = "joining"
      BY <1>1, <1>2, <2>1, <2>3
    <3>2. J!ToldBySeed(a)' = {}
      BY <1>4, <1>5, JoinConstants DEF J!ToldBySeed
    <3>3. Seed \notin J!Short!WithStatus(list'[a], "responded")
      BY <1>3 DEF J!Short!WithStatus
    <3>4. ~J!Served(a)'
      BY <3>1, <3>2, <3>3 DEF J!Served, J!Settled
    <3> QED
      BY <2>2, <2>5, <3>4
  <2>4. CASE s = "refreshing"
    <3>1. phase[a] = "idle"
      BY <1>1, <2>4
    <3>2. Faithful(a)
      BY <1>1, <1>8, <3>1
      DEF Faithful, J!Served, J!Settled, J!Meets, J!Recalls, J!Hears
    <3> QED
      BY <2>2, <2>5, <3>2
  <2> QED
    BY <2>3, <2>4
<1> QED
  BY <1>1, <1>6, <1>7, <1>8, StepKeeps DEF Orderly, J!JoinTypeOK

\* A round: the contacts marked querying are the ones sent a FIND_NODE.
LEMMA RoundKeeps ==
  ASSUME J!JoinInv, J!JoinTypeOK', NEW a \in Nodes, J!StartRound(a)
  PROVE  J!JoinInv'
<1>1. PICK S \in SUBSET J!Unasked(a) :
        /\ J!Looking(a) /\ J!Querying(a) = {}
        /\ list' = [list EXCEPT ![a] = J!Short!Mark(list[a], S, "querying")]
        /\ wire' = wire \cup J!Sent("find", a, S)
        /\ UNCHANGED <<table, phase, setting, smooth, faults>>
  BY DEF J!StartRound, J!NowList, J!kSubset
<1>2. /\ J!JoinTypeOK /\ J!Calls(a)
      /\ phase \in [Nodes -> J!Phases] /\ list \in [Nodes -> J!Short!Shortlists]
  BY DEF J!JoinInv, J!JoinTypeOK
<1>3. /\ DOMAIN list'[a] = DOMAIN list[a]
      /\ \A c \in DOMAIN list[a] : list'[a][c] = IF c \in S THEN "querying" ELSE list[a][c]
      /\ S \subseteq DOMAIN list[a] /\ \A c \in S : list[a][c] = "new"
  BY <1>1, <1>2, MarkedList DEF J!Short!contactStatus, J!Unasked, J!Short!WithStatus
<1>4. \A q \in J!Sent("find", a, S) :
         q.kind = "find" /\ q.from = a /\ q.to \in S
         /\ \A r \in J!Sent("find", a, S) : r.to = q.to => r = q
  BY SentFacts DEF J!Kinds, J!Requests
<1>5. \A n, m \in Nodes :
         /\ n # a => J!Exchange(n, m)' \subseteq J!Exchange(n, m)
         /\ \A q \in J!Exchange(n, m)' :
              q \in J!Exchange(n, m) \/ (q \in J!Sent("find", a, S) /\ q.to = m)
  <2> DEFINE new == J!Sent("find", a, S)
  <2>1. \A q \in new : q.awaited => q.kind \in J!Requests /\ q.from = a
    BY <1>4 DEF J!Requests
  <2>2. wire' \subseteq wire \cup new
    BY <1>1
  <2> HIDE DEF new
  <2> QED
    BY <2>1, <2>2, NewRequests DEF new
<1>6. \A m \in Nodes : J!Exchange(a, m) = {}
  BY <1>1, <1>2, NoCalls DEF J!Looking
<1>7. \A m \in Nodes : \A q \in J!Exchange(a, m)' :
         q \in J!Sent("find", a, S) /\ q.to = m /\ q.kind = "find" /\ m \in S
  BY <1>4, <1>5, <1>6
<1>8. Grown /\ \A n \in Nodes \ {a} : Undisturbed(n) /\ (n \in smooth' => n \in smooth)
  BY <1>1, <1>2, <1>5 DEF Grown, Undisturbed
<1>9. J!Calls(a)'
  <2>1. J!Looking(a)'
    BY <1>1 DEF J!Looking
  <2>2. \A m \in S : m \in J!Querying(a)'
    BY <1>3 DEF J!Querying, J!Short!WithStatus
  <2>3. \A m \in Nodes : \A p, q \in J!Exchange(a, m)' : p = q
    BY <1>4, <1>7
  <2> QED
    BY <1>7, <2>1, <2>2, <2>3 DEF J!Calls
<1>10. ASSUME a \in smooth
       PROVE  /\ J!Introduced(a)' /\ (J!Served(a)' => Faithful(a))
              /\ \A m \in Nodes : J!Answered(a, m)' => J!Answered(a, m)
  <2>1. /\ J!Short!WithStatus(list'[a], "failed") = J!Short!WithStatus(list[a], "failed")
        /\ J!Short!WithStatus(list'[a], "responded")
             = J!Short!WithStatus(list[a], "responded")
    BY <1>3 DEF J!Short!WithStatus
  <2>2. J!Introduced(a)'
    BY <1>1, <1>3, <1>7, <1>10, <2>1, JoinConstants DEF J!JoinInv, J!Introduced, J!Requests
  <2>3. J!ToldBySeed(a)' = {} /\ J!ToldBySeed(a) = {}
    BY <1>6, <1>7, JoinConstants DEF J!ToldBySeed
  <2>4. J!Served(a)' => J!Served(a)
    BY <1>1, <2>1, <2>3 DEF J!Served, J!Settled
  <2>5. \A m : (J!Meets(a, m) => J!Meets(a, m)') /\ (J!Recalls(a, m) => J!Recalls(a, m)')
    BY <1>1, <1>3, <2>3 DEF J!Meets, J!Recalls, J!Hears
  <2>6. \A m \in Nodes : J!Answered(a, m)' => J!Answered(a, m)
    BY <1>1, <1>7, <2>1 DEF J!Answered, J!Requests
  <2> QED
    BY <1>10, <2>2, <2>4, <2>5, <2>6 DEF Faithful
<1> QED
  BY <1>1, <1>8, <1>9, <1>10, StepKeeps DEF Orderly, J!JoinTypeOK

\* Who ends a lookup of the bootstrap has heard from everyone on its list.
LEMMA EndKeeps ==
  ASSUME J!JoinInv, J!JoinTypeOK', NEW a \in Nodes, J!EndLookup(a)
  PROVE  J!JoinInv'
<1>1. /\ J!Looking(a) /\ J!Short!IsFinished(list[a])
      /\ phase' = [phase EXCEPT ![a] = "idle"]
      /\ list' = [list EXCEPT ![a] = J!Short!NewShortlist({})]
      /\ UNCHANGED <<table, wire, setting, smooth, faults>>
  BY DEF J!EndLookup, J!NowPhase, J!NowList
<1>2. /\ J!JoinTypeOK /\ J!Calls(a)
      /\ phase \in [Nodes -> J!Phases] /\ list \in [Nodes -> J!Short!Shortlists]
  BY DEF J!JoinInv, J!JoinTypeOK
<1>3. DOMAIN list'[a] = {} /\ phase'[a] = "idle"
  BY <1>1, <1>2, NewList
<1>4. \A n, m \in Nodes : J!Exchange(n, m)' = J!Exchange(n, m)
  BY <1>1 DEF J!Exchange
<1>5. \A m \in Nodes : J!Exchange(a, m) = {}
  BY <1>1, <1>2, NoCalls DEF J!Looking, J!Short!IsFinished, J!Querying
<1>6. Grown /\ \A n \in Nodes \ {a} : Undisturbed(n) /\ (n \in smooth' => n \in smooth)
  BY <1>1, <1>2, <1>4 DEF Grown, Undisturbed
<1>7. J!Calls(a)'
  BY <1>3, <1>4, <1>5 DEF J!Calls
<1>8. ASSUME a \in smooth PROVE J!Introduced(a)' /\ Faithful(a)
  <2>0. J!Introduced(a)
    BY <1>8 DEF J!JoinInv
  <2>1. J!Introduced(a)'
    BY <1>1, <1>3, <1>4, <1>5, <2>0, JoinConstants DEF J!Introduced, J!Looking
  <2>2. ASSUME phase[a] = "joining", NEW c \in DOMAIN list[a]
        PROVE  c \in J!Short!WithStatus(list[a], "responded")
    <3>1. list[a][c] \in J!Short!contactStatus
      BY <1>2, ListType
    <3>2. list[a][c] \notin {"new", "querying", "failed"}
      BY <1>1, <2>0, <2>2 DEF J!Introduced, J!Short!IsFinished, J!Short!WithStatus
    <3> QED
      BY <3>1, <3>2 DEF J!Short!contactStatus, J!Short!WithStatus
  <2>3. J!Served(a)
    BY <1>1, <2>0, <2>2 DEF J!Looking, J!Introduced, J!Served, J!Settled
  <2>4. J!ToldBySeed(a) = {}
    BY <1>5, JoinConstants DEF J!ToldBySeed
  <2>5. ASSUME NEW m \in smooth \ {a}, J!Hears(a, m)
        PROVE  m \in table[a] /\ J!Answered(a, m)
    BY <2>0, <2>2, <2>4, <2>5 DEF J!Introduced, J!Hears, J!Answered
  <2>6. \A m \in smooth \ {a} : J!Recalls(a, m) => J!Recalls(a, m)'
    BY <1>1, <2>5 DEF J!Recalls
  <2>7. ASSUME NEW m \in smooth \ {a}, J!Meets(a, m), J!Served(m)'
        PROVE  J!Meets(a, m)' \/ J!Meets(m, a)'
    <3>1. CASE m \in table[a] /\ a \in table[m]
      BY <1>1, <3>1 DEF J!Meets
    <3>2. CASE J!Hears(a, m)
      \* m has answered: it knows this node, or is new and hears of it
      <4>1. m \in Nodes /\ m \in smooth' /\ Undisturbed(m) /\ J!Calls(m)
        BY <1>1, <1>2, <1>6, <2>7 DEF J!JoinInv, J!JoinTypeOK
      <4>2. J!Served(m)
        BY <1>6, <2>7, <4>1, AloneServed
      <4>3. m \in table[a] /\ J!Recalls(m, a)
        BY <1>8, <2>5, <2>7, <3>2, <4>2 DEF J!JoinInv
      <4>4. a \in table[m] => J!Meets(a, m)'
        BY <1>1, <4>3 DEF J!Meets
      <4>5. J!Hears(m, a) => J!Meets(m, a)'
        <5>1. phase'[m] = phase[m] /\ list'[m] = list[m]
          BY <4>1 DEF Undisturbed
        <5>2. J!ToldBySeed(m)' = J!ToldBySeed(m)
          BY <1>4, <4>1, JoinConstants DEF J!ToldBySeed
        <5> QED
          BY <5>1, <5>2 DEF J!Meets, J!Hears
      <4> QED
        BY <4>3, <4>4, <4>5 DEF J!Recalls
    <3> QED
      BY <2>7, <3>1, <3>2 DEF J!Meets
  <2> QED
    BY <1>1, <1>8, <2>1, <2>3, <2>6, <2>7 DEF Faithful
<1>9. \A m : ~J!Answered(a, m)'
  BY <1>3 DEF J!Answered
<1> QED
  BY <1>1, <1>6, <1>7, <1>8, <1>9, StepKeeps DEF Orderly

\* A packet lost, or one that nobody awaits, disturbs no node.
LEMMA NobodyKeeps ==
  ASSUME J!JoinInv, J!JoinTypeOK', Grown, UNCHANGED <<phase, list, smooth>>,
         \A q \in wire' : q.awaited => q \in wire
  PROVE  J!JoinInv'
<1>1. \A n \in Nodes : Undisturbed(n)
  BY DEF Undisturbed, J!Exchange
<1> QED
  BY <1>1, JoinConstants, UndisturbedOrderly, StepKeeps

\* A datagram is lost.
LEMMA LoseKeeps ==
  ASSUME J!JoinInv, J!JoinTypeOK', NEW p \in wire, J!LosePacket(p)
  PROVE  J!JoinInv'
BY NobodyKeeps DEF J!LosePacket, Grown

\* A beacon is sent.
LEMMA BeaconKeeps ==
  ASSUME J!JoinInv, J!JoinTypeOK', NEW n \in Nodes, J!SendBeacon(n)
  PROVE  J!JoinInv'
BY NobodyKeeps, BeaconFacts DEF J!SendBeacon, Grown, J!JoinInv

\* After a timeout no datagram of the call is awaited.
LEMMA GivesUpFacts ==
  ASSUME J!JoinInv, NEW a \in Nodes, NEW m \in Nodes, J!GivesUp(a, m)
  PROVE  \A n, k \in Nodes :
           /\ J!Exchange(n, k)' \subseteq J!Exchange(n, k)
           /\ n = a /\ k = m => J!Exchange(n, k)' = {}
<1>1. \A p \in J!Packet : ~[p EXCEPT !.awaited = FALSE].awaited
  BY DEF J!Packet
<1>2. J!Exchange(a, m) \subseteq J!Packet
  BY DEF J!Exchange, J!JoinInv, J!JoinTypeOK
<1>3. \A q \in wire' : q.awaited => q \in wire \ J!Exchange(a, m)
  BY <1>1, <1>2 DEF J!GivesUp, J!NoLonger
<1> QED
  BY <1>3 DEF J!Exchange

\* The bootstrap gives up its PING.
LEMMA PingTimeoutKeeps ==
  ASSUME J!JoinInv, J!JoinTypeOK', NEW a \in Nodes, J!PingTimeout(a)
  PROVE  J!JoinInv'
<1>1. /\ phase[a] = "pinging" /\ phase' = [phase EXCEPT ![a] = "idle"]
      /\ list' = list /\ table' = table /\ smooth' = smooth \ {a}
  BY DEF J!PingTimeout, J!GivesUp, J!NowPhase
<1>2. phase \in [Nodes -> J!Phases] /\ J!Calls(a)
  BY DEF J!JoinInv, J!JoinTypeOK
<1>3. \A n, k \in Nodes :
         /\ J!Exchange(n, k)' \subseteq J!Exchange(n, k)
         /\ n = a /\ k = Seed => J!Exchange(n, k)' = {}
  BY JoinConstants, GivesUpFacts DEF J!PingTimeout
<1>4. Grown /\ \A n \in Nodes \ {a} : Undisturbed(n) /\ (n \in smooth' => n \in smooth)
  BY <1>1, <1>2, <1>3 DEF Grown, Undisturbed
<1>5. \A k \in Nodes : J!Exchange(a, k)' = {}
  BY <1>1, <1>2, <1>3 DEF J!Calls, J!Looking
<1>6. J!Calls(a)'
  BY <1>1, <1>2, <1>5 DEF J!Calls, J!Looking
<1> QED
  BY <1>1, <1>4, <1>6, StepKeeps DEF Orderly

\* A lookup gives up a query.
LEMMA QueryTimeoutKeeps ==
  ASSUME J!JoinInv, J!JoinTypeOK', NEW a \in Nodes, NEW m \in Nodes,
         J!QueryTimeout(a, m)
  PROVE  J!JoinInv'
<1>1. /\ m \in J!Querying(a) /\ list' = [list EXCEPT ![a] = J!Short!MarkFailed(list[a], m)]
      /\ UNCHANGED <<phase, table>>
      /\ smooth' = IF phase[a] = "refreshing" THEN smooth ELSE smooth \ {a}
  BY DEF J!QueryTimeout, J!GivesUp, J!NowList
<1>2. phase \in [Nodes -> J!Phases] /\ list \in [Nodes -> J!Short!Shortlists] /\ J!Calls(a)
  BY DEF J!JoinInv, J!JoinTypeOK
<1>3. \A n, k \in Nodes :
         /\ J!Exchange(n, k)' \subseteq J!Exchange(n, k)
         /\ n = a /\ k = m => J!Exchange(n, k)' = {}
  BY GivesUpFacts DEF J!QueryTimeout
<1>4. /\ DOMAIN list'[a] = DOMAIN list[a]
      /\ \A c \in DOMAIN list[a] : c # m => list'[a][c] = list[a][c]
  BY <1>1, <1>2, MarkedList DEF J!Short!MarkFailed, J!Short!contactStatus
<1>5. Grown /\ \A n \in Nodes \ {a} : Undisturbed(n) /\ (n \in smooth' => n \in smooth)
  BY <1>1, <1>2, <1>3 DEF Grown, Undisturbed
<1>6. J!Looking(a)
  BY <1>1, <1>2 DEF J!Calls, J!Querying, J!Short!WithStatus
<1>7. J!Calls(a)'
  <2>1. \A k \in J!Querying(a) \ {m} : k \in J!Querying(a)'
    BY <1>4 DEF J!Querying, J!Short!WithStatus
  <2>2. J!Looking(a)' /\ phase'[a] # "pinging" /\ phase[a] # "pinging"
    BY <1>1, <1>6 DEF J!Looking
  <2>3. \A k \in Nodes : \A p, q \in J!Exchange(a, k)' :
          p = q /\ p.kind \in {"find", "found"} /\ k \in J!Querying(a) \ {m}
    BY <1>2, <1>3, <2>2 DEF J!Calls
  <2> QED
    BY <2>1, <2>2, <2>3 DEF J!Calls
<1>8. ASSUME a \in smooth'
      PROVE  J!Introduced(a)' /\ Faithful(a) /\ \A k : ~J!Answered(a, k)'
  <2>1. phase[a] = "refreshing" /\ a \in smooth /\ J!Introduced(a)
    BY <1>1, <1>8 DEF J!JoinInv
  <2>2. J!Introduced(a)'
    BY <1>1, <1>3, <2>1, JoinConstants DEF J!Introduced
  <2> QED
    BY <1>1, <2>1, <2>2
    DEF Faithful, J!Served, J!Settled, J!Meets, J!Recalls, J!Hears, J!Answered
<1> QED
  BY <1>1, <1>5, <1>7, <1>8, StepKeeps DEF Orderly

\* A crash ends the claim about the node; that of the seed, about everyone.
LEMMA CrashKeeps ==
  ASSUME J!JoinInv, J!JoinTypeOK', NEW a \in Nodes, J!CrashNode(a)
  PROVE  J!JoinInv'
<1>1. /\ phase' = [phase EXCEPT ![a] = "down"]
      /\ smooth' = IF a = Seed THEN {} ELSE smooth \ {a}
      /\ table' = [table EXCEPT ![a] = {}]
      /\ list' = [list EXCEPT ![a] = J!Short!NewShortlist({})]
      /\ wire' = {[p EXCEPT !.awaited = p.awaited
                                        /\ ~(p.from = a /\ p.kind \in J!Requests)] :
                    p \in {q \in wire : q.to # a}}
  BY DEF J!CrashNode, J!NowPhase, J!NowList
<1>2. /\ phase \in [Nodes -> J!Phases] /\ list \in [Nodes -> J!Short!Shortlists]
      /\ wire \subseteq J!Packet
  BY DEF J!JoinInv, J!JoinTypeOK
<1>3. ASSUME NEW q \in wire', q.awaited
      PROVE  q \in wire /\ q.to # a /\ ~(q.from = a /\ q.kind \in J!Requests)
  <2>1. PICK p \in wire :
          /\ p.to # a
          /\ q = [p EXCEPT !.awaited = p.awaited
                                       /\ ~(p.from = a /\ p.kind \in J!Requests)]
    BY <1>1
  <2>2. p \in J!Packet
    BY <1>2
  <2>3. p.awaited /\ ~(p.from = a /\ p.kind \in J!Requests)
    BY <1>3, <2>1, <2>2 DEF J!Packet
  <2>4. q = [p EXCEPT !.awaited = TRUE] /\ p.awaited = TRUE
    BY <2>1, <2>2, <2>3 DEF J!Packet
  <2>5. q = p
    BY <2>2, <2>4 DEF J!Packet
  <2> QED
    BY <2>1, <2>3, <2>5
<1>4. \A n, m \in Nodes : J!Exchange(n, m)' \subseteq J!Exchange(n, m)
  BY <1>3 DEF J!Exchange
<1>5. \A m \in Nodes : J!Exchange(a, m)' = {}
  BY <1>3 DEF J!Exchange
<1>6. \A n \in Nodes \ {a} : Undisturbed(n) /\ (n \in smooth' => n \in smooth)
  BY <1>1, <1>2, <1>4 DEF Undisturbed
<1>7. J!Calls(a)'
  BY <1>1, <1>2, <1>5, NewList DEF J!Calls
<1>8. CASE a = Seed
  <2>1. \A n \in Nodes \ {a} : J!Calls(n)'
    BY <1>6, UndisturbedCalls DEF J!JoinInv
  <2> QED
    BY <1>1, <1>7, <1>8, <2>1 DEF J!JoinInv
<1>9. CASE a # Seed
  <2>1. a \notin smooth' /\ smooth' \subseteq Nodes /\ Seed \in Nodes
    BY <1>1, <1>9, JoinConstants DEF J!JoinTypeOK
  <2>2. Grown
    BY <1>1, <1>9, <2>1 DEF Grown, J!JoinInv, J!JoinTypeOK
  <2> QED
    BY <1>6, <1>7, <2>1, <2>2, StepKeeps DEF Orderly
<1> QED
  BY <1>8, <1>9

\* HandleMessage has the sender in the table, whatever it does then.
LEMMA ReceiveFacts ==
  ASSUME J!JoinInv, J!JoinTypeOK', NEW p \in wire, J!ReceivePacket(p)
  PROVE  /\ p \in J!Packet /\ p.from \in Nodes /\ p.to \in Nodes
         /\ Grown /\ UNCHANGED <<setting, smooth, faults>>
         /\ p.from # p.to => p.from \in table'[p.to]
         /\ wire' = (wire \ {p}) \cup J!Reply(p)
<1>1. /\ p \in J!Packet /\ p.from \in Nodes /\ p.to \in Nodes
      /\ table[p.to] \subseteq J!Learned(p)
      /\ p.from # p.to => p.from \in J!Learned(p)
  BY LearnedFacts DEF J!JoinInv
<1>2. /\ table' = [table EXCEPT ![p.to] = J!Learned(p)]
      /\ wire' = (wire \ {p}) \cup J!Reply(p) /\ UNCHANGED <<setting, smooth, faults>>
  BY DEF J!ReceivePacket
<1>3. table \in [Nodes -> SUBSET Nodes]
  BY DEF J!JoinInv, J!JoinTypeOK
<1>4. \A n \in Nodes : table[n] \subseteq table'[n]
  BY <1>1, <1>2, <1>3
<1>5. Grown
  BY <1>4, JoinConstants DEF Grown, J!JoinTypeOK
<1> QED
  BY <1>1, <1>2, <1>3, <1>4, <1>5

\* A request is answered: the exchange goes on with the answer.
LEMMA RequestKeeps ==
  ASSUME J!JoinInv, J!JoinTypeOK', NEW p \in wire, J!ReceivePacket(p),
         p.awaited, p.kind \in J!Requests
  PROVE  J!JoinInv'
<1> DEFINE a == p.from
           b == p.to
<1>1. /\ p \in J!Packet /\ a \in Nodes /\ b \in Nodes
      /\ Grown /\ UNCHANGED smooth
      /\ a # b => a \in table'[b]
      /\ wire' = (wire \ {p}) \cup J!Reply(p)
  BY ReceiveFacts
<1>2. UNCHANGED <<phase, list>>
  BY DEF J!ReceivePacket, J!Requests
<1>3. J!JoinTypeOK /\ J!Calls(a)
  BY <1>1 DEF J!JoinInv
<1>4. \A r \in J!Reply(p) :
         /\ r.from = b /\ r.to = a /\ r.kind \notin J!Requests
         /\ p.kind = "ping" => r.kind = "pong"
         /\ p.kind = "find" => r.kind = "found" /\ r.contacts = J!Learned(p)
         /\ \A q \in J!Reply(p) : q = r
  BY <1>3, ReplyFacts DEF J!Requests, J!Reply
<1>5. p \in J!Exchange(a, b)
  BY DEF J!Exchange
<1>6. \A n, m \in Nodes : \A q \in J!Exchange(n, m)' :
         \/ q \in J!Exchange(n, m) /\ q # p
         \/ q \in J!Reply(p) /\ n = a /\ m = b
  BY <1>1, <1>4 DEF J!Exchange
<1>7. \A n, m \in Nodes : \A q \in J!Exchange(n, m) \ {p} : q \in J!Exchange(n, m)'
  BY <1>1 DEF J!Exchange
<1> HIDE DEF a, b
<1>8. \A n \in Nodes \ {a} : Undisturbed(n) /\ (n \in smooth' => n \in smooth)
  BY <1>1, <1>2, <1>6 DEF Undisturbed
<1>9. \A q \in J!Exchange(a, b)' : q \in J!Reply(p)
  BY <1>1, <1>3, <1>5, <1>6 DEF J!Calls
<1>10. J!Calls(a)'
  <2>1. \A m \in Nodes : \A q, r \in J!Exchange(a, m)' : q = r
    BY <1>1, <1>3, <1>4, <1>6, <1>9 DEF J!Calls
  <2>2. \/ p.kind = "ping" /\ b = Seed /\ phase[a] = "pinging"
        \/ p.kind = "find" /\ J!Looking(a) /\ b \in J!Querying(a)
    BY <1>1, <1>3, <1>5 DEF J!Calls, J!Requests
  <2>3. \A m \in Nodes : \A q \in J!Exchange(a, m)' :
          \/ q.kind \in {"ping", "pong"} /\ m = Seed /\ phase[a] = "pinging"
          \/ q.kind \in {"find", "found"} /\ J!Looking(a) /\ m \in J!Querying(a)
    BY <1>1, <1>3, <1>4, <1>6, <2>2 DEF J!Calls
  <2>4. ~J!Looking(a) => DOMAIN list[a] = {}
    BY <1>3 DEF J!Calls
  <2> QED
    BY <1>2, <2>1, <2>3, <2>4 DEF J!Calls, J!Looking, J!Querying
<1>11. ASSUME a \in smooth PROVE J!Introduced(a)'
  <2>1. J!Introduced(a) /\ a # Seed
    BY <1>3, <1>11 DEF J!JoinInv, J!JoinTypeOK
  <2>2. table[a] \subseteq table'[a] /\ table[Seed] \subseteq table'[Seed]
    BY <1>1, <1>11 DEF Grown
  <2>3. \A q \in J!Exchange(a, Seed)' : q.kind \notin J!Requests => a \in table'[Seed]
    BY <1>1, <1>6, <2>1, <2>2, JoinConstants DEF J!Introduced
  <2> QED
    BY <1>2, <2>1, <2>2, <2>3 DEF J!Introduced
<1>12. ASSUME a \in smooth, J!Served(a)' PROVE Faithful(a) \/ ToldOfAll(a)
  <2>1. CASE p.kind = "find" /\ b = Seed /\ phase[a] = "joining"
    \* the answer of the seed has everyone it has served
    <3>1. ASSUME NEW m \in smooth \ {a}, phase[m] # "pinging" PROVE J!Hears(a, m)'
      <4>1. m \in Nodes /\ J!Introduced(m)
        BY <1>3, <3>1 DEF J!JoinInv, J!JoinTypeOK
      <4>3. m \in J!Learned(p)
        BY <2>1, <3>1, <4>1, LearnedFacts, <1>3 DEF J!Introduced, b
      <4>4. PICK r \in J!Reply(p) : r.kind = "found" /\ r.contacts = J!Learned(p)
                                    /\ r \in J!Exchange(a, Seed)'
        <5>1. J!Reply(p) = {J!Answer(p, "found", J!Learned(p))}
          BY <2>1 DEF J!Reply
        <5>2. J!Answer(p, "found", J!Learned(p)) \in J!Exchange(a, Seed)'
          BY <1>1, <2>1, <5>1 DEF J!Exchange, J!Answer, J!Requests, a, b
        <5> QED
          BY <5>1, <5>2 DEF J!Answer
      <4>5. m \in UNION J!ToldBySeed(a)'
        BY <4>3, <4>4 DEF J!ToldBySeed
      <4> QED
        BY <1>2, <2>1, <4>5 DEF J!Hears
    <3> QED
      BY <1>1, <1>2, <3>1 DEF ToldOfAll
  <2>2. CASE phase[a] # "joining"
    BY <1>1, <1>2, <1>12, <2>2
    DEF Faithful, J!Served, J!Settled, J!Meets, J!Recalls, J!Hears, Grown
  <2>3. CASE phase[a] = "joining" /\ ~(p.kind = "find" /\ b = Seed)
    <3>1. p.kind = "find" => b # Seed
      BY <2>3
    <3>2. \A q \in J!Exchange(a, Seed)' :
             q.kind = "found" => q \in J!Exchange(a, Seed)
      BY <1>1, <1>4, <1>6, <3>1, JoinConstants DEF J!Requests
    <3>3. \A q \in J!Exchange(a, Seed) :
             q.kind = "found" => q \in J!Exchange(a, Seed)'
      BY <1>1, <1>7, JoinConstants DEF J!Requests
    <3>4. J!ToldBySeed(a)' = J!ToldBySeed(a)
      BY <3>2, <3>3 DEF J!ToldBySeed
    <3>5. J!Served(a)
      BY <1>2, <1>12, <3>4 DEF J!Served, J!Settled
    <3>6. \A m \in smooth \ {a} : /\ J!Meets(a, m) => J!Meets(a, m)'
                                  /\ J!Recalls(a, m) => J!Recalls(a, m)'
      BY <1>1, <1>2, <1>12, <3>4 DEF J!Meets, J!Recalls, J!Hears, Grown
    <3> QED
      BY <1>1, <1>12, <3>5, <3>6 DEF Faithful
  <2> QED
    BY <2>1, <2>2, <2>3
<1>13. ASSUME NEW m \in smooth \ {a}, J!Answered(a, m)'
       PROVE  a \in table'[m] \/ J!Answered(a, m)
  <2>1. m \in Nodes
    BY <1>3, <1>13 DEF J!JoinTypeOK
  <2>2. CASE m \in J!Short!WithStatus(list[a], "responded")
    BY <1>2, <1>13, <2>2 DEF J!Answered
  <2>3. ASSUME NEW q \in J!Exchange(a, m)', q.kind \notin J!Requests
        PROVE  a \in table'[m] \/ J!Answered(a, m)
    BY <1>1, <1>2, <1>6, <1>13, <2>1, <2>3 DEF J!Answered
  <2> QED
    BY <1>2, <1>13, <2>2, <2>3 DEF J!Answered
<1> QED
  BY <1>1, <1>8, <1>10, <1>11, <1>12, <1>13, StepKeeps DEF Orderly

\* The PING of a bootstrap is answered: by the seed, which has the sender.
LEMMA PongKeeps ==
  ASSUME J!JoinInv, J!JoinTypeOK', NEW p \in wire, J!ReceivePacket(p),
         p.awaited, p.kind = "pong"
  PROVE  J!JoinInv'
<1> DEFINE a == p.to
<1>1. /\ p \in J!Packet /\ a \in Nodes /\ p.from \in Nodes
      /\ Grown /\ UNCHANGED smooth
      /\ p.from # a => p.from \in table'[a]
      /\ wire' = wire \ {p}
  BY ReceiveFacts DEF J!Reply
<1>2. phase' = [phase EXCEPT ![a] = "pinged"] /\ UNCHANGED list
  BY DEF J!ReceivePacket, J!NowPhase
<1>3. J!JoinTypeOK /\ J!Calls(a) /\ phase \in [Nodes -> J!Phases]
  BY <1>1 DEF J!JoinInv, J!JoinTypeOK
<1>4. p \in J!Exchange(a, p.from)
  BY DEF J!Exchange, J!Requests
<1>5. p.from = Seed /\ phase[a] = "pinging"
  BY <1>1, <1>3, <1>4 DEF J!Calls
<1>6. \A n, m \in Nodes : J!Exchange(n, m)' \subseteq J!Exchange(n, m) \ {p}
  BY <1>1 DEF J!Exchange
<1> HIDE DEF a
<1>7. \A n \in Nodes \ {a} : Undisturbed(n) /\ (n \in smooth' => n \in smooth)
  BY <1>1, <1>2, <1>3, <1>6 DEF Undisturbed
<1>8. \A m \in Nodes : J!Exchange(a, m)' = {}
  BY <1>1, <1>3, <1>4, <1>5, <1>6 DEF J!Calls, J!Looking
<1>9. J!Calls(a)'
  BY <1>1, <1>2, <1>3, <1>5, <1>8 DEF J!Calls, J!Looking
<1>10. ASSUME a \in smooth
       PROVE  J!Introduced(a)' /\ ~J!Served(a)' /\ \A m : ~J!Answered(a, m)'
  <2>1. a # Seed /\ J!Introduced(a)
    BY <1>3, <1>10 DEF J!JoinInv, J!JoinTypeOK
  <2>2. a \in table[Seed]
    BY <1>1, <1>4, <1>5, <2>1 DEF J!Introduced, J!Requests
  <2>3. a \in table'[Seed] /\ Seed \in table'[a]
    BY <1>1, <1>5, <2>1, <2>2 DEF Grown
  <2>4. phase'[a] = "pinged"
    BY <1>1, <1>2, <1>3
  <2> QED
    BY <1>8, <2>3, <2>4, JoinConstants DEF J!Introduced, J!Served, J!Settled, J!Answered
<1> QED
  BY <1>1, <1>7, <1>9, <1>10, StepKeeps DEF Orderly

\* The answer to a query comes from a node that has the sender, and puts who
\* it tells of on the list.
LEMMA FoundKeeps ==
  ASSUME J!JoinInv, J!JoinTypeOK', NEW p \in wire, J!ReceivePacket(p),
         p.awaited, p.kind = "found"
  PROVE  J!JoinInv'
<1> DEFINE a == p.to
           b == p.from
<1>1. /\ p \in J!Packet /\ a \in Nodes /\ b \in Nodes /\ p.contacts \in SUBSET Nodes
      /\ Grown /\ UNCHANGED smooth
      /\ b # a => b \in table'[a]
      /\ wire' = wire \ {p}
  BY ReceiveFacts DEF J!Reply, J!Packet
<1>2. /\ list' = [list EXCEPT ![a] = J!Short!MarkResponded(list[a], b, p.contacts)]
      /\ UNCHANGED phase
  BY DEF J!ReceivePacket, J!NowList
<1>3. /\ J!JoinTypeOK /\ J!Calls(a) /\ list \in [Nodes -> J!Short!Shortlists]
      /\ Seed \in Nodes
  BY <1>1, JoinConstants DEF J!JoinInv, J!JoinTypeOK
<1>4. p \in J!Exchange(a, b)
  BY DEF J!Exchange, J!Requests
<1>5. J!Looking(a) /\ b \in J!Querying(a)
  BY <1>1, <1>3, <1>4 DEF J!Calls
<1>6. \A n, m \in Nodes : J!Exchange(n, m)' = J!Exchange(n, m) \ {p}
  BY <1>1 DEF J!Exchange
<1>7. /\ DOMAIN list[a] \subseteq Nodes
      /\ DOMAIN list'[a] = DOMAIN list[a] \cup p.contacts
      /\ \A d \in DOMAIN list'[a] :
           list'[a][d] = IF d \notin DOMAIN list[a] THEN "new"
                         ELSE IF d = b THEN "responded" ELSE list[a][d]
  <2> DEFINE old == list[a]
             new == list'[a]
             told == p.contacts
  <2> HIDE DEF a, b
  <2>1. old \in J!Short!Shortlists /\ b \in Nodes /\ told \in SUBSET Nodes
    BY <1>1, <1>3
  <2>2. new = J!Short!MarkResponded(old, b, told)
    BY <1>1, <1>2, <1>3
  <2> HIDE DEF old, new, told
  <2>3. DOMAIN old \subseteq Nodes
    BY <2>1, ListType
  <2>4. DOMAIN new = DOMAIN old \cup told
    BY <2>1, <2>2, RespondedDomain
  <2>5. ASSUME NEW d \in DOMAIN new
        PROVE  new[d] = IF d \notin DOMAIN old THEN "new"
                        ELSE IF d = b THEN "responded" ELSE old[d]
    BY <2>1, <2>2, <2>4, RespondedStatus
  <2> QED
    BY <2>3, <2>4, <2>5 DEF old, new, told
<1>8. p \in J!Exchange(a, Seed) => b = Seed
  BY DEF J!Exchange, J!Requests
<1> HIDE DEF a, b
<1>9. \A n \in Nodes \ {a} : Undisturbed(n) /\ (n \in smooth' => n \in smooth)
  BY <1>1, <1>2, <1>3, <1>6 DEF Undisturbed
<1>10. J!Calls(a)'
  <2>1. \A m \in J!Querying(a) \ {b} : m \in J!Querying(a)'
    BY <1>7 DEF J!Querying, J!Short!WithStatus
  <2>2. \A m \in Nodes : \A q, r \in J!Exchange(a, m)' :
          q = r /\ q.kind \in {"find", "found"} /\ m \in J!Querying(a) \ {b}
    BY <1>1, <1>3, <1>4, <1>5, <1>6 DEF J!Calls, J!Looking
  <2>3. J!Looking(a)'
    BY <1>2, <1>5 DEF J!Looking
  <2> QED
    BY <2>1, <2>2, <2>3 DEF J!Calls
<1>11. ASSUME a \in smooth PROVE J!Introduced(a)'
  <2>1. J!Introduced(a)
    BY <1>11 DEF J!JoinInv
  <2>2. table[a] \subseteq table'[a] /\ table[Seed] \subseteq table'[Seed]
    BY <1>1, <1>11 DEF Grown
  <2>3. \A q \in J!Exchange(a, Seed)' : q.kind \notin J!Requests => a \in table'[Seed]
    BY <1>1, <1>3, <1>6, <2>1, <2>2 DEF J!Introduced
  <2>4. /\ J!Short!WithStatus(list'[a], "failed") \subseteq J!Short!WithStatus(list[a], "failed")
        /\ J!Short!WithStatus(list'[a], "responded")
             \subseteq J!Short!WithStatus(list[a], "responded") \cup {b}
    BY <1>7 DEF J!Short!WithStatus
  <2>5. phase[a] = "joining" =>
          /\ Seed \in DOMAIN list'[a]
          /\ J!Short!WithStatus(list'[a], "failed") = {}
          /\ J!Short!WithStatus(list'[a], "responded") \ {a} \subseteq table'[a]
    BY <1>1, <1>7, <2>1, <2>2, <2>4 DEF J!Introduced
  <2> QED
    BY <1>2, <2>1, <2>2, <2>3, <2>5 DEF J!Introduced
<1>12. ASSUME a \in smooth, J!Served(a)' PROVE Faithful(a)
  <2>1. CASE phase[a] # "joining"
    BY <1>1, <1>2, <1>12, <2>1
    DEF Faithful, J!Served, J!Settled, J!Meets, J!Recalls, J!Hears, Grown
  <2>2. CASE phase[a] = "joining"
    <3>1. \A q \in J!Exchange(a, Seed) : q = p \/ q \in J!Exchange(a, Seed)'
      BY <1>1, <1>3, <1>6
    <3>2. b # Seed /\ Seed \in J!Short!WithStatus(list'[a], "responded")
            => Seed \in J!Short!WithStatus(list[a], "responded")
      BY <1>7 DEF J!Short!WithStatus
    <3>3. J!ToldBySeed(a)' \subseteq J!ToldBySeed(a)
      BY <1>1, <1>3, <1>6 DEF J!ToldBySeed
    <3>4. b = Seed => J!ToldBySeed(a) # {}
      BY <1>4 DEF J!ToldBySeed
    <3>5. J!Served(a)
      BY <1>2, <1>12, <2>2, <3>2, <3>3, <3>4 DEF J!Served, J!Settled
    <3>6. ASSUME NEW m, J!Hears(a, m) PROVE J!Hears(a, m)'
      <4>1. UNION J!ToldBySeed(a) \subseteq p.contacts \cup UNION J!ToldBySeed(a)'
        BY <3>1 DEF J!ToldBySeed
      <4> QED
        BY <1>2, <1>7, <3>6, <4>1 DEF J!Hears
    <3>7. \A m \in smooth \ {a} : /\ J!Meets(a, m) => J!Meets(a, m)'
                                  /\ J!Recalls(a, m) => J!Recalls(a, m)'
      BY <1>1, <1>12, <3>6 DEF J!Meets, J!Recalls, Grown
    <3> QED
      BY <1>1, <1>12, <3>5, <3>7 DEF Faithful
  <2> QED
    BY <2>1, <2>2
<1>13. ASSUME NEW m \in smooth, J!Answered(a, m)' PROVE J!Answered(a, m)
  <2>1. m \in Nodes
    BY <1>3, <1>13 DEF J!JoinTypeOK
  <2>2. CASE m \in J!Short!WithStatus(list'[a], "responded")
    <3>1. m = b \/ m \in J!Short!WithStatus(list[a], "responded")
      BY <1>7, <2>2 DEF J!Short!WithStatus
    <3> QED
      BY <1>2, <1>4, <1>13, <3>1 DEF J!Answered, J!Requests
  <2>3. CASE \E q \in J!Exchange(a, m)' : q.kind \notin J!Requests
    BY <1>1, <1>2, <1>6, <1>13, <2>1, <2>3 DEF J!Answered
  <2> QED
    BY <1>13, <2>2, <2>3 DEF J!Answered
<1> QED
  BY <1>1, <1>9, <1>10, <1>11, <1>12, <1>13, StepKeeps DEF Orderly

\* A datagram arrives: a request, an answer awaited, or one that is not.
LEMMA ReceiveKeeps ==
  ASSUME J!JoinInv, J!JoinTypeOK', NEW p \in wire, J!ReceivePacket(p)
  PROVE  J!JoinInv'
<1>1. /\ p \in J!Packet /\ p.from \in Nodes /\ p.to \in Nodes
      /\ Grown /\ UNCHANGED smooth /\ J!JoinTypeOK
      /\ wire' = (wire \ {p}) \cup J!Reply(p)
  BY ReceiveFacts DEF J!JoinInv
<1>2. CASE ~p.awaited
  <2>1. \A r \in J!Reply(p) : ~r.awaited
    BY <1>1, <1>2, ReplyFacts
  <2>2. UNCHANGED <<phase, list>>
    BY <1>2 DEF J!ReceivePacket
  <2> QED
    BY <1>1, <2>1, <2>2, NobodyKeeps
<1>3. CASE p.awaited
  <2>1. p \in J!Exchange(p.from, p.to) \/ p \in J!Exchange(p.to, p.from)
    BY <1>3 DEF J!Exchange
  <2>2. p.kind \in J!Requests \cup {"pong", "found"}
    BY <1>1, <2>1 DEF J!JoinInv, J!Calls, J!Requests
  <2> QED
    BY <1>3, <2>2, RequestKeeps, PongKeeps, FoundKeeps
<1> QED
  BY <1>2, <1>3

\* engine.go:691-703, commands.go:105-192, 448-517: for any number of nodes, at
\* most K, and any number of losses, late answers and crashes, two nodes that
\* have bootstrapped through one seed without a timeout know each other. Only a
\* crash of the seed ends this for others than the node that crashes.
THEOREM JoinersKnowEachOther == J!JoinSpec => []JoinersMeet
<1>1. J!JoinInit => J!JoinInv
  <2> SUFFICES ASSUME J!JoinInit PROVE J!JoinInv
    OBVIOUS
  <2>1. J!JoinTypeOK /\ smooth = {} /\ wire = {}
    BY JoinTypeInit DEF J!JoinInit
  <2>2. \A n \in Nodes : DOMAIN list[n] = {}
    BY NewList DEF J!JoinInit
  <2> QED
    BY <2>1, <2>2 DEF J!JoinInv, J!Calls, J!Exchange
<1>2. J!JoinInv /\ [J!JoinNext]_(J!joinVars) => J!JoinInv'
  <2> SUFFICES ASSUME J!JoinInv, [J!JoinNext]_(J!joinVars) PROVE J!JoinInv'
    OBVIOUS
  <2>1. CASE J!JoinNext
    <3>1. J!JoinTypeOK'
      BY <2>1, JoinTypeStep DEF J!JoinInv
    <3> QED
      BY <2>1, <3>1, StartKeeps, BeginKeeps, RoundKeeps, EndKeeps, LoseKeeps,
         BeaconKeeps, PingTimeoutKeeps, QueryTimeoutKeeps, CrashKeeps, ReceiveKeeps
      DEF J!JoinNext, J!JoinMoves
  <2>2. CASE UNCHANGED J!joinVars
    <3>1. J!JoinTypeOK' /\ Grown /\ UNCHANGED <<phase, list, smooth, wire>>
      BY <2>2 DEF J!joinVars, J!JoinInv, J!JoinTypeOK, Grown
    <3> QED
      BY <3>1, NobodyKeeps
  <2> QED
    BY <2>1, <2>2
<1>3. J!JoinInv => JoinersMeet
  <2> SUFFICES ASSUME J!JoinInv, NEW n \in smooth, NEW m \in smooth, n # m,
                      J!Settled(n), J!Settled(m)
               PROVE  m \in table[n]
    BY DEF JoinersMeet, J!JoinersMeet
  <2>1. J!Served(n) /\ J!Served(m)
    BY DEF J!Served
  <2>2. J!Meets(n, m) \/ J!Meets(m, n)
    BY <2>1 DEF J!JoinInv
  <2> QED
    BY <2>2 DEF J!Meets, J!Hears, J!Settled
<1> QED
  BY <1>1, <1>2, <1>3, PTL DEF J!JoinSpec
===============================================================================

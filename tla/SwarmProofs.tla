----------------------------- MODULE SwarmProofs -----------------------------
(***************************************************************************)
(* Proofs about Swarm, for any number of nodes and contents: its variables  *)
(* keep their types, work in progress of small contents that nothing        *)
(* removes stays where it was shared, and what is committed somewhere stays *)
(* committed there until it is removed. About Lifetimes, for any number of  *)
(* nodes and any periods: no copy outlives its last signature, and an       *)
(* expired chunk is gone soon unless a replication intervenes.              *)
(***************************************************************************)
EXTENDS Swarm, Lifetimes, FiniteSetTheorems, TLAPS

\* What a Store leaves under a key is a state again.
LEMMA WrittenState ==
  ASSUME NEW old \in ChunkState \cup {"none"}, NEW new \in ChunkState
  PROVE  /\ Written(old, new) \in ChunkState
         /\ Written(old, new) # "none"
         /\ Written(old, new) = "committed" =>
              old = "committed" \/ new = "committed"
BY DEF Written, ChunkState

\* The types of what a step reads, one by one.
LEMMA Typed ==
  ASSUME TypeOK
  PROVE  /\ \A n \in Nodes, k \in Ids : held[n][k] \in ChunkState \cup {"none"}
         /\ \A n, w \in Nodes : cur[n][w] \in Ids \cup {NoKey}
         /\ \A n \in Nodes : met[n] \subseteq Nodes /\ announced[n] \subseteq Nodes
         /\ \A msg \in net : msg.from \in Nodes /\ msg.to \in Nodes /\ msg.key \in Ids
BY DEF TypeOK, StoreMessage

LEMMA HearsType ==
  ASSUME TypeOK, NEW n \in Nodes, NEW m \in Nodes, Hears(n, m)
  PROVE  met' \in [Nodes -> SUBSET Nodes] /\ announced' \in [Nodes -> SUBSET Nodes]
<1>1. met[n] \cup {m} \in SUBSET Nodes /\ announced[n] \cup {m} \in SUBSET Nodes
  BY Typed
<1>2. met \in [Nodes -> SUBSET Nodes] /\ announced \in [Nodes -> SUBSET Nodes]
  BY DEF TypeOK
<1> QED
  BY <1>1, <1>2 DEF Hears

\* One store written at one node.
LEMMA HeldType ==
  ASSUME TypeOK, NEW n \in Nodes, NEW k \in Ids, NEW s \in ChunkState \cup {"none"}
  PROVE  [held EXCEPT ![n][k] = s] \in [Nodes -> [Ids -> ChunkState \cup {"none"}]]
<1>1. held \in [Nodes -> [Ids -> ChunkState \cup {"none"}]]
  BY DEF TypeOK
<1> HIDE DEF ChunkState
<1> QED
  BY <1>1

\* Every identifier, contact, key and message a step of the swarm writes is
\* one of the constants' (Share, the workers and handleStore included).
THEOREM TypeCorrect == Spec => []TypeOK
<1>1. Init => TypeOK
  BY DEF Init, TypeOK, ChunkState
<1>2. TypeOK /\ [Next]_vars => TypeOK'
  <2> SUFFICES ASSUME TypeOK, [Next]_vars PROVE TypeOK'
    OBVIOUS
  <2> USE SwarmAssumption
  <2>1. ASSUME NEW n \in Nodes, NEW c \in Contents, NEW s \in ShareStates[n],
               Share(n, c, s)
        PROVE  TypeOK'
    <3>1. SharedAs(c, s) \in ChunkState
      BY DEF SharedAs, ChunkState
    <3> DEFINE h == [k \in Ids |-> IF k \in ChunksOf[c]
                       THEN Written(held[n][k], SharedAs(c, s)) ELSE held[n][k]]
    <3>2. h \in [Ids -> ChunkState \cup {"none"}]
      <4>1. ASSUME NEW k \in Ids PROVE h[k] \in ChunkState \cup {"none"}
        BY <3>1, Typed, WrittenState
      <4> QED
        BY <4>1
    <3>3. held' \in [Nodes -> [Ids -> ChunkState \cup {"none"}]]
      <4>1. held' = [held EXCEPT ![n] = h]
        BY <2>1 DEF Share
      <4> HIDE DEF h
      <4> QED
        BY <3>2, <4>1 DEF TypeOK
    <3>4. released' \subseteq Contents /\ indexing' \in [Nodes -> SUBSET Keywords]
      <4>1. released \subseteq Contents /\ indexing \in [Nodes -> SUBSET Keywords]
        BY DEF TypeOK
      <4>2. KeywordsOf[c] \subseteq Keywords
        OBVIOUS
      <4> QED
        BY <2>1, <4>1, <4>2 DEF Share
    <3> QED
      BY <2>1, <3>3, <3>4 DEF Share, table, workers, TypeOK
  <2>2. ASSUME NEW n \in Nodes, NEW k \in Keywords, Index(n, k) PROVE TypeOK'
    <3>1. held' \in [Nodes -> [Ids -> ChunkState \cup {"none"}]]
      <4>1. held[n][k] \in ChunkState \cup {"none"}
        BY Typed
      <4>2. Written(held[n][k], "index") \in ChunkState
        BY <4>1, WrittenState DEF ChunkState
      <4>3. CASE held' = held
        BY <4>3 DEF TypeOK
      <4>4. CASE held' = [held EXCEPT ![n][k] = Written(@, "index")]
        BY <4>2, <4>4, HeldType
      <4> QED
        BY <2>2, <4>3, <4>4 DEF Index
    <3>2. indexing' \in [Nodes -> SUBSET Keywords]
      BY <2>2 DEF Index, TypeOK
    <3> QED
      BY <2>2, <3>1, <3>2 DEF Index, table, workers, TypeOK
  <2>3. ASSUME NEW n \in Nodes, NEW m \in Nodes, Meet(n, m) PROVE TypeOK'
    <3>1. met' \in [Nodes -> SUBSET Nodes] /\ announced' \in [Nodes -> SUBSET Nodes]
      BY <2>3, HearsType DEF Meet
    <3> QED
      BY <2>3, <3>1 DEF Meet, workers, TypeOK
  <2>4. ASSUME NEW n \in Nodes, NEW w \in Nodes, Begin(n, w) PROVE TypeOK'
    <3>1. announced' \in [Nodes -> SUBSET Nodes]
      <4>1. announced \in [Nodes -> SUBSET Nodes]
        BY DEF TypeOK
      <4>2. announced[n] \ {w} \in SUBSET Nodes
        BY Typed
      <4> QED
        BY <2>4, <4>1, <4>2 DEF Begin
    <3>2. keys' \in [Nodes -> [Nodes -> SUBSET Ids]]
      <4>1. Holds(n) \in SUBSET Ids
        BY DEF Holds
      <4>2. keys \in [Nodes -> [Nodes -> SUBSET Ids]]
        BY DEF TypeOK
      <4>3. keys' = [keys EXCEPT ![n][w] = Holds(n)]
        BY <2>4 DEF Begin
      <4> QED
        BY <4>1, <4>2, <4>3
    <3>3. UNCHANGED <<held, met, cur, indexing, net, released>>
      BY <2>4 DEF Begin
    <3> QED
      BY <3>1, <3>2, <3>3 DEF TypeOK
  <2>5. ASSUME NEW n \in Nodes, NEW w \in Nodes, NEW k \in Ids, Check(n, w, k)
        PROVE  TypeOK'
    <3>1. keys' \in [Nodes -> [Nodes -> SUBSET Ids]]
      BY <2>5 DEF Check, TypeOK
    <3>2. cur' \in [Nodes -> [Nodes -> Ids \cup {NoKey}]]
      BY <2>5 DEF Check, TypeOK
    <3> QED
      BY <2>5, <3>1, <3>2 DEF Check, table, TypeOK
  <2>6. ASSUME NEW n \in Nodes, NEW w \in Nodes, Send(n, w) PROVE TypeOK'
    <3>1. net' \subseteq StoreMessage
      <4>1. cur[n][w] \in Ids /\ Targets(n, w) \subseteq Nodes
        BY <2>6, Typed DEF Send, Targets
      <4>2. [from : {n}, to : Targets(n, w), key : {cur[n][w]}]
              \subseteq StoreMessage
        BY <4>1 DEF StoreMessage
      <4> QED
        BY <2>6, <4>2 DEF Send, TypeOK
    <3>2. cur' \in [Nodes -> [Nodes -> Ids \cup {NoKey}]]
      BY <2>6 DEF Send, TypeOK
    <3> QED
      BY <2>6, <3>1, <3>2 DEF Send, table, TypeOK
  <2>7. ASSUME NEW msg \in net, Deliver(msg) PROVE TypeOK'
    <3>1. msg.from \in Nodes /\ msg.to \in Nodes /\ msg.key \in Ids
      BY Typed
    <3>2. held[msg.to][msg.key] \in ChunkState \cup {"none"}
      BY <3>1, Typed
    <3>3. Written(held[msg.to][msg.key], Received(msg.key)) \in ChunkState
      BY <3>2, WrittenState DEF Received, ChunkState
    <3>4. held' \in [Nodes -> [Ids -> ChunkState \cup {"none"}]]
      BY <2>7, <3>1, <3>3, HeldType DEF Deliver
    <3>5. met' \in [Nodes -> SUBSET Nodes] /\ announced' \in [Nodes -> SUBSET Nodes]
      BY <2>7, <3>1, HearsType DEF Deliver
    <3> QED
      BY <2>7, <3>4, <3>5 DEF Deliver, workers, TypeOK
  <2>8. ASSUME NEW msg \in net, Lose(msg) PROVE TypeOK'
    BY <2>8 DEF Lose, table, workers, TypeOK
  <2>9. ASSUME NEW n \in Nodes, NEW k \in Ids, Expire(n, k) PROVE TypeOK'
    <3>1. held' \in [Nodes -> [Ids -> ChunkState \cup {"none"}]]
      BY <2>9, HeldType DEF Expire
    <3> QED
      BY <2>9, <3>1 DEF Expire, table, workers, TypeOK
  <2>10. CASE UNCHANGED vars
    BY <2>10 DEF vars, TypeOK
  <2> QED
    BY <2>1, <2>2, <2>3, <2>4, <2>5, <2>6, <2>7, <2>8, <2>9, <2>10
    DEF Next
<1> QED
  BY <1>1, <1>2, PTL DEF Spec

\* A Share can only make the private chunks fewer.
LEMMA FewerPrivate ==
  ASSUME TypeOK, [Next]_vars
  PROVE  Private' \subseteq Private
<1>1. released \subseteq released'
  BY DEF Next, vars, Share, Index, Meet, Begin, Check, Send, Deliver, Lose, Expire
<1> QED
  BY <1>1 DEF Private, Unreleased

\* At the start there are only indices.
LEMMA InitLocal == Init => WIPStaysLocal /\ WorkersSkipWIP
BY SwarmAssumption DEF Init, WIPStaysLocal, WorkersSkipWIP, Private, Unreleased

\* What a node holds, it goes on holding, unless it expires.
LEMMA StillHeld ==
  ASSUME TypeOK, [Next]_vars, NEW n \in Nodes,
         NEW k \in Ids \ Expiring, held[n][k] # "none"
  PROVE  held'[n][k] # "none"
<1> USE SwarmAssumption
<1>0. held \in [Nodes -> [Ids -> ChunkState \cup {"none"}]]
  BY DEF TypeOK
<1>1. ASSUME NEW p \in Nodes, NEW c \in Contents, NEW s \in ShareStates[p],
             Share(p, c, s)
      PROVE  held'[n][k] # "none"
  <2>1. SharedAs(c, s) \in ChunkState
    BY DEF SharedAs, ChunkState
  <2>2. Written(held[n][k], SharedAs(c, s)) # "none"
    BY <1>0, <2>1, WrittenState
  <2> QED
    BY <1>0, <1>1, <2>2 DEF Share
<1>2. ASSUME NEW p \in Nodes, NEW kw \in Keywords, Index(p, kw)
      PROVE  held'[n][k] # "none"
  <2>1. Written(held[n][k], "index") # "none"
    BY <1>0, WrittenState DEF ChunkState
  <2> QED
    BY <1>0, <1>2, <2>1 DEF Index
<1>3. ASSUME NEW msg \in net, Deliver(msg) PROVE held'[n][k] # "none"
  <2>1. Written(held[n][k], Received(k)) # "none"
    BY <1>0, WrittenState DEF ChunkState, Received
  <2> QED
    BY <1>0, <1>3, <2>1, Typed DEF Deliver
<1>4. ASSUME NEW p \in Nodes, NEW j \in Ids, Expire(p, j)
      PROVE  held'[n][k] # "none"
  BY <1>0, <1>4 DEF Expire
<1>5. CASE held' = held
  BY <1>5
<1> QED
  BY <1>1, <1>2, <1>3, <1>4, <1>5
  DEF Next, vars, Meet, Begin, Check, Send, Lose

\* A chunk that is private after the step was not committed by it.
LEMMA NotCommitted ==
  ASSUME SwarmInv, [Next]_vars,
         NEW k \in Private', NEW n \in Nodes
  PROVE  held'[n][k] # "committed"
<1> USE SwarmAssumption
<1>0. held \in [Nodes -> [Ids -> ChunkState \cup {"none"}]]
  BY DEF SwarmInv, TypeOK
<1>1. k \in Ids /\ k \notin Keywords /\ k \in Private
  BY FewerPrivate DEF Private, Unreleased, SwarmInv
<1>2. held[n][k] # "committed" /\ \A msg \in net : msg.key # k
  BY <1>1 DEF SwarmInv, WIPStaysLocal
<1>3. ASSUME NEW p \in Nodes, NEW c \in Contents, NEW s \in ShareStates[p],
             Share(p, c, s)
      PROVE  held'[n][k] # "committed"
  <2>1. s = "committed" => k \notin ChunksOf[c]
    BY <1>1, <1>3 DEF Share, Private, Unreleased
  <2>2. k \in ChunksOf[c] => SharedAs(c, s) = s
    BY <1>1 DEF Private, SharedAs
  <2>3. s # "committed" => Written(held[n][k], s) # "committed"
    BY <1>2 DEF Written
  <2> QED
    BY <1>0, <1>1, <1>2, <1>3, <2>1, <2>2, <2>3 DEF Share
<1>4. ASSUME NEW p \in Nodes, NEW kw \in Keywords, Index(p, kw)
      PROVE  held'[n][k] # "committed"
  BY <1>0, <1>1, <1>2, <1>4 DEF Index
<1>5. ASSUME NEW msg \in net, Deliver(msg) PROVE held'[n][k] # "committed"
  <2>1. msg.key # k /\ msg.to \in Nodes /\ msg.key \in Ids
    BY <1>2, Typed DEF SwarmInv
  <2> QED
    BY <1>0, <1>1, <1>2, <1>5, <2>1 DEF Deliver
<1>6. ASSUME NEW p \in Nodes, NEW j \in Ids, Expire(p, j)
      PROVE  held'[n][k] # "committed"
  BY <1>0, <1>2, <1>6 DEF Expire
<1>7. CASE held' = held
  BY <1>2, <1>7
<1> QED
  BY <1>3, <1>4, <1>5, <1>6, <1>7
  DEF Next, vars, Meet, Begin, Check, Send, Lose

\* Nor is it in a message, or about to be.
LEMMA NotSent ==
  ASSUME SwarmInv, [Next]_vars, NEW k \in Private'
  PROVE  \A msg \in net' : msg.key # k
<1>1. k \in Private
  BY FewerPrivate DEF SwarmInv
<1>2. \A msg \in net : msg.key # k
  BY <1>1 DEF SwarmInv, WIPStaysLocal
<1>3. ASSUME NEW n \in Nodes, NEW w \in Nodes, Send(n, w)
      PROVE  \A msg \in net' : msg.key # k
  <2>1. cur[n][w] # k
    BY <1>1 DEF SwarmInv, WorkersSkipWIP
  <2> QED
    BY <1>2, <1>3, <2>1 DEF Send
<1>4. CASE net' \subseteq net
  BY <1>2, <1>4
<1> QED
  BY <1>3, <1>4
  DEF Next, vars, Share, Index, Meet, Begin, Check, Deliver, Lose, Expire

LEMMA WorkersStillSkip ==
  ASSUME SwarmInv, [Next]_vars, NEW n \in Nodes, NEW w \in Nodes
  PROVE  cur'[n][w] \notin Private' /\ keys'[n][w] \ Expiring \subseteq Holds(n)'
<1>0. cur \in [Nodes -> [Nodes -> Ids \cup {NoKey}]]
      /\ keys \in [Nodes -> [Nodes -> SUBSET Ids]]
  BY DEF SwarmInv, TypeOK
<1>1. cur[n][w] \notin Private' /\ keys[n][w] \ Expiring \subseteq Holds(n)'
  <2>1. \A k \in keys[n][w] \ Expiring : k \in Ids /\ held[n][k] # "none"
    BY <1>0 DEF SwarmInv, WorkersSkipWIP, Holds
  <2>2. \A k \in keys[n][w] \ Expiring : held'[n][k] # "none"
    BY <2>1, StillHeld DEF SwarmInv
  <2>3. keys[n][w] \ Expiring \subseteq Holds(n)'
    BY <2>1, <2>2 DEF Holds
  <2> QED
    BY <2>3, FewerPrivate DEF SwarmInv, WorkersSkipWIP
<1>2. NoKey \notin Private'
  BY SwarmAssumption DEF Private, Unreleased
<1>3. ASSUME NEW p \in Nodes, NEW v \in Nodes, Begin(p, v)
      PROVE  cur'[n][w] \notin Private' /\ keys'[n][w] \ Expiring \subseteq Holds(n)'
  <2>1. keys' = [keys EXCEPT ![p][v] = Holds(p)] /\ cur' = cur /\ held' = held
    BY <1>3 DEF Begin
  <2>2. Holds(n)' = Holds(n)
    BY <2>1 DEF Holds
  <2> QED
    BY <1>0, <1>1, <2>1, <2>2
<1>4. ASSUME NEW p \in Nodes, NEW v \in Nodes, NEW k \in Ids, Check(p, v, k)
      PROVE  cur'[n][w] \notin Private' /\ keys'[n][w] \ Expiring \subseteq Holds(n)'
  <2>1. k \in Expiring \/ k \in Holds(p)
    BY <1>4 DEF Check, SwarmInv, WorkersSkipWIP
  <2>2. LetThrough(p, k) => k \notin Private
    BY <2>1 DEF LetThrough, Holds, SwarmInv, WIPStaysLocal, Private
  <2>3. LetThrough(p, k) => k \notin Private'
    BY <2>2, FewerPrivate DEF SwarmInv
  <2>4. cur'[n][w] \in {cur[n][w], NoKey} \/ (cur'[n][w] = k /\ LetThrough(p, k))
    BY <1>0, <1>4 DEF Check
  <2>5. keys'[n][w] \ Expiring \subseteq keys[n][w]
    BY <1>0, <1>4 DEF Check
  <2> QED
    BY <1>1, <1>2, <2>3, <2>4, <2>5
<1>5. ASSUME NEW p \in Nodes, NEW v \in Nodes, Send(p, v)
      PROVE  cur'[n][w] \notin Private' /\ keys'[n][w] \ Expiring \subseteq Holds(n)'
  BY <1>0, <1>1, <1>2, <1>5 DEF Send
<1>6. CASE UNCHANGED workers
  BY <1>1, <1>6 DEF workers
<1> QED
  BY <1>3, <1>4, <1>5, <1>6
  DEF Next, vars, workers, Share, Index, Meet, Deliver, Lose, Expire

\* On any number of nodes, the chunks of a small content nobody shared as
\* committed are committed on no node and in no message, unless they expire
\* (CHANGELOG.md:27, workers.go:90-92 and 200-202).
THEOREM WIPLocal == Spec => []WIPStaysLocal
<1>1. Init /\ TypeOK => SwarmInv
  BY InitLocal DEF SwarmInv
<1>2. SwarmInv /\ [Next]_vars /\ TypeOK' => SwarmInv'
  BY NotCommitted, NotSent, WorkersStillSkip
  DEF SwarmInv, WIPStaysLocal, WorkersSkipWIP
<1>3. SwarmInv => WIPStaysLocal
  BY DEF SwarmInv
<1> QED
  BY <1>1, <1>2, <1>3, TypeCorrect, PTL DEF Spec

\* A step leaves a committed chunk committed, or removes it.
LEMMA CommittedStep ==
  ASSUME TypeOK, [Next]_vars, NEW n \in Nodes, NEW k \in Ids,
         held[n][k] = "committed"
  PROVE  held'[n][k] \in {"committed", "none"}
<1>0. held \in [Nodes -> [Ids -> ChunkState \cup {"none"}]]
  BY DEF TypeOK
<1>1. \A new : Written(held[n][k], new) = "committed"
  BY DEF Written
<1>2. ASSUME NEW p \in Nodes, NEW c \in Contents, NEW s \in ShareStates[p],
             Share(p, c, s)
      PROVE  held'[n][k] = "committed"
  BY <1>0, <1>1, <1>2 DEF Share
<1>3. ASSUME NEW p \in Nodes, NEW kw \in Keywords, Index(p, kw)
      PROVE  held'[n][k] = "committed"
  <2>1. kw \in Ids
    BY SwarmAssumption
  <2> QED
    BY <1>0, <1>1, <1>3, <2>1 DEF Index
<1>4. ASSUME NEW msg \in net, Deliver(msg) PROVE held'[n][k] = "committed"
  BY <1>0, <1>1, <1>4, Typed DEF Deliver
<1>5. ASSUME NEW p \in Nodes, NEW j \in Ids, Expire(p, j)
      PROVE  held'[n][k] \in {"committed", "none"}
  BY <1>0, <1>5 DEF Expire
<1>6. CASE held' = held
  BY <1>6
<1> QED
  BY <1>2, <1>3, <1>4, <1>5, <1>6
  DEF Next, vars, Meet, Begin, Check, Send, Lose

\* On every node, Share, indexContent, handleStore and the workers leave a
\* committed chunk committed; only a removal ends it (storage.go:90-93).
THEOREM CommittedForGood == Spec => StaysCommitted
<1>1. TypeOK /\ [Next]_vars =>
        [\A n \in Nodes, k \in Ids :
           held[n][k] = "committed" => held'[n][k] \in {"committed", "none"}]_vars
  BY CommittedStep
<1> QED
  BY <1>1, TypeCorrect, PTL DEF Spec, StaysCommitted

-----------------------------------------------------------------------------
(* Lifetimes *)

\* Copies on the way count like copies held: a late one must not bring back
\* more than the last signature allows.
LivesInv ==
  /\ newest \in 0..Day
  /\ \A n \in Holding : life[n] \in Int /\ life[n] <= newest
  /\ \A offer \in offers : offer.ticks \in Int /\ offer.ticks <= newest

LEMMA InitLives == LifeInit => LivesInv
<1> SUFFICES ASSUME LifeInit PROVE LivesInv
  OBVIOUS
<1>1. Holding = {}
  BY DEF LifeInit, Holding
<1> QED
  BY <1>1, LifeAssumption DEF LifeInit, LivesInv

LEMMA OfferedLives ==
  ASSUME LivesInv, NEW n, NEW S, NEW offer \in Offer(n, S)
  PROVE  offer.ticks \in Int /\ offer.ticks <= newest
BY DEF Offer, LivesInv

LEMMA KeptLives ==
  ASSUME LivesInv, NEW n, NEW ticks \in Int, ticks <= newest', newest' \in 0..Day,
         newest <= newest', life' = Keep(n, ticks), offers' \subseteq offers
  PROVE  LivesInv'
<1>0. newest \in Int /\ newest' \in Int
  BY LifeAssumption DEF LivesInv
<1>1. ASSUME NEW m \in Holding' PROVE life'[m] \in Int /\ life'[m] <= newest'
  <2>1. m \in Holding \cup {n} /\ life'[m] = IF m = n THEN ticks ELSE life[m]
    BY <1>1 DEF Keep, Holding
  <2> QED
    BY <1>0, <2>1 DEF LivesInv
<1>2. ASSUME NEW offer \in offers'
      PROVE  offer.ticks \in Int /\ offer.ticks <= newest'
  BY <1>0, <1>2 DEF LivesInv
<1> QED
  BY <1>1, <1>2 DEF LivesInv

LEMMA TickLives == LivesInv /\ Tick => LivesInv'
<1> SUFFICES ASSUME LivesInv, Tick PROVE LivesInv'
  OBVIOUS
<1>1. newest' \in 0..Day /\ newest \in Int /\ newest' >= newest - 1
  BY LifeAssumption DEF LivesInv, Tick
<1>2. ASSUME NEW n \in Holding' PROVE life'[n] \in Int /\ life'[n] <= newest'
  <2>1. n \in Holding /\ life'[n] = life[n] - 1
    BY <1>2 DEF Tick, Holding
  <2> QED
    BY <1>1, <2>1 DEF LivesInv
<1>3. offers' = {}
  BY DEF Tick
<1> QED
  BY <1>1, <1>2, <1>3 DEF LivesInv

LEMMA NextLives == LivesInv /\ [LifeNext]_lifeVars => LivesInv'
<1> SUFFICES ASSUME LivesInv, [LifeNext]_lifeVars PROVE LivesInv'
  OBVIOUS
<1>1. CASE Tick
  BY <1>1, TickLives
<1>2. ASSUME NEW n \in Replicas, LifeShare(n) PROVE LivesInv'
  BY <1>2, KeptLives, LifeAssumption DEF LifeShare, LivesInv
<1>3. ASSUME NEW n \in Replicas, Collect(n) PROVE LivesInv'
  <2>1. \A m \in Holding' : m \in Holding /\ life'[m] = life[m]
    BY <1>3 DEF Collect, Restrict, Holding
  <2> QED
    BY <1>3, <2>1 DEF Collect, LivesInv
<1>4. ASSUME NEW n \in Replicas, NEW S,
             offers' \subseteq offers \cup Offer(n, S),
             UNCHANGED <<life, newest>>
      PROVE  LivesInv'
  BY <1>4, OfferedLives DEF LivesInv, Holding
<1>5. ASSUME NEW n \in Replicas, Replicate(n) PROVE LivesInv'
  BY <1>4, <1>5 DEF Replicate
<1>6. ASSUME NEW n \in Replicas, NEW m \in Replicas, MeetAgain(n, m)
      PROVE  LivesInv'
  BY <1>4, <1>6 DEF MeetAgain
<1>7. ASSUME NEW offer \in offers, Receive(offer) PROVE LivesInv'
  <2>1. newest' = newest /\ offers' \subseteq offers
    BY <1>7 DEF Receive
  <2>2. CASE offer.to \in Holding
    BY <1>7, <2>1, <2>2 DEF Receive, LivesInv, Holding
  <2>3. CASE offer.to \notin Holding
    <3>1. life' = Keep(offer.to, offer.ticks)
      BY <1>7, <2>3 DEF Receive, ReceivedLife
    <3> QED
      BY <2>1, <3>1, KeptLives, LifeAssumption DEF LivesInv
  <2> QED
    BY <2>2, <2>3
<1>8. ASSUME NEW offer \in offers, LoseOffer(offer) PROVE LivesInv'
  BY <1>8 DEF LoseOffer, LivesInv, Holding
<1>9. ASSUME NEW n \in Replicas, RestartNode(n) PROVE LivesInv'
  BY <1>9 DEF RestartNode, LivesInv, Holding
<1>10. CASE UNCHANGED lifeVars
  BY <1>10 DEF lifeVars, LivesInv, Holding
<1> QED
  BY <1>1, <1>2, <1>3, <1>5, <1>6, <1>7, <1>8, <1>9, <1>10 DEF LifeNext

\* storage.go:117, workers.go: for any swarm and any periods, no copy of a
\* chunk outlives the signature made last, however it was sent round.
THEOREM LivesBounded == LifeSpec => []NeverRenewed
<1>1. LivesInv => NeverRenewed
  BY DEF LivesInv, NeverRenewed
<1> QED
  BY <1>1, InitLives, NextLives, PTL DEF LifeSpec
-----------------------------------------------------------------------------
(* Lifetimes: an expired chunk is gone soon. *)

\* Division with remainder.
LEMMA Remainder ==
  ASSUME NEW b \in Nat \ {0}, NEW a \in Nat
  PROVE  /\ a % b \in 0..(b - 1) /\ a \div b \in Nat
         /\ a = b * (a \div b) + (a % b)
OBVIOUS

LEMMA RemainderUnique ==
  ASSUME NEW b \in Nat \ {0}, NEW q \in Nat, NEW r \in 0..(b - 1), NEW a \in Nat,
         a = b * q + r
  PROVE  a % b = r
OBVIOUS

\* One more, modulo b.
LEMMA NextRemainder ==
  ASSUME NEW b \in Nat \ {0}, NEW a \in Nat
  PROVE  (a + 1) % b = IF a % b = b - 1 THEN 0 ELSE (a % b) + 1
<1> DEFINE q == a \div b
           r == a % b
<1>1. r \in 0..(b - 1) /\ q \in Nat /\ a = b * q + r
  BY Remainder
<1> HIDE DEF q
<1>2. CASE r = b - 1
  <2>1. q + 1 \in Nat /\ b * (q + 1) = b * q + b
    BY <1>1
  <2>2. a + 1 = b * (q + 1) + 0
    BY <1>1, <1>2, <2>1
  <2> QED
    BY <1>2, <2>1, <2>2, RemainderUnique
<1>3. CASE r # b - 1
  <2>1. a + 1 = b * q + (r + 1) /\ r + 1 \in 0..(b - 1)
    BY <1>1, <1>3
  <2> QED
    BY <1>1, <1>3, <2>1, RemainderUnique
<1> QED
  BY <1>2, <1>3

\* More periods last longer.
LEMMA MorePeriods ==
  ASSUME NEW g \in Nat \ {0}, NEW x \in Nat, NEW y \in Nat
  PROVE  /\ x * g \in Nat
         /\ x <= y => x * g <= y * g
         /\ x + 1 <= y => x * g + g <= y * g
<1>1. x * g \in Nat /\ (x + 1) * g = x * g + g
  OBVIOUS
<1>2. ASSUME NEW z \in Nat, z <= y PROVE z * g <= y * g
  BY <1>2
<1> QED
  BY <1>1, <1>2

\* The ticks until the collector of a node fires next.
UntilGC(n) == IF n \in gcDue THEN 0 ELSE GCPeriod - (uptime[n] % GCPeriod)

LEMMA UntilGCType ==
  ASSUME LifeTypeOK, NEW n \in Replicas
  PROVE  /\ UntilGC(n) \in 0..GCPeriod
         /\ n \notin gcDue => UntilGC(n) >= 1
<1>1. uptime[n] \in Nat /\ GCPeriod \in Nat \ {0}
  BY LifeAssumption DEF LifeTypeOK
<1>2. uptime[n] % GCPeriod \in 0..(GCPeriod - 1)
  BY <1>1, Remainder
<1> QED
  BY <1>1, <1>2 DEF UntilGC

\* A tick brings it nearer.
LEMMA TickNearer ==
  ASSUME LifeTypeOK, Tick, NEW n \in Replicas
  PROVE  UntilGC(n)' = UntilGC(n) - 1
<1> DEFINE u == uptime[n]
           v == uptime'[n]
           g == GCPeriod
<1>1. u \in 0..(RepPeriod - 1) /\ g \in Nat \ {0} /\ RepPeriod \in Nat \ {0}
      /\ RepPeriod % g = 0 /\ n \notin gcDue
  BY LifeAssumption DEF LifeTypeOK, Tick
<1>2. v = (u + 1) % RepPeriod /\ (n \in gcDue' <=> v % g = 0)
  BY DEF Tick, GCFires
<1> HIDE DEF u, v, g
<1>3. v % g = (u + 1) % g
  <2>1. CASE u + 1 = RepPeriod
    <3>1. 0 % RepPeriod = 0 /\ 0 % g = 0 /\ RepPeriod % RepPeriod = 0
      <4>1. 0 = RepPeriod * 0 + 0 /\ 0 = g * 0 + 0 /\ RepPeriod = RepPeriod * 1 + 0
        BY <1>1
      <4> QED
        BY <1>1, <4>1, RemainderUnique
    <3> QED
      BY <1>1, <1>2, <2>1, <3>1
  <2>2. CASE u + 1 # RepPeriod
    <3>1. u + 1 = RepPeriod * 0 + (u + 1) /\ u + 1 \in 0..(RepPeriod - 1)
      BY <1>1, <2>2
    <3>2. (u + 1) % RepPeriod = u + 1
      BY <1>1, <3>1, RemainderUnique
    <3> QED
      BY <1>2, <3>2
  <2> QED
    BY <2>1, <2>2
<1>6. u \in Nat
  BY <1>1
<1>4. (u + 1) % g = IF u % g = g - 1 THEN 0 ELSE (u % g) + 1
  BY <1>1, <1>6, NextRemainder
<1>5. u % g \in 0..(g - 1)
  BY <1>1, <1>6, Remainder
<1> QED
  BY <1>1, <1>2, <1>3, <1>4, <1>5 DEF UntilGC, u, v, g

\* The nodes that have replicated since a copy that old expired, and how old
\* a copy may be: a collector's period for each, and for each handoff and
\* restart, and one more.
SentSince(age) == {m \in Replicas \ repDue : uptime[m] < age}
Allowed(age) == (1 + Cardinality(SentSince(age)) + handoffs + restarts) * GCPeriod

\* A copy that has expired is collected by then, and one on its way would be
\* even if its receiver has just been collecting.
CopiesSoon(age) == \A n \in Holding : life[n] = -age => age + UntilGC(n) <= Allowed(age)
OffersSoon(age) == \A o \in offers : o.ticks = -age => age + GCPeriod <= Allowed(age)

SoonInv ==
  /\ LifeTypeOK
  /\ \A m \in repDue : uptime[m] = 0
  /\ Patience <= RepPeriod =>
       \A age \in Nat \ {0} : CopiesSoon(age) /\ OffersSoon(age)

LEMMA AllowedType ==
  ASSUME LifeTypeOK, NEW age \in Nat
  PROVE  /\ Cardinality(SentSince(age)) \in Nat /\ IsFiniteSet(SentSince(age))
         /\ Allowed(age) \in Nat /\ Patience \in Nat /\ Allowed(age) <= Patience
<1>1. /\ IsFiniteSet(SentSince(age)) /\ Cardinality(SentSince(age)) \in Nat
      /\ Cardinality(Replicas) \in Nat
      /\ Cardinality(SentSince(age)) <= Cardinality(Replicas)
  BY LifeAssumption, FS_Subset, FS_CardinalityType DEF SentSince
<1> DEFINE x == 1 + Cardinality(SentSince(age)) + handoffs + restarts
           y == 1 + Cardinality(Replicas) + handoffs + restarts
<1>2. x \in Nat /\ y \in Nat /\ x <= y /\ GCPeriod \in Nat \ {0}
  BY <1>1, LifeAssumption DEF LifeTypeOK
<1>3. x * GCPeriod \in Nat /\ y * GCPeriod \in Nat /\ x * GCPeriod <= y * GCPeriod
  <2> HIDE DEF x, y
  <2> QED
    BY <1>2, MorePeriods
<1> QED
  BY <1>1, <1>3 DEF Allowed, Patience

\* What is allowed only grows, and by a period with each handoff, restart or
\* replication.
LEMMA AllowedGrows ==
  ASSUME LifeTypeOK, LifeTypeOK', NEW age \in Nat, NEW later \in Nat,
         SentSince(age) \subseteq SentSince(later)',
         handoffs <= handoffs', restarts <= restarts'
  PROVE  /\ Allowed(age) <= Allowed(later)'
         /\ \/ handoffs + 1 <= handoffs'
            \/ restarts + 1 <= restarts'
            \/ SentSince(age) # SentSince(later)'
            => Allowed(age) + GCPeriod <= Allowed(later)'
<1> DEFINE S == SentSince(age)
           T == SentSince(later)'
           x == 1 + Cardinality(S) + handoffs + restarts
           y == 1 + Cardinality(T) + handoffs' + restarts'
<1>1. IsFiniteSet(T)
  <2>1. T \subseteq Replicas
    BY DEF SentSince
  <2> QED
    BY <2>1, LifeAssumption, FS_Subset
<1>2. /\ Cardinality(S) \in Nat /\ Cardinality(T) \in Nat
      /\ Cardinality(S) <= Cardinality(T)
      /\ S # T => Cardinality(S) + 1 <= Cardinality(T)
  <2> HIDE DEF S, T
  <2>1. S \subseteq T
    BY DEF S, T
  <2> QED
    BY <1>1, <2>1, FS_Subset, FS_CardinalityType
<1>3. x \in Nat /\ y \in Nat /\ x <= y /\ GCPeriod \in Nat \ {0}
  BY <1>2, LifeAssumption DEF LifeTypeOK
<1>4. \/ handoffs + 1 <= handoffs' \/ restarts + 1 <= restarts' \/ S # T
      => x + 1 <= y
  BY <1>2, LifeAssumption DEF LifeTypeOK
<1>5. /\ x * GCPeriod <= y * GCPeriod
      /\ x + 1 <= y => x * GCPeriod + GCPeriod <= y * GCPeriod
  <2> HIDE DEF x, y
  <2> QED
    BY <1>3, MorePeriods
<1> QED
  BY <1>4, <1>5 DEF Allowed

LEMMA PatienceGrows ==
  ASSUME LifeTypeOK, LifeTypeOK', handoffs <= handoffs', restarts <= restarts'
  PROVE  Patience <= Patience'
<1> DEFINE x == 1 + Cardinality(Replicas) + handoffs + restarts
           y == 1 + Cardinality(Replicas) + handoffs' + restarts'
<1>1. x \in Nat /\ y \in Nat /\ x <= y /\ GCPeriod \in Nat \ {0}
  <2>1. Cardinality(Replicas) \in Nat
    BY LifeAssumption, FS_CardinalityType
  <2>2. /\ handoffs \in Nat /\ handoffs' \in Nat
        /\ restarts \in Nat /\ restarts' \in Nat /\ GCPeriod \in Nat \ {0}
    BY LifeAssumption DEF LifeTypeOK
  <2> QED
    BY <2>1, <2>2
<1>2. x * GCPeriod <= y * GCPeriod
  <2> HIDE DEF x, y
  <2> QED
    BY <1>1, MorePeriods
<1> QED
  BY <1>2 DEF Patience

LEMMA LifeTypeInit ==
  LifeInit => LifeTypeOK
<1> SUFFICES ASSUME LifeInit PROVE LifeTypeOK
  OBVIOUS
<1>1. Holding = {}
  BY DEF LifeInit, Holding
<1> QED
  BY <1>1, LifeAssumption DEF LifeInit, LifeTypeOK

LEMMA LifeTypeStep ==
  LifeTypeOK /\ [LifeNext]_lifeVars => LifeTypeOK'
<1> SUFFICES ASSUME LifeTypeOK, [LifeNext]_lifeVars PROVE LifeTypeOK'
  OBVIOUS
<1>1. ASSUME NEW n \in Replicas, NEW d \in Int, life' = Keep(n, d)
      PROVE  Holding' \subseteq Replicas /\ \A m \in Holding' : life'[m] \in Int
  <2>1. Holding' = Holding \cup {n}
    BY <1>1 DEF Keep, Holding
  <2> QED
    BY <1>1, <2>1 DEF Keep, LifeTypeOK
<1>2. ASSUME NEW n \in Replicas, NEW S \in SUBSET Replicas
      PROVE  Offer(n, S) \subseteq [to : Replicas, ticks : Int]
  BY DEF Offer, LifeTypeOK
<1>3. CASE Tick
  <2>1. Holding' = Holding
    BY <1>3 DEF Tick, Holding
  <2>2. ASSUME NEW n \in Replicas PROVE (uptime[n] + 1) % RepPeriod \in 0..(RepPeriod - 1)
    BY Remainder, LifeAssumption DEF LifeTypeOK
  <2>3. uptime' \in [Replicas -> 0..(RepPeriod - 1)]
    BY <1>3, <2>2 DEF Tick
  <2>4. newest' \in 0..Day
    BY <1>3, LifeAssumption DEF Tick, LifeTypeOK
  <2>5. \A n \in Holding' : life'[n] \in Int
    BY <1>3, <2>1 DEF Tick, LifeTypeOK
  <2> QED
    BY <1>3, <2>1, <2>3, <2>4, <2>5 DEF Tick, LifeTypeOK
<1>4. ASSUME NEW n \in Replicas, LifeShare(n) PROVE LifeTypeOK'
  <2>1. Holding' \subseteq Replicas /\ \A m \in Holding' : life'[m] \in Int
    BY <1>1, <1>4, LifeAssumption DEF LifeShare
  <2>2. Day \in Nat
    BY LifeAssumption
  <2> QED
    BY <1>4, <2>1, <2>2, LifeAssumption DEF LifeShare, LifeTypeOK
<1>5. ASSUME NEW n \in Replicas, Collect(n) PROVE LifeTypeOK'
  <2>1. \A m \in Holding' : m \in Holding /\ life'[m] = life[m]
    BY <1>5 DEF Collect, Restrict, Holding
  <2> QED
    BY <1>5, <2>1 DEF Collect, LifeTypeOK
<1>6. ASSUME NEW n \in Replicas, Replicate(n) PROVE LifeTypeOK'
  <2>1. offers' \subseteq [to : Replicas, ticks : Int]
    BY <1>2, <1>6 DEF Replicate, LifeTypeOK
  <2>2. Holding' = Holding
    BY <1>6 DEF Replicate, Holding
  <2> QED
    BY <1>6, <2>1, <2>2 DEF Replicate, LifeTypeOK
<1>7. ASSUME NEW n \in Replicas, NEW m \in Replicas, MeetAgain(n, m) PROVE LifeTypeOK'
  <2>1. offers' \subseteq [to : Replicas, ticks : Int]
    BY <1>2, <1>7 DEF MeetAgain, LifeTypeOK
  <2>2. Holding' = Holding
    BY <1>7 DEF MeetAgain, Holding
  <2> QED
    BY <1>7, <2>1, <2>2 DEF MeetAgain, LifeTypeOK
<1>8. ASSUME NEW o \in offers, Receive(o) PROVE LifeTypeOK'
  <2>1. o.to \in Replicas /\ ReceivedLife(o.ticks) \in Int
    BY DEF LifeTypeOK, ReceivedLife
  <2>2. Holding' \subseteq Replicas /\ \A m \in Holding' : life'[m] \in Int
    <3>1. CASE o.to \in Holding
      BY <1>8, <3>1 DEF Receive, LifeTypeOK, Holding
    <3>2. CASE o.to \notin Holding
      BY <1>1, <1>8, <2>1, <3>2 DEF Receive
    <3> QED
      BY <3>1, <3>2
  <2> QED
    BY <1>8, <2>2 DEF Receive, LifeTypeOK
<1>9. ASSUME NEW o \in offers, LoseOffer(o) PROVE LifeTypeOK'
  BY <1>9 DEF LoseOffer, LifeTypeOK, Holding
<1>10. ASSUME NEW n \in Replicas, RestartNode(n) PROVE LifeTypeOK'
  BY <1>10, LifeAssumption DEF RestartNode, LifeTypeOK, Holding
<1>11. CASE UNCHANGED lifeVars
  BY <1>11 DEF lifeVars, LifeTypeOK, Holding
<1> QED
  BY <1>3, <1>4, <1>5, <1>6, <1>7, <1>8, <1>9, <1>10, <1>11 DEF LifeNext

\* Every copy, offer and ticker of the swarm is a node's, whatever the ticks
\* add up to (workers.go, storage.go).
THEOREM LifeTypeCorrect == LifeSpec => []LifeTypeOK
BY LifeTypeInit, LifeTypeStep, PTL DEF LifeSpec

\* What a step may use: the invariant of the state before, the bound of the
\* state after.
LEMMA SoonBefore ==
  ASSUME SoonInv, LifeTypeOK', handoffs <= handoffs', restarts <= restarts',
         (Patience <= RepPeriod)', NEW age \in Nat \ {0}
  PROVE  CopiesSoon(age) /\ OffersSoon(age)
<1>1. Patience <= Patience'
  BY PatienceGrows DEF SoonInv
<1>2. Patience \in Nat /\ Patience' \in Nat /\ RepPeriod \in Nat /\ RepPeriod' = RepPeriod
  <2>1. LifeTypeOK /\ LifeTypeOK' /\ 0 \in Nat
    BY DEF SoonInv
  <2>2. Patience \in Nat
    BY <2>1, AllowedType
  <2>3. Patience \in Nat /\ Patience' \in Nat
    <3> DEFINE y == 1 + Cardinality(Replicas) + handoffs' + restarts'
    <3>1. Cardinality(Replicas) \in Nat
      BY LifeAssumption, FS_CardinalityType
    <3>2. y \in Nat /\ GCPeriod \in Nat
      BY <2>1, <3>1, LifeAssumption DEF LifeTypeOK
    <3> QED
      BY <2>2, <3>2 DEF Patience
  <2> QED
    BY <2>3, LifeAssumption
<1>3. Patience <= RepPeriod
  BY <1>1, <1>2
<1> QED
  BY <1>3 DEF SoonInv

\* A period is allowed at any rate.
LEMMA AllowedNext ==
  ASSUME LifeTypeOK', NEW age \in Nat
  PROVE  Allowed(age)' \in Nat /\ GCPeriod <= Allowed(age)'
<1> DEFINE c == Cardinality(SentSince(age)')
           x == 1 + c + handoffs' + restarts'
<1>1. c \in Nat
  <2>1. SentSince(age)' \subseteq Replicas
    BY DEF SentSince
  <2> QED
    BY <2>1, LifeAssumption, FS_Subset, FS_CardinalityType
<1>2. x \in Nat /\ 1 \in Nat /\ 1 <= x /\ GCPeriod \in Nat \ {0}
  BY <1>1, LifeAssumption DEF LifeTypeOK
<1>3. x * GCPeriod \in Nat /\ 1 * GCPeriod <= x * GCPeriod
  <2> HIDE DEF x
  <2> QED
    BY <1>2, MorePeriods
<1>4. Allowed(age)' = x * GCPeriod
  BY DEF Allowed
<1> QED
  <2> HIDE DEF x
  <2> QED
    BY <1>2, <1>3, <1>4

\* A tick: what is left to the collector shrinks as the copies age.
LEMMA TickSoon ==
  ASSUME SoonInv, LifeTypeOK', Tick, (Patience <= RepPeriod)', NEW age \in Nat \ {0}
  PROVE  CopiesSoon(age)' /\ OffersSoon(age)'
<1>1. LifeTypeOK /\ RepPeriod \in Nat \ {0} /\ GCPeriod \in Nat \ {0}
  BY LifeAssumption DEF SoonInv
<1>2. /\ handoffs' = handoffs /\ restarts' = restarts /\ offers' = {}
      /\ Holding' = Holding /\ \A n \in Holding : life'[n] = life[n] - 1
  BY DEF Tick, Holding
<1>3. handoffs <= handoffs' /\ restarts <= restarts' /\ handoffs \in Nat /\ restarts \in Nat
  BY <1>1, <1>2 DEF LifeTypeOK
<1>4. OffersSoon(age)'
  BY <1>2 DEF OffersSoon
<1>5. ASSUME NEW n \in Holding, life'[n] = -age PROVE age + UntilGC(n)' <= Allowed(age)'
  <2>1. n \in Replicas /\ life[n] \in Int /\ life[n] = -(age - 1)
    BY <1>1, <1>2, <1>5 DEF LifeTypeOK
  <2>2. UntilGC(n)' = UntilGC(n) - 1 /\ UntilGC(n) \in 1..GCPeriod
    <3>1. n \notin gcDue
      BY DEF Tick
    <3> QED
      BY <1>1, <2>1, <3>1, TickNearer, UntilGCType
  <2>3. CASE age = 1
    <3>5. GCPeriod <= Allowed(age)' /\ Allowed(age)' \in Nat
      BY AllowedNext
    <3> QED
      BY <1>1, <2>2, <2>3, <3>5
  <2>4. CASE age # 1
    <3> DEFINE old == age - 1
    <3>1. old \in Nat \ {0} /\ age = old + 1
      BY <2>4
    <3>2. CopiesSoon(old)
      BY <1>3, <3>1, SoonBefore
    <3>3. old + UntilGC(n) <= Allowed(old)
      BY <2>1, <3>1, <3>2 DEF CopiesSoon
    <3>4. old < RepPeriod
      <4>1. Allowed(old) \in Nat /\ Patience \in Nat /\ Allowed(old) <= Patience
        BY <1>1, <3>1, AllowedType
      <4>2. Patience <= RepPeriod
        BY <1>2 DEF Patience
      <4> QED
        BY <1>1, <2>2, <3>1, <3>3, <4>1, <4>2
    <3>5. ASSUME NEW m \in SentSince(old) PROVE m \in SentSince(age)'
      <4>1. m \in Replicas /\ uptime[m] \in 0..(old - 1) /\ uptime'[m] = (uptime[m] + 1) % RepPeriod
        BY <1>1, <3>1, <3>5 DEF SentSince, LifeTypeOK, Tick
      <4>2. uptime[m] + 1 \in 0..(RepPeriod - 1) /\ uptime[m] + 1 = RepPeriod * 0 + (uptime[m] + 1)
        BY <1>1, <3>1, <3>4, <4>1
      <4>3. (uptime[m] + 1) % RepPeriod = uptime[m] + 1
        BY <1>1, <4>2, RemainderUnique
      <4>4. uptime'[m] % RepPeriod = uptime[m] + 1
        BY <4>1, <4>3
      <4>5. m \notin repDue'
        BY <4>1, <4>4 DEF Tick, RepFires
      <4> QED
        BY <3>1, <4>1, <4>3, <4>5 DEF SentSince
    <3>6. Allowed(old) <= Allowed(age)'
      <4>1. SentSince(old) \subseteq SentSince(age)' /\ old \in Nat /\ age \in Nat
        BY <3>1, <3>5
      <4> QED
        BY <1>1, <1>3, <4>1, AllowedGrows
    <3>7. Allowed(old) \in Nat /\ Allowed(age)' \in Nat
      <4>1. Allowed(old) \in Nat
        BY <1>1, <3>1, AllowedType
      <4> QED
        BY <3>1, <4>1, AllowedNext
    <3> QED
      BY <1>1, <2>2, <3>1, <3>3, <3>6, <3>7
  <2> QED
    BY <2>3, <2>4
<1>6. CopiesSoon(age)'
  BY <1>2, <1>5 DEF CopiesSoon
<1> QED
  BY <1>4, <1>6

\* A step under which the same copies and offers stay, or fewer, and the
\* nodes' tickers too, and what is allowed is not less.
LEMMA QuietSoon ==
  ASSUME SoonInv, LifeTypeOK', (Patience <= RepPeriod)', NEW age \in Nat \ {0},
         handoffs' = handoffs, restarts' = restarts,
         uptime' = uptime, repDue' = repDue, offers' \subseteq offers,
         \A n \in Holding' : life'[n] = -age =>
            /\ n \in Holding /\ life[n] = -age
            /\ n \in gcDue <=> n \in gcDue'
  PROVE  CopiesSoon(age)' /\ OffersSoon(age)'
<1>1. handoffs \in Nat /\ restarts \in Nat
  BY DEF SoonInv, LifeTypeOK
<1>2. CopiesSoon(age) /\ OffersSoon(age)
  <2>1. handoffs <= handoffs' /\ restarts <= restarts'
    BY <1>1
  <2> QED
    BY <2>1, SoonBefore
<1>3. Allowed(age)' = Allowed(age)
  <2>1. SentSince(age)' = SentSince(age)
    BY DEF SentSince
  <2> QED
    BY <2>1 DEF Allowed
<1>4. ASSUME NEW n \in Holding', life'[n] = -age PROVE age + UntilGC(n)' <= Allowed(age)'
  <2>1. n \in Holding /\ life[n] = -age
    BY <1>4
  <2>2. UntilGC(n)' = UntilGC(n)
    <3>1. n \in gcDue <=> n \in gcDue'
      BY <1>4
    <3> QED
      BY <3>1 DEF UntilGC
  <2> QED
    BY <1>2, <1>3, <2>1, <2>2 DEF CopiesSoon
<1> QED
  BY <1>2, <1>3, <1>4 DEF CopiesSoon, OffersSoon

\* What a copy may weigh, as numbers.
LEMMA SoonNumbers ==
  ASSUME SoonInv, LifeTypeOK', NEW age \in Nat \ {0}
  PROVE  /\ Allowed(age) \in Nat /\ Allowed(age)' \in Nat /\ GCPeriod \in Nat \ {0}
         /\ \A n \in Replicas : UntilGC(n) \in 0..GCPeriod /\ UntilGC(n)' \in 0..GCPeriod
<1>1. LifeTypeOK /\ age \in Nat /\ GCPeriod \in Nat \ {0}
  BY LifeAssumption DEF SoonInv
<1>2. Allowed(age) \in Nat /\ Allowed(age)' \in Nat
  BY <1>1, AllowedType, AllowedNext
<1>3. ASSUME NEW n \in Replicas PROVE UntilGC(n)' \in 0..GCPeriod
  <2>1. uptime'[n] \in Nat
    BY LifeAssumption DEF LifeTypeOK
  <2>2. uptime'[n] % GCPeriod \in 0..(GCPeriod - 1)
    BY <1>1, <2>1, Remainder
  <2> QED
    BY <1>1, <2>2 DEF UntilGC
<1>4. ASSUME NEW n \in Replicas PROVE UntilGC(n) \in 0..GCPeriod
  BY <1>1, UntilGCType
<1> QED
  BY <1>1, <1>2, <1>3, <1>4

\* A step that sends copies of n leaves one more collector's period.
LEMMA OfferSoon ==
  ASSUME SoonInv, LifeTypeOK', (Patience <= RepPeriod)', NEW age \in Nat \ {0},
         NEW n \in Replicas, NEW S \in SUBSET Replicas,
         handoffs <= handoffs', restarts' = restarts,
         SentSince(age) \subseteq SentSince(age)',
         handoffs + 1 <= handoffs' \/ SentSince(age) # SentSince(age)',
         offers' = offers \cup Offer(n, S),
         life' = life, uptime' = uptime, gcDue' = gcDue
  PROVE  CopiesSoon(age)' /\ OffersSoon(age)'
<1>1. LifeTypeOK /\ age \in Nat /\ restarts <= restarts'
  BY DEF SoonInv, LifeTypeOK
<1>2. CopiesSoon(age) /\ OffersSoon(age)
  BY <1>1, SoonBefore
<1>3. Allowed(age) + GCPeriod <= Allowed(age)'
  BY <1>1, AllowedGrows
<1>4. /\ Allowed(age) \in Nat /\ Allowed(age)' \in Nat /\ GCPeriod \in Nat \ {0}
      /\ \A m \in Replicas : UntilGC(m) \in 0..GCPeriod
  BY SoonNumbers
<1>5. Holding' = Holding /\ Holding \subseteq Replicas
  BY <1>1 DEF Holding, LifeTypeOK
<1>6. ASSUME NEW m \in Holding', life'[m] = -age PROVE age + UntilGC(m)' <= Allowed(age)'
  <2>1. age + UntilGC(m) <= Allowed(age) /\ m \in Replicas
    BY <1>2, <1>5, <1>6 DEF CopiesSoon
  <2>2. UntilGC(m)' = UntilGC(m)
    BY DEF UntilGC
  <2> QED
    BY <1>3, <1>4, <2>1, <2>2
<1>7. ASSUME NEW o \in offers', o.ticks = -age PROVE age + GCPeriod <= Allowed(age)'
  <2>1. CASE o \in offers
    <3>1. age + GCPeriod <= Allowed(age)
      BY <1>2, <1>7, <2>1 DEF OffersSoon
    <3> QED
      BY <1>3, <1>4, <3>1
  <2>2. CASE o \in Offer(n, S)
    <3>1. n \in Holding /\ life[n] = -age
      BY <1>7, <2>2 DEF Offer
    <3>2. age + UntilGC(n) <= Allowed(age)
      BY <1>2, <3>1 DEF CopiesSoon
    <3> QED
      BY <1>3, <1>4, <3>2
  <2> QED
    BY <1>7, <2>1, <2>2
<1> QED
  BY <1>6, <1>7 DEF CopiesSoon, OffersSoon

LEMMA ReplicateSoon ==
  ASSUME SoonInv, LifeTypeOK', (Patience <= RepPeriod)', NEW age \in Nat \ {0},
         NEW n \in Replicas, Replicate(n)
  PROVE  CopiesSoon(age)' /\ OffersSoon(age)'
<1>1. handoffs \in Nat /\ handoffs <= handoffs' /\ restarts' = restarts
  BY DEF Replicate, SoonInv, LifeTypeOK
<1>2. SentSince(age) \subseteq SentSince(age)'
  BY DEF SentSince, Replicate
<1>3. n \in SentSince(age)' /\ n \notin SentSince(age)
  BY DEF SentSince, Replicate, SoonInv
<1>4. SentSince(age) # SentSince(age)'
  BY <1>3
<1>5. /\ offers' = offers \cup Offer(n, Replicas)
      /\ life' = life /\ uptime' = uptime /\ gcDue' = gcDue
  BY DEF Replicate
<1> QED
  BY <1>1, <1>2, <1>4, <1>5, OfferSoon

LEMMA MeetSoon ==
  ASSUME SoonInv, LifeTypeOK', (Patience <= RepPeriod)', NEW age \in Nat \ {0},
         NEW n \in Replicas, NEW m \in Replicas, MeetAgain(n, m)
  PROVE  CopiesSoon(age)' /\ OffersSoon(age)'
<1>1. handoffs \in Nat /\ restarts' = restarts
  BY DEF MeetAgain, SoonInv, LifeTypeOK
<1>2. SentSince(age)' = SentSince(age)
  BY DEF SentSince, MeetAgain
<1>3. /\ life' = life /\ uptime' = uptime /\ gcDue' = gcDue /\ repDue' = repDue
  BY DEF MeetAgain
<1>4. CASE offers' = offers \cup Offer(n, {m}) /\ handoffs' = handoffs + 1
  <2>1. handoffs <= handoffs' /\ handoffs + 1 <= handoffs' /\ {m} \in SUBSET Replicas
    BY <1>1, <1>4
  <2>2. SentSince(age) \subseteq SentSince(age)'
    BY <1>2
  <2> QED
    BY <1>1, <1>3, <1>4, <2>1, <2>2, OfferSoon
<1>5. CASE offers' = offers /\ handoffs' = handoffs
  <2>1. Holding' = Holding
    BY <1>3 DEF Holding
  <2> QED
    BY <1>1, <1>3, <1>5, <2>1, QuietSoon
<1> QED
  BY <1>4, <1>5 DEF MeetAgain

LEMMA ReceiveSoon ==
  ASSUME SoonInv, LifeTypeOK', (Patience <= RepPeriod)', NEW age \in Nat \ {0},
         NEW o \in offers, Receive(o)
  PROVE  CopiesSoon(age)' /\ OffersSoon(age)'
<1>1. /\ handoffs \in Nat /\ restarts \in Nat /\ handoffs <= handoffs' /\ restarts <= restarts'
      /\ o.to \in Replicas
  BY DEF Receive, SoonInv, LifeTypeOK
<1>2. CopiesSoon(age) /\ OffersSoon(age)
  BY <1>1, SoonBefore
<1>3. Allowed(age)' = Allowed(age) /\ \A n \in Replicas : UntilGC(n)' = UntilGC(n)
  BY DEF Allowed, SentSince, UntilGC, Receive
<1>4. Allowed(age) \in Nat /\ GCPeriod \in Nat /\ \A n \in Replicas : UntilGC(n) \in 0..GCPeriod
  BY SoonNumbers
<1>5. ASSUME NEW n \in Holding', life'[n] = -age PROVE age + UntilGC(n)' <= Allowed(age)'
  <2>1. n \in Replicas
    BY DEF LifeTypeOK
  <2>2. CASE n \in Holding /\ life'[n] = life[n]
    BY <1>2, <1>3, <1>5, <2>1, <2>2 DEF CopiesSoon
  <2>3. CASE ~(n \in Holding /\ life'[n] = life[n])
    <3>1. n = o.to /\ life'[n] = o.ticks
      <4>1. CASE o.to \in Holding
        BY <2>3, <4>1 DEF Receive, Holding
      <4>2. CASE o.to \notin Holding
        <5>1. life' = Keep(o.to, o.ticks)
          BY <4>2 DEF Receive, ReceivedLife
        <5>2. n \in Holding \cup {o.to}
          BY <5>1 DEF Keep, Holding
        <5> QED
          BY <2>3, <4>2, <5>1, <5>2 DEF Keep
      <4> QED
        BY <4>1, <4>2
    <3>2. age + GCPeriod <= Allowed(age)
      BY <1>2, <1>5, <3>1 DEF OffersSoon
    <3> QED
      BY <1>3, <1>4, <2>1, <3>2
  <2> QED
    BY <2>2, <2>3
<1>6. OffersSoon(age)'
  BY <1>2, <1>3 DEF OffersSoon, Receive
<1> QED
  BY <1>5, <1>6 DEF CopiesSoon

LEMMA RestartSoon ==
  ASSUME SoonInv, LifeTypeOK', (Patience <= RepPeriod)', NEW age \in Nat \ {0},
         NEW n \in Replicas, RestartNode(n)
  PROVE  CopiesSoon(age)' /\ OffersSoon(age)'
<1>1. /\ LifeTypeOK /\ handoffs <= handoffs' /\ restarts <= restarts' /\ restarts + 1 <= restarts'
  BY LifeAssumption DEF RestartNode, SoonInv, LifeTypeOK
<1>2. CopiesSoon(age) /\ OffersSoon(age)
  BY <1>1, SoonBefore
<1>3. Allowed(age) + GCPeriod <= Allowed(age)'
  <2>1. SentSince(age) \subseteq SentSince(age)'
    BY <1>1 DEF SentSince, RestartNode, LifeTypeOK
  <2> QED
    BY <1>1, <2>1, AllowedGrows
<1>4. /\ Allowed(age) \in Nat /\ Allowed(age)' \in Nat /\ GCPeriod \in Nat \ {0}
      /\ \A m \in Replicas : UntilGC(m) \in 0..GCPeriod /\ UntilGC(m)' \in 0..GCPeriod
  BY SoonNumbers
<1>5. Holding' = Holding /\ life' = life /\ offers' = offers /\ Holding \subseteq Replicas
  BY <1>1 DEF RestartNode, Holding, LifeTypeOK
<1>6. ASSUME NEW m \in Holding', life'[m] = -age PROVE age + UntilGC(m)' <= Allowed(age)'
  <2>1. age + UntilGC(m) <= Allowed(age) /\ m \in Replicas
    BY <1>2, <1>5, <1>6 DEF CopiesSoon
  <2> QED
    BY <1>3, <1>4, <2>1
<1>7. ASSUME NEW o \in offers', o.ticks = -age PROVE age + GCPeriod <= Allowed(age)'
  <2>1. age + GCPeriod <= Allowed(age)
    BY <1>2, <1>5, <1>7 DEF OffersSoon
  <2> QED
    BY <1>3, <1>4, <2>1
<1> QED
  BY <1>6, <1>7 DEF CopiesSoon, OffersSoon

LEMMA SoonInit ==
  LifeInit => SoonInv
<1> SUFFICES ASSUME LifeInit PROVE SoonInv
  OBVIOUS
<1>1. Holding = {} /\ offers = {} /\ repDue = {}
  BY DEF LifeInit, Holding
<1> QED
  BY <1>1, LifeTypeInit DEF SoonInv, CopiesSoon, OffersSoon

LEMMA SoonStep ==
  SoonInv /\ [LifeNext]_lifeVars => SoonInv'
<1> SUFFICES ASSUME SoonInv, [LifeNext]_lifeVars PROVE SoonInv'
  OBVIOUS
<1>1. LifeTypeOK /\ LifeTypeOK'
  BY LifeTypeStep DEF SoonInv
<1>2. \A m \in repDue' : uptime'[m] = 0
  <2>1. CASE Tick
    <3> SUFFICES ASSUME NEW m \in repDue' PROVE uptime'[m] = 0
      OBVIOUS
    <3>1. m \in Replicas /\ uptime'[m] % RepPeriod = 0
      BY <2>1 DEF Tick, RepFires
    <3>2. uptime'[m] \in 0..(RepPeriod - 1) /\ RepPeriod \in Nat \ {0}
      BY <1>1, <3>1, LifeAssumption DEF LifeTypeOK
    <3>3. uptime'[m] \in Nat /\ uptime'[m] = RepPeriod * 0 + uptime'[m]
      BY <3>2
    <3>4. uptime'[m] % RepPeriod = uptime'[m]
      BY <3>2, <3>3, RemainderUnique
    <3> QED
      BY <3>1, <3>4
  <2>2. ASSUME NEW n \in Replicas, RestartNode(n) PROVE \A m \in repDue' : uptime'[m] = 0
    BY <1>1, <2>2 DEF RestartNode, SoonInv, LifeTypeOK
  <2>3. CASE uptime' = uptime /\ repDue' \subseteq repDue
    BY <2>3 DEF SoonInv
  <2> QED
    BY <2>1, <2>2, <2>3 DEF LifeNext, lifeVars, LifeShare, Collect, Replicate, MeetAgain,
       Receive, LoseOffer
<1>3. ASSUME (Patience <= RepPeriod)', NEW age \in Nat \ {0}
      PROVE  CopiesSoon(age)' /\ OffersSoon(age)'
  <2>1. CASE Tick
    BY <1>1, <1>3, <2>1, TickSoon
  <2>2. ASSUME NEW n \in Replicas, LifeShare(n) PROVE CopiesSoon(age)' /\ OffersSoon(age)'
    <3>1. Holding' = Holding \cup {n} /\ life' = Keep(n, Day) /\ Day > 0 /\ Day \in Nat
      BY <2>2, LifeAssumption DEF LifeShare, Keep, Holding
    <3>2. \A m \in Holding' : life'[m] = -age => m \in Holding /\ life[m] = -age
      BY <3>1 DEF Keep
    <3> QED
      BY <1>1, <1>3, <2>2, <3>2, QuietSoon DEF LifeShare
  <2>3. ASSUME NEW n \in Replicas, Collect(n) PROVE CopiesSoon(age)' /\ OffersSoon(age)'
    <3>1. ASSUME NEW m \in Holding', life'[m] = -age
          PROVE  m \in Holding /\ life[m] = -age /\ m # n
      <4>1. CASE n \in Holding /\ Expired(life[n])
        BY <2>3, <3>1, <4>1 DEF Collect, Restrict, Holding
      <4>2. CASE ~(n \in Holding /\ Expired(life[n]))
        <5>1. life' = life /\ Holding' = Holding
          BY <2>3, <4>2 DEF Collect, Holding
        <5>2. Expired(life[m])
          BY <3>1, <5>1 DEF Expired
        <5> QED
          BY <3>1, <4>2, <5>1, <5>2
      <4> QED
        BY <4>1, <4>2
    <3>2. \A m \in Holding' : life'[m] = -age =>
            /\ m \in Holding /\ life[m] = -age
            /\ m \in gcDue <=> m \in gcDue'
      BY <2>3, <3>1 DEF Collect
    <3> QED
      BY <1>1, <1>3, <2>3, <3>2, QuietSoon DEF Collect
  <2>4. ASSUME NEW n \in Replicas, Replicate(n) PROVE CopiesSoon(age)' /\ OffersSoon(age)'
    BY <1>1, <1>3, <2>4, ReplicateSoon
  <2>5. ASSUME NEW n \in Replicas, NEW m \in Replicas, MeetAgain(n, m)
        PROVE  CopiesSoon(age)' /\ OffersSoon(age)'
    BY <1>1, <1>3, <2>5, MeetSoon
  <2>6. ASSUME NEW o \in offers, Receive(o) PROVE CopiesSoon(age)' /\ OffersSoon(age)'
    BY <1>1, <1>3, <2>6, ReceiveSoon
  <2>7. ASSUME NEW o \in offers, LoseOffer(o) PROVE CopiesSoon(age)' /\ OffersSoon(age)'
    <3>1. Holding' = Holding
      BY <2>7 DEF LoseOffer, Holding
    <3> QED
      BY <1>1, <1>3, <2>7, <3>1, QuietSoon DEF LoseOffer
  <2>8. ASSUME NEW n \in Replicas, RestartNode(n) PROVE CopiesSoon(age)' /\ OffersSoon(age)'
    BY <1>1, <1>3, <2>8, RestartSoon
  <2>9. CASE UNCHANGED lifeVars
    <3>1. Holding' = Holding
      BY <2>9 DEF lifeVars, Holding
    <3> QED
      BY <1>1, <1>3, <2>9, <3>1, QuietSoon DEF lifeVars
  <2> QED
    BY <2>1, <2>2, <2>3, <2>4, <2>5, <2>6, <2>7, <2>8, <2>9 DEF LifeNext
<1> QED
  BY <1>1, <1>2, <1>3 DEF SoonInv

LEMMA SoonEnough ==
  SoonInv => ExpiredGoSoon
<1> SUFFICES ASSUME SoonInv, Patience <= RepPeriod, NEW n \in Holding
             PROVE  -life[n] <= Patience
  BY DEF ExpiredGoSoon
<1>1. LifeTypeOK /\ n \in Replicas /\ life[n] \in Int
  BY DEF SoonInv, LifeTypeOK
<1>2. CASE life[n] >= 0
  <2>1. 0 \in Nat
    OBVIOUS
  <2>2. Patience \in Nat
    BY <1>1, <2>1, AllowedType
  <2> QED
    BY <1>1, <1>2, <2>2
<1>3. CASE life[n] < 0
  <2> DEFINE age == -life[n]
  <2>1. age \in Nat \ {0} /\ age \in Nat /\ life[n] = -age
    BY <1>1, <1>3
  <2> HIDE DEF age
  <2>2. Allowed(age) \in Nat /\ Patience \in Nat /\ Allowed(age) <= Patience
    BY <1>1, <2>1, AllowedType
  <2>3. UntilGC(n) \in 0..GCPeriod /\ GCPeriod \in Nat
    BY <1>1, UntilGCType, LifeAssumption
  <2>4. age + UntilGC(n) <= Allowed(age)
    BY <2>1 DEF SoonInv, CopiesSoon
  <2> QED
    BY <2>1, <2>2, <2>3, <2>4
<1> QED
  BY <1>1, <1>2, <1>3

\* storage.go:218, workers.go: for any number of nodes and any periods, an
\* expired chunk is gone from every node after a collector's period per node
\* and one more, and one per handoff and restart, if all these fit between
\* two replications of a node.
THEOREM ExpiredSoonGone == LifeSpec => []ExpiredGoSoon
BY SoonInit, SoonStep, SoonEnough, PTL DEF LifeSpec
=============================================================================

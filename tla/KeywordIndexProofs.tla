-------------------------- MODULE KeywordIndexProofs --------------------------
(***************************************************************************)
(* The index of a keyword, for any limit, any chunks shared and any lists   *)
(* sent by peers: it stays well-formed however updates interleave, and       *)
(* until two of them overlap it implements the bounded set PointerSet.      *)
(* And of what indexContent does next, to announce the update: for any      *)
(* nodes, brokers, calls and clients, every broker found is asked, and the  *)
(* streams of a broker's clients are faithful (PubSub, Telemetry, Alerts).  *)
(***************************************************************************)
EXTENDS KeywordIndex, Alerts, FiniteSetTheorems, SequenceTheorems, TLAPS

-----------------------------------------------------------------------------
(* Lists *)

\* The elements of a list are finitely many, and as many as the list is long
\* just when none occurs twice.
LEMMA ListSize ==
  ASSUME NEW T, NEW s \in Seq(T)
  PROVE  /\ IsFiniteSet(Range(s)) /\ Range(s) \subseteq T
         /\ IsInjective(s) <=> Cardinality(Range(s)) = Len(s)
<1> DEFINE D == 1..Len(s)
<1>1. DOMAIN s = D /\ Len(s) \in Nat /\ s \in [D -> T]
  BY LenProperties
<1>2. IsFiniteSet(D) /\ Cardinality(D) = Len(s)
  <2>1. 1 \in Int /\ Len(s) \in Int
    BY <1>1
  <2>2. IsFiniteSet(D) /\ Cardinality(D) = IF 1 > Len(s) THEN 0 ELSE Len(s) - 1 + 1
    BY <2>1, FS_Interval
  <2> QED
    BY <1>1, <2>2
<1>3. s \in Surjection(D, Range(s))
  BY <1>1 DEF Surjection, Range
<1>4. IsInjective(s) <=> s \in Injection(D, Range(s))
  BY <1>1, <1>3 DEF Injection, Surjection, IsInjective
<1>5. IsFiniteSet(Range(s)) /\
        (Cardinality(Range(s)) = Cardinality(D) <=> s \in Injection(D, Range(s)))
  BY <1>2, <1>3, FS_Surjection
<1>6. Range(s) \subseteq T
  BY <1>1 DEF Range
<1> QED
  BY <1>2, <1>4, <1>5, <1>6

\* Sorted lists the elements of a finite set of numbers, each of them once.
LEMMA SortedLists ==
  ASSUME NEW S \in SUBSET Nat, IsFiniteSet(S)
  PROVE  /\ Sorted(S) \in Seq(S) /\ Len(Sorted(S)) = Cardinality(S)
         /\ IsInjective(Sorted(S)) /\ Range(Sorted(S)) = S
<1> DEFINE n == Cardinality(S)
           below(x) == {y \in S : y < x}
           rank == [x \in S |-> Cardinality(below(x)) + 1]
<1>1. n \in Nat
  BY FS_CardinalityType
<1>2. ASSUME NEW x \in S
      PROVE  /\ IsFiniteSet(below(x)) /\ Cardinality(below(x)) \in Nat
             /\ Cardinality(below(x)) < n
  <2>1. below(x) \in SUBSET S /\ x \notin below(x)
    OBVIOUS
  <2>2. IsFiniteSet(below(x)) /\ Cardinality(below(x)) <= n
        /\ (Cardinality(below(x)) = n => S = below(x))
    BY <2>1, FS_Subset
  <2>3. Cardinality(below(x)) \in Nat
    BY <2>2, FS_CardinalityType
  <2> QED
    BY <1>1, <2>1, <2>2, <2>3
<1>3. rank \in [S -> 1..n]
  <2>1. ASSUME NEW x \in S PROVE Cardinality(below(x)) + 1 \in 1..n
    <3> HIDE DEF below, n
    <3> QED
      BY <1>1, <1>2
  <2> QED
    BY <2>1
<1>4. ASSUME NEW x \in S, NEW y \in S, x < y
      PROVE  rank[x] # rank[y]
  <2>1. below(x) \in SUBSET below(y) /\ x \in below(y) /\ x \notin below(x)
    <3>1. \A z \in Nat : z < x => z < y
      BY <1>4
    <3>2. ~(x < x)
      OBVIOUS
    <3> QED
      BY <1>4, <3>1, <3>2
  <2>2. Cardinality(below(x)) = Cardinality(below(y)) => below(y) = below(x)
    BY <1>2, <2>1, FS_Subset
  <2>3. Cardinality(below(x)) # Cardinality(below(y))
    BY <2>1, <2>2
  <2>4. Cardinality(below(x)) \in Nat /\ Cardinality(below(y)) \in Nat
    BY <1>2
  <2>5. rank[x] = Cardinality(below(x)) + 1 /\ rank[y] = Cardinality(below(y)) + 1
    OBVIOUS
  <2> HIDE DEF below, rank
  <2> QED
    BY <2>3, <2>4, <2>5
<1>5. rank \in Injection(S, 1..n)
  <2>1. \A x, y \in S : x < y \/ y < x \/ x = y
    OBVIOUS
  <2>2. \A x, y \in S : rank[x] = rank[y] => x = y
    <3> HIDE DEF rank
    <3> QED
      BY <1>4, <2>1
  <2> HIDE DEF rank
  <2> QED
    BY <1>3, <2>2 DEF Injection, IsInjective
<1>6. rank \in Surjection(S, 1..n)
  <2>1. 1 \in Int /\ n \in Int
    BY <1>1
  <2>2. IsFiniteSet(1..n) /\ Cardinality(1..n) = IF 1 > n THEN 0 ELSE n - 1 + 1
    BY <2>1, FS_Interval
  <2>3. Cardinality(1..n) = n
    BY <1>1, <2>2
  <2> HIDE DEF rank
  <2> QED
    BY <1>5, <2>2, <2>3, FS_Injection
<1> DEFINE T == Sorted(S)
<1>7. DOMAIN T = 1..n
  BY DEF Sorted
<1>8. ASSUME NEW i \in 1..n
      PROVE  T[i] \in S /\ rank[T[i]] = i
  <2>1. PICK x \in S : rank[x] = i
    BY <1>6 DEF Surjection
  <2>2. Cardinality(below(x)) = i - 1
    <3>1. Cardinality(below(x)) + 1 = i
      BY <2>1
    <3>2. Cardinality(below(x)) \in Nat /\ i \in Int
      BY <1>2
    <3> HIDE DEF below, rank
    <3> QED
      BY <3>1, <3>2
  <2>3. T[i] = CHOOSE z \in S : Cardinality(below(z)) = i - 1
    BY <1>8 DEF Sorted
  <2>4. T[i] \in S /\ Cardinality(below(T[i])) = i - 1
    BY <2>2, <2>3
  <2>5. rank[T[i]] = (i - 1) + 1
    <3> HIDE DEF T
    <3> QED
      BY <2>4
  <2>6. (i - 1) + 1 = i
    OBVIOUS
  <2> QED
    BY <2>4, <2>5, <2>6
<1> HIDE DEF rank
<1>9. T \in [1..n -> S]
  <2>1. T = [i \in 1..n |-> T[i]]
    BY DEF Sorted
  <2> HIDE DEF T
  <2> QED
    BY <1>8, <2>1
<1>10. T \in Seq(S) /\ Len(T) = n
  <2> HIDE DEF T
  <2> QED
    BY <1>1, <1>9, SeqDef, LenProperties
<1>11. IsInjective(T)
  <2> HIDE DEF T
  <2> QED
    BY <1>7, <1>8 DEF IsInjective
<1>12. \A x \in S : x = T[rank[x]] /\ rank[x] \in 1..n
  <2> HIDE DEF T
  <2>1. \A x, y \in S : rank[x] = rank[y] => x = y
    BY <1>3, <1>5 DEF Injection, IsInjective
  <2>2. \A x \in S : rank[x] \in 1..n
    BY <1>3
  <2> QED
    BY <1>8, <2>1, <2>2
<1>13. Range(T) = S
  <2> HIDE DEF T
  <2> QED
    BY <1>7, <1>8, <1>12 DEF Range
<1> QED
  BY <1>10, <1>11, <1>13

\* Pointers are compared as numbers, and what peers send consists of pointers.
LEMMA PointersType ==
  /\ Pointers \subseteq Nat /\ Sharers \subseteq Pointers
  /\ Cap \in Nat \ {0}
  /\ ProperList(<<>>)
<1>1. /\ Sharers \subseteq Nat /\ Incoming \cup Remote \subseteq Seq(Nat)
      /\ Cap \in Nat \ {0}
  BY IndexAssumption
<1>2. \A s \in Incoming \cup Remote : Range(s) \subseteq Nat
  BY <1>1, ListSize
<1>3. Pointers \subseteq Nat /\ Sharers \subseteq Pointers
  BY <1>1, <1>2 DEF Pointers
<1>4. <<>> \in Seq(Pointers) /\ Len(<<>>) = 0
  BY EmptySeq
<1>5. DOMAIN <<>> = {}
  OBVIOUS
<1> QED
  BY <1>1, <1>3, <1>4, <1>5 DEF ProperList, IsInjective

\* indexContent adds its pointer to a list, and drops one from a full list.
LEMMA AddedPointer ==
  ASSUME NEW list, ProperList(list), NEW p \in Sharers, p \notin Range(list)
  PROVE  /\ ProperList(WithPointer(list, p))
         /\ Keeps(WithPointer(list, p), Range(list))
<1> DEFINE n == Len(list)
           longer == Append(list, p)
<1>1. /\ list \in Seq(Pointers) /\ n \in Nat /\ n <= Cap /\ Cap \in Nat
      /\ p \in Pointers /\ DOMAIN list = 1..n
  BY PointersType, LenProperties DEF ProperList
<1>2. /\ longer \in Seq(Pointers) /\ longer # <<>> /\ Len(longer) = n + 1
      /\ \A i \in 1..n : longer[i] = list[i]
      /\ longer[n + 1] = p
  BY <1>1, AppendProperties
<1>3. DOMAIN longer = 1..(n + 1)
  BY <1>2, LenProperties
<1> HIDE DEF longer
<1>4. \A i \in 1..n : list[i] # p
  BY <1>1 DEF Range
<1>5. \A i, j \in 1..n : list[i] = list[j] => i = j
  BY <1>1 DEF ProperList, IsInjective
<1>6. \A i, j \in 1..(n + 1) : longer[i] = longer[j] => i = j
  <2>1. \A i \in 1..(n + 1) : i \in 1..n \/ i = n + 1
    BY <1>1
  <2> QED
    BY <1>2, <1>4, <1>5, <2>1
<1>7. IsInjective(longer)
  BY <1>3, <1>6 DEF IsInjective
<1>8. CASE n + 1 > Cap
  <2>1. WithPointer(list, p) = Tail(longer)
    BY <1>2, <1>8 DEF WithPointer, longer
  <2>2. /\ Tail(longer) \in Seq(Pointers) /\ Len(Tail(longer)) = (n + 1) - 1
        /\ \A i \in 1..Len(Tail(longer)) : Tail(longer)[i] = longer[i + 1]
    BY <1>2, HeadTailProperties
  <2>3. Len(Tail(longer)) = Cap /\ n = Cap
    <3>1. n = Cap /\ (n + 1) - 1 = Cap
      <4> HIDE DEF n
      <4> QED
        BY <1>1, <1>8
    <3> QED
      BY <2>2, <3>1
  <2>4. DOMAIN Tail(longer) = 1..Cap
    BY <2>2, <2>3, LenProperties
  <2>5. ASSUME NEW i \in 1..Cap, NEW j \in 1..Cap,
               Tail(longer)[i] = Tail(longer)[j]
        PROVE  i = j
    <3>1. i + 1 \in 1..(n + 1) /\ j + 1 \in 1..(n + 1)
      BY <1>1, <2>3
    <3>2. longer[i + 1] = longer[j + 1]
      BY <2>2, <2>3, <2>5
    <3>3. i + 1 = j + 1
      BY <1>6, <3>1, <3>2
    <3> QED
      BY <3>3
  <2>6. IsInjective(Tail(longer))
    BY <2>4, <2>5 DEF IsInjective
  <2>7. Cardinality(Range(Tail(longer))) = Cap
    BY <2>2, <2>3, <2>6, ListSize
  <2>8. Len(Tail(longer)) <= Cap
    BY <1>1, <2>3
  <2> QED
    BY <2>1, <2>2, <2>6, <2>7, <2>8 DEF ProperList, Keeps
<1>9. CASE ~(n + 1 > Cap)
  <2>1. WithPointer(list, p) = longer
    BY <1>2, <1>9 DEF WithPointer, longer
  <2>2. Len(longer) <= Cap
    BY <1>1, <1>2, <1>9
  <2>3. Range(list) \subseteq Range(longer)
    <3>1. ASSUME NEW i \in 1..n PROVE i \in DOMAIN longer /\ list[i] = longer[i]
      BY <1>1, <1>2, <1>3
    <3> QED
      BY <1>1, <3>1 DEF Range
  <2> QED
    BY <1>2, <1>7, <2>1, <2>2, <2>3 DEF ProperList, Keeps
<1> QED
  BY <1>8, <1>9

\* mergePointers keeps what either list has, and drops only from what is then
\* a full list.
LEMMA MergedPointers ==
  ASSUME NEW p1, NEW p2, ProperList(p1), ProperList(p2)
  PROVE  /\ ProperList(mergePointers(p1, p2))
         /\ Keeps(mergePointers(p1, p2), Range(p1))
<1> DEFINE U == Range(p1) \cup Range(p2)
           res == Sorted(U)
           n == Len(res)
           last == SubSeq(res, n - Cap + 1, n)
<1>1. U \in SUBSET Nat /\ U \in SUBSET Pointers /\ IsFiniteSet(U)
  BY PointersType, ListSize, FS_Union DEF ProperList
<1> HIDE DEF U
<1>2. res \in Seq(U) /\ IsInjective(res) /\ Range(res) = U
  BY <1>1, SortedLists
<1>3. n \in Nat /\ res \in [1..n -> U] /\ DOMAIN res = 1..n /\ Cap \in Nat \ {0}
  BY <1>2, LenProperties, PointersType
<1>4. res \in Seq(Pointers)
  BY <1>1, <1>2, SeqMonotonic
<1> HIDE DEF res, n
<1>5. CASE n > Cap
  <2>1. mergePointers(p1, p2) = last
    BY <1>5 DEF mergePointers, res, n, U
  <2>2. \A i \in (n - Cap + 1)..n : res[i] \in Pointers
    <3>1. \A i \in (n - Cap + 1)..n : i \in 1..n
      BY <1>3, <1>5
    <3> QED
      BY <1>1, <1>3, <3>1
  <2>3. /\ last \in Seq(Pointers)
        /\ Len(last) = IF n - Cap + 1 <= n THEN n - (n - Cap + 1) + 1 ELSE 0
        /\ \A i \in 1..(n - (n - Cap + 1) + 1) : last[i] = res[(n - Cap + 1) + i - 1]
    <3>1. n - Cap + 1 \in Int /\ n \in Int
      BY <1>3
    <3> HIDE DEF last
    <3> QED
      BY <2>2, <3>1, SubSeqProperties DEF last
  <2> HIDE DEF last
  <2>4. Len(last) = Cap /\ n - (n - Cap + 1) + 1 = Cap
    BY <1>3, <2>3
  <2>5. DOMAIN last = 1..Cap
    BY <2>3, <2>4, LenProperties
  <2>6. ASSUME NEW i \in 1..Cap, NEW j \in 1..Cap, last[i] = last[j]
        PROVE  i = j
    <3> DEFINE a == (n - Cap + 1) + i - 1
               b == (n - Cap + 1) + j - 1
    <3>1. a \in 1..n /\ b \in 1..n
      BY <1>3, <1>5
    <3>2. last[i] = res[a] /\ last[j] = res[b]
      BY <2>3, <2>4
    <3>3. a = b
      BY <1>2, <1>3, <2>6, <3>1, <3>2 DEF IsInjective
    <3> QED
      BY <1>3, <3>3
  <2>7. IsInjective(last)
    BY <2>5, <2>6 DEF IsInjective
  <2>8. Cardinality(Range(last)) = Cap
    BY <2>3, <2>4, <2>7, ListSize
  <2>9. Len(last) <= Cap
    BY <1>3, <2>4
  <2> QED
    BY <2>1, <2>3, <2>7, <2>8, <2>9 DEF ProperList, Keeps
<1>6. CASE ~(n > Cap)
  <2>1. mergePointers(p1, p2) = res /\ Len(res) <= Cap
    BY <1>3, <1>6 DEF mergePointers, res, n, U
  <2>2. Range(p1) \subseteq Range(res)
    BY <1>2 DEF U
  <2> QED
    BY <1>2, <1>4, <2>1, <2>2 DEF ProperList, Keeps
<1> QED
  BY <1>5, <1>6

-----------------------------------------------------------------------------
(* The index *)

\* What a goroutine of indexContent reads is a proper list.
LEMMA ReadProper ==
  ASSUME ListsInv, NEW list \in ReadLists
  PROVE  ProperList(list) /\ (IsIndex(cell) => list = cell)
<1>1. CASE IsIndex(cell)
  BY <1>1 DEF ReadLists, ListsInv, IsIndex
<1>2. CASE ~IsIndex(cell)
  <2>1. list \in {<<>>} \cup Remote
    BY <1>2 DEF ReadLists, IsIndex
  <2> QED
    BY <1>2, <2>1, PointersType, PeersAssumption
<1> QED
  BY <1>1, <1>2

\* What handleStore is about to store is a proper list that keeps the index.
LEMMA HandledProper ==
  ASSUME ListsInv, NEW list \in Incoming
  PROVE  ProperList(Merged(list)) /\ Keeps(Merged(list), Listed(cell))
<1>1. ProperList(list)
  BY PeersAssumption
<1>2. CASE IsIndex(cell)
  <2>1. ProperList(cell)
    BY <1>2 DEF ListsInv
  <2> QED
    BY <1>1, <1>2, <2>1, MergedPointers DEF Merged, Listed
<1>3. CASE ~IsIndex(cell)
  BY <1>1, <1>3 DEF Merged, Listed, Keeps
<1> QED
  BY <1>2, <1>3

\* Types, and lists that are proper wherever they are held.
IndexInv == TypeOK /\ ListsInv

LEMMA InitIndex == Init => IndexInv /\ AloneInv
BY DEF Init, IndexInv, TypeOK, ListsInv, AloneInv, IsIndex

LEMMA NextIndex == IndexInv /\ [Next]_vars => IndexInv'
<1> SUFFICES ASSUME IndexInv, [Next]_vars PROVE IndexInv'
  OBVIOUS
<1>0. TypeOK /\ ListsInv
  BY DEF IndexInv
<1>b. overlap' \in BOOLEAN
  BY <1>0 DEF Next, ReadIndex, StoreIndex, HandleRead, HandleStore,
              StoreContent, Forget, Starts, TypeOK, vars, InProgress
<1>1. ASSUME NEW p \in Sharers, ReadIndex(p) PROVE IndexInv'
  <2>1. PICK list \in ReadLists :
          /\ view' = [view EXCEPT ![p] = list]
          /\ sharer' =
               [sharer EXCEPT ![p] = IF p \in Range(list) THEN "done" ELSE "store"]
    BY <1>1 DEF ReadIndex
  <2>2. UNCHANGED <<cell, handled, arrived>>
    BY <1>1 DEF ReadIndex
  <2>3. ProperList(list)
    BY <1>0, ReadProper
  <2>4. TypeOK'
    BY <1>0, <1>b, <2>1, <2>2, <2>3 DEF TypeOK, ProperList
  <2>5. ListsInv'
    BY <1>0, <2>1, <2>2, <2>3 DEF ListsInv, TypeOK, IsIndex
  <2> QED
    BY <2>4, <2>5 DEF IndexInv
<1>2. ASSUME NEW p \in Sharers, StoreIndex(p) PROVE IndexInv'
  <2>1. /\ sharer[p] = "store" /\ cell' = Stored(WithPointer(view[p], p))
        /\ sharer' = [sharer EXCEPT ![p] = "done"]
        /\ UNCHANGED <<view, handled, arrived>>
    BY <1>2 DEF StoreIndex
  <2>2. ProperList(WithPointer(view[p], p))
    BY <1>0, <2>1, AddedPointer DEF ListsInv
  <2>3. TypeOK'
    BY <1>0, <1>b, <2>1, <2>2 DEF TypeOK, ProperList, Stored
  <2>4. ListsInv'
    BY <1>0, <2>1, <2>2 DEF ListsInv, TypeOK, IsIndex, Stored
  <2> QED
    BY <2>3, <2>4 DEF IndexInv
<1>3. ASSUME NEW list \in Incoming, HandleRead(list) PROVE IndexInv'
  <2>1. /\ handled' = Merged(list) /\ arrived' = arrived \cup {list}
        /\ UNCHANGED <<cell, sharer, view>>
    BY <1>3 DEF HandleRead
  <2>2. ProperList(Merged(list))
    BY <1>0, HandledProper
  <2>3. TypeOK'
    BY <1>0, <1>b, <2>1, <2>2 DEF TypeOK, ProperList
  <2>4. ListsInv'
    BY <1>0, <2>1, <2>2 DEF ListsInv, IsIndex
  <2> QED
    BY <2>3, <2>4 DEF IndexInv
<1>4. CASE HandleStore
  BY <1>0, <1>b, <1>4
  DEF HandleStore, Stored, IndexInv, TypeOK, ListsInv, IsIndex, ProperList
<1>5. CASE StoreContent \/ Forget
  BY <1>0, <1>b, <1>5
  DEF StoreContent, Forget, IndexInv, TypeOK, ListsInv, IsIndex
<1>6. CASE UNCHANGED vars
  BY <1>0, <1>6 DEF vars, IndexInv, TypeOK, ListsInv, IsIndex
<1> QED
  BY <1>1, <1>2, <1>3, <1>4, <1>5, <1>6 DEF Next

\* Every variable keeps its type (engine.go:392-425, commands.go:200-244).
THEOREM TypeCorrect == Spec => []TypeOK
<1>1. IndexInv => TypeOK
  BY DEF IndexInv
<1> QED
  BY <1>1, InitIndex, NextIndex, PTL DEF Spec

\* However Shares and STOREs interleave, no index grows beyond its limit or
\* lists a pointer twice (engine.go:411-417, commands.go:69-86).
THEOREM IndexWellFormed == Spec => []WellFormed
<1>1. IndexInv => WellFormed
  BY ListSize DEF IndexInv, ListsInv, ProperList, WellFormed
<1> QED
  BY <1>1, InitIndex, NextIndex, PTL DEF Spec

-----------------------------------------------------------------------------
(* Refinement *)

\* An update that begins while another is in progress ends the claim.
LEMMA StartsAlone ==
  ASSUME Starts, ~overlap'
  PROVE  ~overlap /\ handled = NoView /\ \A p \in Sharers : sharer[p] # "store"
BY DEF Starts, InProgress

LEMMA NextAlone == IndexInv /\ AloneInv /\ [Next]_vars => AloneInv'
<1> SUFFICES ASSUME IndexInv, AloneInv, [Next]_vars, ~overlap' PROVE AloneInv'
  BY DEF AloneInv
<1>0. TypeOK /\ ListsInv
  BY DEF IndexInv
<1>1. ASSUME NEW p \in Sharers, ReadIndex(p) PROVE AloneInv'
  <2>1. PICK list \in ReadLists :
          /\ view' = [view EXCEPT ![p] = list]
          /\ sharer' =
               [sharer EXCEPT ![p] = IF p \in Range(list) THEN "done" ELSE "store"]
    BY <1>1 DEF ReadIndex
  <2>2. cell' = cell /\ handled' = NoView /\ \A q \in Sharers : sharer[q] # "store"
    BY <1>1, StartsAlone DEF ReadIndex
  <2>3. \A q \in Sharers : sharer'[q] = "store" => q = p
    BY <1>0, <2>1, <2>2 DEF TypeOK
  <2>4. IsIndex(cell) => view'[p] = cell
    BY <1>0, <2>1, ReadProper DEF TypeOK
  <2> QED
    BY <2>2, <2>3, <2>4 DEF AloneInv, IsIndex
<1>2. ASSUME NEW p \in Sharers, StoreIndex(p) PROVE AloneInv'
  <2>1. /\ sharer[p] = "store" /\ sharer' = [sharer EXCEPT ![p] = "done"]
        /\ handled' = handled /\ ~overlap
    BY <1>2 DEF StoreIndex
  <2>2. handled = NoView /\ \A q \in Sharers : sharer'[q] # "store"
    BY <1>0, <2>1 DEF AloneInv, TypeOK
  <2> QED
    BY <2>1, <2>2 DEF AloneInv
<1>3. ASSUME NEW list \in Incoming, HandleRead(list) PROVE AloneInv'
  <2>1. /\ handled' = Merged(list) /\ cell' = cell /\ sharer' = sharer
        /\ \A q \in Sharers : sharer[q] # "store"
    BY <1>3, StartsAlone DEF HandleRead
  <2>2. Keeps(handled', Listed(cell'))
    BY <1>0, <2>1, HandledProper
  <2> QED
    BY <2>1, <2>2 DEF AloneInv
<1>4. CASE HandleStore
  <2>1. handled' = NoView /\ sharer' = sharer /\ handled # NoView /\ ~overlap
    BY <1>4 DEF HandleStore
  <2>2. \A q \in Sharers : sharer'[q] # "store"
    BY <2>1 DEF AloneInv
  <2> QED
    BY <2>1, <2>2 DEF AloneInv
<1>5. CASE StoreContent \/ Forget
  BY <1>5, StartsAlone DEF StoreContent, Forget, AloneInv
<1>6. CASE UNCHANGED vars
  BY <1>6 DEF vars, AloneInv, IsIndex, Listed
<1> QED
  BY <1>1, <1>2, <1>3, <1>4, <1>5, <1>6 DEF Next

\* The instance of PointerSet counts as this module does.
LEMMA SameCardinality == \A S : Alone!Cardinality(S) = Cardinality(S)
BY DEF Alone!Cardinality, Cardinality

\* Replacing an index by a proper list that keeps it is an abstract step.
LEMMA KeptIsAdded ==
  ASSUME NEW list, ProperList(list), NEW old, Keeps(list, old)
  PROVE  /\ Range(list) \in Alone!Bounded
         /\ old \subseteq Range(list) \/ Cardinality(Range(list)) = Cap
<1>1. Range(list) \in SUBSET Pointers /\ Cardinality(Range(list)) <= Cap
  BY ListSize DEF ProperList
<1> QED
  BY <1>1, SameCardinality DEF Alone!Bounded, Keeps

\* As long as no update has begun while another was in progress, an index
\* loses pointers only when it is full or leaves the storage: read, add and
\* store implement the bounded set of PointerSet.
THEOREM IndexImplementsPointerSet == Spec => MergesAlone
<1> DEFINE abstract == IF overlap THEN {} ELSE Listed(cell)
<1>1. Init => Alone!Init
  BY DEF Init, Alone!Init, Listed, IsIndex
<1>2. IndexInv /\ AloneInv /\ [Next]_vars
        => [Alone!Add \/ Alone!Trim \/ Alone!Forget]_abstract
  <2> SUFFICES ASSUME IndexInv, AloneInv, [Next]_vars, ~(abstract' = {})
               PROVE  Alone!Add \/ Alone!Trim \/ abstract' = abstract
    BY DEF Alone!Forget
  <2>0. ~overlap' /\ IsIndex(cell') /\ abstract' = Range(cell') /\ TypeOK /\ ListsInv
    BY DEF Listed, IndexInv
  <2>a. ASSUME NEW list, ProperList(list), Keeps(list, abstract), cell' = list
        PROVE  Alone!Add \/ Alone!Trim
    <3>1. /\ Range(list) \in Alone!Bounded
          /\ abstract \subseteq Range(list) \/ Cardinality(Range(list)) = Cap
      <4> HIDE DEF abstract
      <4> QED
        BY <2>a, KeptIsAdded
    <3>2. abstract' = Range(list)
      BY <2>0, <2>a
    <3> QED
      BY <3>1, <3>2, SameCardinality DEF Alone!Add, Alone!Trim
  <2>1. ASSUME NEW p \in Sharers, StoreIndex(p)
        PROVE  Alone!Add \/ Alone!Trim
    <3>1. /\ sharer[p] = "store" /\ ~overlap
          /\ cell' = Stored(WithPointer(view[p], p))
      BY <2>0, <2>1 DEF StoreIndex
    <3>2. cell' = WithPointer(view[p], p)
      BY <2>0, <3>1 DEF Stored, IsIndex
    <3>3. ProperList(view[p]) /\ p \notin Range(view[p])
      BY <2>0, <3>1 DEF ListsInv
    <3>4. abstract \subseteq Range(view[p])
      BY <3>1 DEF AloneInv, Listed
    <3>5. Keeps(WithPointer(view[p], p), abstract)
      BY <3>3, <3>4, AddedPointer DEF Keeps
    <3> QED
      BY <2>a, <3>2, <3>3, <3>5, AddedPointer
  <2>2. CASE HandleStore
    <3>1. handled # NoView /\ ~overlap /\ cell' = Stored(handled)
      BY <2>0, <2>2 DEF HandleStore
    <3>2. cell' = handled
      BY <2>0, <3>1 DEF Stored, IsIndex
    <3>3. ProperList(handled) /\ Keeps(handled, abstract)
      BY <2>0, <3>1 DEF ListsInv, AloneInv
    <3> QED
      BY <2>a, <3>2, <3>3
  <2>3. ASSUME ~HandleStore, \A p \in Sharers : ~StoreIndex(p)
        PROVE  abstract' = abstract
    <3>1. cell' = cell
      BY <2>0, <2>3
      DEF Next, ReadIndex, HandleRead, StoreContent, Forget, vars, IsIndex
    <3>2. ~overlap
      BY <2>0, <2>3, StartsAlone
      DEF Next, ReadIndex, HandleRead, StoreContent, Forget, vars
    <3> QED
      BY <2>0, <3>1, <3>2
  <2> QED
    BY <2>1, <2>2, <2>3
<1> QED
  BY <1>1, <1>2, InitIndex, NextIndex, NextAlone, PTL
  DEF Spec, MergesAlone, Alone!Spec
-----------------------------------------------------------------------------
(* Lists of brokers and of subscribers *)

\* A list of brokers, and what is left of it after the first.
LEMMA BrokerListSeq ==
  ASSUME NEW l \in BrokerLists
  PROVE  l \in Seq(Brokers) /\ Len(l) <= Cardinality(Brokers) /\ IsInjective(l)
<1>1. PICK m \in 0..Cardinality(Brokers) : l \in [1..m -> Brokers]
  BY DEF BrokerLists, SeqOf
<1>2. m \in Nat /\ m <= Cardinality(Brokers)
  BY <1>1, FS_CardinalityType, PubSubAssumption
<1>3. l \in Seq(Brokers) /\ Len(l) = m
  BY <1>1, <1>2
<1> QED
  BY <1>2, <1>3 DEF BrokerLists

LEMMA BrokerListTail ==
  ASSUME NEW l \in BrokerLists, l # <<>>
  PROVE  /\ Head(l) \in Brokers /\ Tail(l) \in BrokerLists
         /\ ToSet(l) = {Head(l)} \cup ToSet(Tail(l))
         /\ Head(l) \notin ToSet(Tail(l))
<1>1. l \in Seq(Brokers) /\ Len(l) <= Cardinality(Brokers) /\ IsInjective(l)
      /\ Cardinality(Brokers) \in Nat
  BY BrokerListSeq, FS_CardinalityType, PubSubAssumption
<1>2. /\ Head(l) = l[1] /\ Tail(l) \in Seq(Brokers) /\ Len(Tail(l)) = Len(l) - 1
      /\ Len(l) \in Nat \ {0} /\ DOMAIN l = 1..Len(l) /\ DOMAIN Tail(l) = 1..(Len(l) - 1)
      /\ \A i \in 1..(Len(l) - 1) : Tail(l)[i] = l[i + 1]
      /\ \A i \in 1..Len(l) : l[i] \in Brokers
  BY <1>1, HeadTailProperties, LenProperties, ElementOfSeq
<1>3. Tail(l) \in [1..(Len(l) - 1) -> Brokers]
  <2>1. Tail(l) \in [1..Len(Tail(l)) -> Brokers]
    BY <1>2, LenProperties
  <2> QED
    BY <1>2, <2>1
<1>4. IsInjective(Tail(l))
  BY <1>1, <1>2 DEF IsInjective
<1>5. Tail(l) \in BrokerLists
  <2>1. Len(l) - 1 \in 0..Cardinality(Brokers)
    BY <1>1, <1>2
  <2> QED
    BY <1>3, <1>4, <2>1 DEF BrokerLists, SeqOf
<1>6. ToSet(l) = {Head(l)} \cup ToSet(Tail(l))
  <2>1. ASSUME NEW i \in 1..Len(l) PROVE l[i] \in {Head(l)} \cup ToSet(Tail(l))
    <3>1. CASE i = 1
      BY <1>2, <3>1
    <3>2. CASE i # 1
      <4>1. i - 1 \in 1..(Len(l) - 1) /\ Tail(l)[i - 1] = l[i]
        BY <1>2, <3>2
      <4> QED
        BY <1>2, <4>1 DEF ToSet
    <3> QED
      BY <3>1, <3>2
  <2>2. ASSUME NEW i \in 1..(Len(l) - 1) PROVE Tail(l)[i] \in ToSet(l)
    <3>1. i + 1 \in 1..Len(l) /\ Tail(l)[i] = l[i + 1]
      BY <1>2
    <3> QED
      BY <1>2, <3>1 DEF ToSet
  <2>3. Head(l) \in ToSet(l)
    BY <1>2 DEF ToSet
  <2> QED
    BY <1>2, <2>1, <2>2, <2>3 DEF ToSet
<1>7. Head(l) \notin ToSet(Tail(l))
  BY <1>1, <1>2 DEF IsInjective, ToSet
<1> QED
  BY <1>2, <1>5, <1>6, <1>7

\* One more at the end of a list.
LEMMA OneMore ==
  ASSUME NEW T, NEW s \in Seq(T), NEW x \in T
  PROVE  /\ Append(s, x) \in Seq(T) /\ ToSet(Append(s, x)) = ToSet(s) \cup {x}
         /\ IsInjective(s) /\ x \notin ToSet(s) => IsInjective(Append(s, x))
<1> DEFINE t == Append(s, x)
<1>1. /\ t \in Seq(T) /\ DOMAIN s = 1..Len(s) /\ Len(s) \in Nat
      /\ DOMAIN t = 1..(Len(s) + 1)
      /\ \A i \in 1..Len(s) : t[i] = s[i] /\ s[i] \in ToSet(s)
      /\ t[Len(s) + 1] = x
  BY LenProperties DEF ToSet
<1> HIDE DEF t
<1>2. IsInjective(s) /\ x \notin ToSet(s) => IsInjective(t)
  BY <1>1 DEF IsInjective
<1>3. ToSet(t) \subseteq ToSet(s) \cup {x}
  BY <1>1 DEF ToSet
<1>4. ToSet(s) \subseteq ToSet(t) /\ x \in ToSet(t)
  <2>1. ASSUME NEW i \in 1..Len(s) PROVE s[i] \in ToSet(t)
    <3>1. i \in DOMAIN t /\ t[i] = s[i]
      BY <1>1
    <3> QED
      BY <3>1 DEF ToSet
  <2>2. Len(s) + 1 \in DOMAIN t /\ t[Len(s) + 1] = x
    BY <1>1
  <2> QED
    BY <1>1, <2>1, <2>2 DEF ToSet
<1> QED
  BY <1>1, <1>2, <1>3, <1>4 DEF t

\* The list a broker keeps.
LEMMA SubscriberAdded ==
  ASSUME NEW T, NEW s \in Seq(T), IsInjective(s), NEW n \in T
  PROVE  /\ AddSubscriber(s, n) \in Seq(T) /\ IsInjective(AddSubscriber(s, n))
         /\ ToSet(AddSubscriber(s, n)) \subseteq ToSet(s) \cup {n}
<1>1. CASE n \in ToSet(s)
  BY <1>1 DEF AddSubscriber
<1>2. CASE n \notin ToSet(s)
  BY <1>2, OneMore DEF AddSubscriber
<1> QED
  BY <1>1, <1>2

\* The empty list, as a list of brokers too.
LEMMA EmptyList ==
  <<>> \in BrokerLists /\ ToSet(<<>>) = {} /\ IsInjective(<<>>)
<1>1. <<>> \in [1..0 -> Brokers] /\ 0 \in 0..Cardinality(Brokers)
  BY FS_CardinalityType, PubSubAssumption
<1>2. IsInjective(<<>>) /\ ToSet(<<>>) = {}
  BY DEF IsInjective, ToSet
<1> QED
  BY <1>1, <1>2 DEF BrokerLists, SeqOf

-----------------------------------------------------------------------------
(* Rounds of Subscribe and of publishing *)

\* The steps of the rounds and of the brokers.
PubSubStep ==
  \/ \E r \in Rounds, list \in BrokerLists : Subscribe(r, list) \/ Publish(r, list)
  \/ \E r \in Rounds : Ask(r)
  \/ \E n \in Peers : Unsubscribe(n)
  \/ \E msg \in wire : HandleSubscribe(msg) \/ HandlePublish(msg)
  \/ \E b \in Brokers : RestartBroker(b)
  \/ UNCHANGED pubSubVars

\* A request on the wire is of a round that has begun and will not repeat it.
RoundsInv ==
  /\ PubSubTypeOK
  /\ EveryBrokerAsked
  /\ \A r \in Rounds \ begun : todo[r] = <<>> /\ asked[r] = {}
  /\ \A msg \in wire : msg.round \in begun /\ msg.to \notin ToSet(todo[msg.round])
  /\ \A b \in Brokers :
       IsInjective(subscribers[b]) /\ ToSet(subscribers[b]) \subseteq Subscribing

\* The nodes that subscribe are finitely many.
LEMMA SubscribingPeers ==
  /\ Subscribing \subseteq Peers /\ IsFiniteSet(Subscribing)
  /\ Cardinality(Subscribing) \in Nat /\ Cardinality(Peers) \in Nat
  /\ Cardinality(Subscribing) <= Cardinality(Peers)
<1>1. Subscribing \subseteq Peers
  BY DEF Subscribing, Peers, Rounds
<1> QED
  BY <1>1, PubSubAssumption, FS_Subset, FS_CardinalityType

LEMMA RoundsInit ==
  PubSubInit => RoundsInv
<1> SUFFICES ASSUME PubSubInit PROVE RoundsInv
  OBVIOUS
<1>1. PubSubTypeOK
  BY EmptyList, PubSubAssumption DEF PubSubInit, PubSubTypeOK
<1>2. EveryBrokerAsked
  BY EmptyList DEF PubSubInit, EveryBrokerAsked
<1> QED
  BY <1>1, <1>2, EmptyList DEF PubSubInit, RoundsInv

\* A round begins: Subscribe or the publishing half of indexContent.
LEMMA RoundBegins ==
  ASSUME RoundsInv, NEW r \in Rounds, NEW list \in BrokerLists,
         BeginRound(r, list), interests' \subseteq Peers
  PROVE  RoundsInv'
<1>1. list \in Seq(Brokers) /\ ToSet(list) \in SUBSET Brokers
  <2>1. list \in Seq(Brokers)
    BY BrokerListSeq
  <2> QED
    BY <2>1, ElementOfSeq, LenProperties DEF ToSet
<1>2. PubSubTypeOK /\ r \in Rounds \ begun /\ asked[r] = {}
  BY DEF RoundsInv, BeginRound
<1>3. PubSubTypeOK'
  BY <1>1, <1>2 DEF PubSubTypeOK, BeginRound
<1>4. \A s \in Rounds : /\ todo'[s] = IF s = r THEN list ELSE todo[s]
                        /\ found'[s] = IF s = r THEN ToSet(list) ELSE found[s]
                        /\ asked'[s] = asked[s]
  BY <1>2 DEF PubSubTypeOK, BeginRound
<1>5. EveryBrokerAsked'
  BY <1>2, <1>4 DEF RoundsInv, EveryBrokerAsked
<1>6. \A s \in Rounds \ begun' : todo'[s] = <<>> /\ asked'[s] = {}
  BY <1>4 DEF RoundsInv, BeginRound
<1>7. \A msg \in wire' : msg.round \in begun' /\ msg.to \notin ToSet(todo'[msg.round])
  <2> SUFFICES ASSUME NEW msg \in wire
               PROVE  msg.round \in begun' /\ msg.to \notin ToSet(todo'[msg.round])
    BY DEF BeginRound
  <2>1. msg.round \in begun /\ msg.round \in Rounds /\ msg.round # r
    BY <1>2 DEF RoundsInv, PubSubTypeOK
  <2>2. todo'[msg.round] = todo[msg.round]
    BY <1>4, <2>1
  <2> QED
    BY <2>1, <2>2 DEF RoundsInv, BeginRound
<1> QED
  BY <1>3, <1>5, <1>6, <1>7 DEF RoundsInv, BeginRound

\* A round sends to the next broker of its list.
LEMMA RoundAsks ==
  ASSUME RoundsInv, NEW r \in Rounds, Ask(r)
  PROVE  RoundsInv'
<1> DEFINE b == Head(todo[r])
<1>1. /\ PubSubTypeOK /\ todo[r] \in BrokerLists /\ todo[r] # <<>> /\ r \in begun
  BY DEF RoundsInv, PubSubTypeOK, Ask
<1>2. /\ b \in Brokers /\ Tail(todo[r]) \in BrokerLists
      /\ ToSet(todo[r]) = {b} \cup ToSet(Tail(todo[r]))
      /\ b \notin ToSet(Tail(todo[r]))
  BY <1>1, BrokerListTail
<1> HIDE DEF b
<1>3. /\ todo' = [todo EXCEPT ![r] = Tail(todo[r])] /\ asked' = [asked EXCEPT ![r] = @ \cup {b}]
      /\ wire' = wire \cup {[round |-> r, to |-> b]}
      /\ begun' = begun /\ found' = found /\ subscribers' = subscribers
      /\ interests' = interests /\ restarts' = restarts
  BY DEF Ask, Remaining, b
<1>4. PubSubTypeOK'
  <2>1. [round |-> r, to |-> b] \in Request
    BY <1>2 DEF Request
  <2> QED
    BY <1>1, <1>2, <1>3, <2>1 DEF PubSubTypeOK
<1>5. \A s \in Rounds : /\ todo'[s] = IF s = r THEN Tail(todo[r]) ELSE todo[s]
                        /\ asked'[s] = IF s = r THEN asked[r] \cup {b} ELSE asked[s]
  BY <1>1, <1>3 DEF PubSubTypeOK
<1>6. EveryBrokerAsked'
  BY <1>2, <1>3, <1>5 DEF RoundsInv, EveryBrokerAsked
<1>7. \A s \in Rounds \ begun' : todo'[s] = <<>> /\ asked'[s] = {}
  BY <1>1, <1>3, <1>5 DEF RoundsInv
<1>8. \A msg \in wire' : msg.round \in begun' /\ msg.to \notin ToSet(todo'[msg.round])
  <2> SUFFICES ASSUME NEW msg \in wire'
               PROVE  msg.round \in begun' /\ msg.to \notin ToSet(todo'[msg.round])
    OBVIOUS
  <2>1. CASE msg = [round |-> r, to |-> b]
    BY <1>1, <1>2, <1>3, <1>5, <2>1
  <2>2. CASE msg \in wire
    <3>1. msg.round \in begun /\ msg.round \in Rounds /\ msg.to \notin ToSet(todo[msg.round])
      BY <2>2 DEF RoundsInv, PubSubTypeOK
    <3>2. ToSet(todo'[msg.round]) \subseteq ToSet(todo[msg.round])
      BY <1>2, <1>5, <3>1
    <3> QED
      BY <1>3, <3>1, <3>2
  <2> QED
    BY <1>3, <2>1, <2>2
<1> QED
  BY <1>3, <1>4, <1>6, <1>7, <1>8 DEF RoundsInv

\* A broker handles a SUBSCRIBE.
LEMMA RequestHandled ==
  ASSUME RoundsInv, NEW msg \in wire, HandleSubscribe(msg)
  PROVE  RoundsInv'
<1> DEFINE n == NodeOf[msg.round]
           b == msg.to
<1>1. PubSubTypeOK /\ b \in Brokers /\ n \in Subscribing /\ n \in Peers
  <2>1. PubSubTypeOK /\ msg \in Request
    BY DEF RoundsInv, PubSubTypeOK
  <2>2. n \in Subscribing
    BY DEF HandleSubscribe, Subscribing
  <2> QED
    BY <2>1, <2>2, SubscribingPeers DEF Request
<1> HIDE DEF n, b
<1>2. /\ subscribers' = [subscribers EXCEPT ![b] = AddSubscriber(@, n)]
      /\ wire' = wire \ {msg}
      /\ UNCHANGED <<begun, todo, found, asked, interests, restarts>>
  BY DEF HandleSubscribe, roundVars, n, b
<1>3. /\ subscribers \in [Brokers -> Seq(Peers)]
      /\ IsInjective(subscribers[b]) /\ ToSet(subscribers[b]) \subseteq Subscribing
  BY <1>1 DEF RoundsInv, PubSubTypeOK
<1>4. /\ AddSubscriber(subscribers[b], n) \in Seq(Peers)
      /\ IsInjective(AddSubscriber(subscribers[b], n))
      /\ ToSet(AddSubscriber(subscribers[b], n)) \subseteq Subscribing
  <2>1. subscribers[b] \in Seq(Peers)
    BY <1>1, <1>3
  <2> QED
    BY <1>1, <1>3, <2>1, SubscriberAdded
<1>5. subscribers' \in [Brokers -> Seq(Peers)]
  BY <1>2, <1>3, <1>4
<1>6. ASSUME NEW a \in Brokers
      PROVE  IsInjective(subscribers'[a]) /\ ToSet(subscribers'[a]) \subseteq Subscribing
  <2>1. CASE a = b
    <3>1. subscribers'[a] = AddSubscriber(subscribers[b], n)
      BY <1>2, <1>3, <2>1
    <3> QED
      BY <1>4, <3>1
  <2>2. CASE a # b
    <3>1. subscribers'[a] = subscribers[a]
      BY <1>2, <1>3, <2>2
    <3> QED
      BY <3>1 DEF RoundsInv
  <2> QED
    BY <2>1, <2>2
<1>7. PubSubTypeOK'
  BY <1>1, <1>2, <1>5 DEF PubSubTypeOK
<1>8. EveryBrokerAsked'
  BY <1>2 DEF RoundsInv, EveryBrokerAsked
<1> QED
  BY <1>2, <1>6, <1>7, <1>8 DEF RoundsInv

LEMMA RoundsStep ==
  RoundsInv /\ PubSubStep => RoundsInv'
<1> SUFFICES ASSUME RoundsInv, PubSubStep PROVE RoundsInv'
  OBVIOUS
<1>1. ASSUME NEW r \in Rounds, NEW list \in BrokerLists, Subscribe(r, list) \/ Publish(r, list)
      PROVE  RoundsInv'
  <2>1. NodeOf[r] \in Peers /\ interests \subseteq Peers
    BY DEF Peers, RoundsInv, PubSubTypeOK
  <2>2. BeginRound(r, list) /\ interests' \subseteq Peers
    BY <1>1, <2>1 DEF Subscribe, Publish
  <2> QED
    BY <2>2, RoundBegins
<1>2. ASSUME NEW r \in Rounds, Ask(r) PROVE RoundsInv'
  BY <1>2, RoundAsks
<1>3. ASSUME NEW n \in Peers, Unsubscribe(n) PROVE RoundsInv'
  BY <1>3 DEF Unsubscribe, roundVars, RoundsInv, PubSubTypeOK, EveryBrokerAsked
<1>4. ASSUME NEW msg \in wire, HandleSubscribe(msg) PROVE RoundsInv'
  BY <1>4, RequestHandled
<1>5. ASSUME NEW msg \in wire, HandlePublish(msg) PROVE RoundsInv'
  BY <1>5 DEF HandlePublish, roundVars, RoundsInv, PubSubTypeOK, EveryBrokerAsked
<1>6. ASSUME NEW b \in Brokers, RestartBroker(b) PROVE RoundsInv'
  <2>1. /\ subscribers \in [Brokers -> Seq(Peers)] /\ <<>> \in Seq(Peers)
        /\ subscribers' = [subscribers EXCEPT ![b] = <<>>]
        /\ restarts' \in 0..MaxRestarts
    BY <1>6, PubSubAssumption DEF RoundsInv, PubSubTypeOK, RestartBroker
  <2>2. subscribers' \in [Brokers -> Seq(Peers)]
    BY <2>1
  <2>3. \A a \in Brokers : subscribers'[a] = IF a = b THEN <<>> ELSE subscribers[a]
    BY <2>1
  <2>4. \A a \in Brokers :
          IsInjective(subscribers'[a]) /\ ToSet(subscribers'[a]) \subseteq Subscribing
    BY <2>3, EmptyList DEF RoundsInv
  <2>5. PubSubTypeOK'
    BY <1>6, <2>1, <2>2 DEF RoundsInv, PubSubTypeOK, RestartBroker, roundVars
  <2> QED
    BY <1>6, <2>4, <2>5 DEF RoundsInv, RestartBroker, roundVars, EveryBrokerAsked
<1>7. CASE UNCHANGED pubSubVars
  BY <1>7 DEF pubSubVars, RoundsInv, PubSubTypeOK, EveryBrokerAsked
<1> QED
  BY <1>1, <1>2, <1>3, <1>4, <1>5, <1>6, <1>7 DEF PubSubStep

-----------------------------------------------------------------------------
(* Streams of events *)

\* What is taken from the front of a channel and appended to what was taken
\* before leaves the two together as they were.
LEMMA TakeFirst ==
  ASSUME NEW T, NEW s \in Seq(T), NEW q \in Seq(T), q # <<>>
  PROVE  /\ Append(s, Head(q)) \in Seq(T) /\ Tail(q) \in Seq(T)
         /\ Len(Tail(q)) <= Len(q)
         /\ Append(s, Head(q)) \o Tail(q) = s \o q
<1>1. /\ Head(q) \in T /\ Tail(q) \in Seq(T) /\ Len(Tail(q)) = Len(q) - 1
      /\ Len(q) \in Nat \ {0} /\ Head(q) = q[1]
  BY HeadTailProperties, LenProperties
<1>2. q = <<Head(q)>> \o Tail(q)
  <2>1. 1 \in 1..Len(q) /\ Len(q) \in 1..Len(q)
    BY <1>1
  <2>2. SubSeq(q, 1, Len(q)) = <<q[1]>> \o SubSeq(q, 1 + 1, Len(q))
    BY <2>1, SubSeqRecursiveFirst
  <2>3. SubSeq(q, 1, Len(q)) = q /\ SubSeq(q, 2, Len(q)) = Tail(q)
    BY SubSeqFull, TailIsSubSeq
  <2>4. 1 + 1 = 2
    OBVIOUS
  <2> QED
    BY <1>1, <2>2, <2>3, <2>4
<1>3. Append(s, Head(q)) = s \o <<Head(q)>> /\ Append(s, Head(q)) \in Seq(T)
  BY <1>1, AppendIsConcat, AppendProperties
<1>4. (s \o <<Head(q)>>) \o Tail(q) = s \o (<<Head(q)>> \o Tail(q))
  <2>1. <<Head(q)>> \in Seq(T)
    BY <1>1
  <2> QED
    BY <1>1, <2>1, ConcatAssociative
<1> QED
  BY <1>1, <1>2, <1>3, <1>4

\* What a channel takes is the last of the two together.
LEMMA OfferLast ==
  ASSUME NEW T, NEW s \in Seq(T), NEW q \in Seq(T), NEW x \in T
  PROVE  s \o Append(q, x) = Append(s \o q, x)
<1>1. s \o q \in Seq(T) /\ <<x>> \in Seq(T)
  BY ConcatProperties
<1>2. Append(q, x) = q \o <<x>> /\ Append(s \o q, x) = (s \o q) \o <<x>>
  BY <1>1, AppendIsConcat
<1>3. (s \o q) \o <<x>> = s \o (q \o <<x>>)
  BY <1>1, ConcatAssociative
<1> QED
  BY <1>2, <1>3

\* What follows goes on following.
LEMMA FollowsMore ==
  ASSUME NEW T, NEW got \in Seq(T), NEW all \in Seq(T), NEW x \in T, Follows(got, all)
  PROVE  Follows(got, Append(all, x))
<1> DEFINE more == Append(all, x)
<1>1. /\ ToSet(all) \subseteq ToSet(more) /\ DOMAIN all \subseteq DOMAIN more
      /\ \A i \in DOMAIN all : more[i] = all[i]
  BY OneMore, AppendProperties, LenProperties
<1> HIDE DEF more
<1>2. ASSUME NEW i \in DOMAIN got, NEW j \in DOMAIN got, i < j
      PROVE  \E k, l \in DOMAIN more : k < l /\ more[k] = got[i] /\ more[l] = got[j]
  <2>1. PICK k \in DOMAIN all, l \in DOMAIN all : k < l /\ all[k] = got[i] /\ all[l] = got[j]
    BY <1>2 DEF Follows
  <2> QED
    BY <1>1, <2>1
<1>3. Follows(got, more)
  BY <1>1, <1>2 DEF Follows
<1> QED
  BY <1>3 DEF more

\* The last of all may be appended.
LEMMA FollowsLast ==
  ASSUME NEW T, NEW got \in Seq(T), NEW all \in Seq(T), all # <<>>, Follows(got, all),
         NEW x \in T, x = all[Len(all)], x \notin ToSet(got)
  PROVE  Follows(Append(got, x), all)
<1> DEFINE n == Len(got)
           m == Len(all)
           more == Append(got, x)
<1>1. /\ n \in Nat /\ m \in Nat \ {0} /\ DOMAIN all = 1..m /\ DOMAIN got = 1..n
      /\ DOMAIN more = 1..(n + 1) /\ more[n + 1] = x
      /\ \A i \in 1..n : more[i] = got[i] /\ got[i] \in ToSet(got)
      /\ ToSet(more) = ToSet(got) \cup {x}
  BY OneMore, AppendProperties, LenProperties DEF ToSet
<1>2. m \in DOMAIN all /\ all[m] = x /\ x \in ToSet(all)
  BY <1>1 DEF ToSet
<1> HIDE DEF n, m, more
<1>3. ASSUME NEW i \in DOMAIN more, NEW j \in DOMAIN more, i < j
      PROVE  \E k, l \in DOMAIN all : k < l /\ all[k] = more[i] /\ all[l] = more[j]
  <2>1. i \in 1..n
    BY <1>1, <1>3
  <2>2. CASE j \in 1..n
    BY <1>1, <1>3, <2>1, <2>2 DEF Follows
  <2>3. CASE j = n + 1
    <3>1. got[i] \in ToSet(all) /\ got[i] # x
      BY <1>1, <2>1 DEF Follows
    <3>2. PICK k \in DOMAIN all : all[k] = got[i]
      BY <3>1 DEF ToSet
    <3>3. k < m
      BY <1>1, <1>2, <3>1, <3>2
    <3> QED
      BY <1>1, <1>2, <2>1, <2>3, <3>2, <3>3
  <2> QED
    BY <1>1, <2>2, <2>3
<1>4. Follows(more, all)
  BY <1>1, <1>2, <1>3 DEF Follows
<1> QED
  BY <1>4 DEF more

\* An emitter holds the mutex, or waits for one.
Sending(e) == doing[e] \in {"track", "send"}
Waiting(e) == doing[e] \in {"counts", "lock"}

\* What a client has taken from its channel and what is still in it.
Got(c) == seen[c] \o chan[c]

\* What an emitter emits is told from what the others do.
KindOf(e) ==
  CASE e = ReadLoop -> "alert" [] e = Topology -> "topology" [] e = Indexer -> "keyword"

\* An event of e that was not broadcast.
Fresh(e, ev) == ev \in Events /\ ev.kind = KindOf(e) /\ ev \notin ToSet(emitted)

\* The types, those of the events included.
TelType ==
  /\ TelTypeOK
  /\ event \in [Emitters -> Events \cup {NoEvent}] /\ emitted \in Seq(Events)
  /\ chan \in [Clients -> Seq(Events)] /\ seen \in [Clients -> Seq(Events)]
  /\ dropped \in [Clients -> SUBSET Events]

\* One emitter at a time has the mutex, and what it sends is the last event
\* broadcast, which the clients it has not come to do not have yet.
SendInv ==
  /\ TelType
  /\ \A e \in Emitters :
       /\ Sending(e) => mu = e
       /\ mu = e => Sending(e)
       /\ Waiting(e) => Fresh(e, event[e])
       /\ Sending(e) => emitted # <<>> /\ event[e] = emitted[Len(emitted)]
       /\ Sending(e) => \A c \in unsent[e] : event[e] \notin ToSet(Got(c))
  /\ IsInjective(emitted)
  /\ \A c \in Clients : InOrder(c)

\* The steps of the emitters and the clients.
TelemetryStep ==
  \/ \E e \in Emitters, ev \in Events : Fresh(e, ev) /\ BeginEmit(e, ev)
  \/ \E e \in Emitters : EmitStep(e)
  \/ \E c \in Clients : Connect(c) \/ Disconnect(c) \/ Stall(c) \/ ClientStep(c)
  \/ TelGone
  \/ UNCHANGED telVars

\* The kind tells the emitters apart.
LEMMA KindsDiffer ==
  ASSUME NEW e \in Emitters, NEW f \in Emitters, KindOf(e) = KindOf(f)
  PROVE  e = f
<1>1. e \in {ReadLoop, Topology, Indexer} /\ f \in {ReadLoop, Topology, Indexer}
  BY AlertsAssumption
<1>2. KindOf(ReadLoop) = "alert" /\ KindOf(Topology) = "topology" /\ KindOf(Indexer) = "keyword"
  BY AlertsAssumption DEF KindOf
<1> QED
  BY <1>1, <1>2

LEMMA GotType ==
  ASSUME TelType, NEW c \in Clients
  PROVE  Got(c) \in Seq(Events) /\ chan[c] \in Seq(Events) /\ seen[c] \in Seq(Events)
<1>1. chan[c] \in Seq(Events) /\ seen[c] \in Seq(Events)
  BY DEF TelType
<1> QED
  BY <1>1, ConcatProperties DEF Got

\* Of no events nothing was got.
LEMMA NothingGot ==
  ASSUME NEW T
  PROVE  /\ <<>> \in Seq(T) /\ <<>> \o <<>> = <<>> /\ Len(<<>>) = 0
         /\ IsInjective(<<>>) /\ Follows(<<>>, <<>>)
<1>1. <<>> \in Seq(T) /\ <<>> \o <<>> = <<>> /\ Len(<<>>) = 0
  BY EmptySeq, ConcatEmptySeq
<1>2. Follows(<<>>, <<>>)
  BY DEF Follows, ToSet
<1> QED
  BY <1>1, <1>2, EmptyList

LEMMA SendInit ==
  TelInit => SendInv
<1> SUFFICES ASSUME TelInit PROVE SendInv
  OBVIOUS
<1>1. /\ <<>> \in Seq(Events) /\ <<>> \o <<>> = <<>> /\ Len(<<>>) = 0
      /\ IsInjective(<<>>) /\ Follows(<<>>, <<>>)
  BY NothingGot
<1>2. TelType
  BY <1>1, TelemetryAssumption DEF TelInit, TelType, TelTypeOK
<1>3. \A e \in Emitters : ~Sending(e) /\ ~Waiting(e) /\ mu # e
  BY TelemetryAssumption DEF TelInit, Sending, Waiting
<1>4. \A c \in Clients : InOrder(c)
  BY <1>1 DEF TelInit, InOrder
<1> QED
  BY <1>1, <1>2, <1>3, <1>4 DEF TelInit, SendInv

\* The process ends.
LEMMA SendGone ==
  SendInv /\ TelGone => SendInv'
<1> SUFFICES ASSUME SendInv, TelGone PROVE SendInv'
  OBVIOUS
<1>1. /\ <<>> \in Seq(Events) /\ <<>> \o <<>> = <<>> /\ Len(<<>>) = 0
      /\ IsInjective(<<>>) /\ Follows(<<>>, <<>>)
  BY NothingGot
<1>2. TelType'
  BY <1>1, TelemetryAssumption DEF TelGone, TelType, TelTypeOK, SendInv
<1>3. \A e \in Emitters : ~Sending(e)' /\ ~Waiting(e)' /\ mu' # e
  BY TelemetryAssumption DEF TelGone, Sending, Waiting
<1>4. \A c \in Clients : InOrder(c)'
  BY <1>1 DEF TelGone, InOrder
<1> QED
  BY <1>1, <1>2, <1>3, <1>4 DEF TelGone, SendInv

\* A step that leaves the mutex, the events and what was got as they are.
LEMMA SendStays ==
  ASSUME SendInv, TelType', mu' = mu, event' = event, unsent' = unsent,
         emitted' = emitted, \A c \in Clients : Got(c)' = Got(c),
         \A e \in Emitters : Sending(e)' = Sending(e) /\ (Waiting(e)' => Waiting(e))
  PROVE  SendInv'
<1>1. \A c \in Clients : InOrder(c)'
  BY DEF SendInv, InOrder, Got
<1>2. ASSUME NEW e \in Emitters
      PROVE  /\ Sending(e)' => mu' = e
             /\ mu' = e => Sending(e)'
             /\ Waiting(e)' => Fresh(e, event[e])'
             /\ Sending(e)' => emitted' # <<>> /\ event'[e] = emitted'[Len(emitted')]
             /\ Sending(e)' => \A c \in unsent'[e] : event'[e] \notin ToSet(Got(c)')
  <2>1. unsent[e] \subseteq Clients
    BY DEF SendInv, TelType, TelTypeOK
  <2> QED
    BY <2>1 DEF SendInv, Fresh
<1>3. IsInjective(emitted')
  BY DEF SendInv
<1> QED
  BY <1>1, <1>2, <1>3 DEF SendInv

\* An event that was never issued is about to be.
LEMMA SendBegins ==
  ASSUME SendInv, NEW e \in Emitters, NEW ev \in Events, Fresh(e, ev), BeginEmit(e, ev)
  PROVE  SendInv'
<1>1. /\ TelType /\ doing[e] = "idle"
      /\ UNCHANGED <<mu, hotMu, unsent, emitted, clientVars>>
      /\ event' = [event EXCEPT ![e] = ev]
      /\ \E w \in {"counts", "lock"} : doing' = [doing EXCEPT ![e] = w]
  BY DEF SendInv, BeginEmit
<1>2. TelType'
  BY <1>1 DEF TelType, TelTypeOK, clientVars
<1>3. \A c \in Clients : InOrder(c)' /\ Got(c)' = Got(c)
  BY <1>1 DEF SendInv, InOrder, Got, clientVars
<1>4. IsInjective(emitted')
  BY <1>1 DEF SendInv
<1>5. ASSUME NEW f \in Emitters
      PROVE  /\ Sending(f)' => mu' = f
             /\ mu' = f => Sending(f)'
             /\ Waiting(f)' => Fresh(f, event[f])'
             /\ Sending(f)' => emitted' # <<>> /\ event'[f] = emitted'[Len(emitted')]
             /\ Sending(f)' => \A c \in unsent'[f] : event'[f] \notin ToSet(Got(c)')
  <2>1. CASE f = e
    <3>1. ~Sending(f) /\ ~Sending(f)' /\ event'[f] = ev
      BY <1>1, <2>1 DEF Sending, TelType, TelTypeOK
    <3>2. mu' # f
      BY <1>1, <3>1 DEF SendInv
    <3>3. Fresh(f, ev)'
      BY <1>1, <2>1 DEF Fresh
    <3> QED
      BY <3>1, <3>2, <3>3
  <2>2. CASE f # e
    <3>1. doing'[f] = doing[f] /\ event'[f] = event[f] /\ unsent'[f] = unsent[f]
      BY <1>1, <2>2 DEF TelType, TelTypeOK
    <3>2. unsent[f] \subseteq Clients
      BY <1>1 DEF TelType, TelTypeOK
    <3> QED
      BY <1>1, <1>3, <3>1, <3>2 DEF SendInv, Fresh, Sending, Waiting
  <2> QED
    BY <2>1, <2>2
<1> QED
  BY <1>2, <1>3, <1>4, <1>5 DEF SendInv

\* The mutex is taken, and the event becomes the last one.
LEMMA SendLocks ==
  ASSUME SendInv, NEW e \in Emitters, LockMu(e)
  PROVE  SendInv'
<1> DEFINE ev == event[e]
<1>1. /\ TelType /\ doing[e] = "lock" /\ mu = Free /\ mu' = e
      /\ \E w \in {"track", "send"} : doing' = [doing EXCEPT ![e] = w]
      /\ unsent' = [unsent EXCEPT ![e] = clients]
      /\ emitted' = Append(emitted, ev)
      /\ UNCHANGED <<hotMu, event, clientVars>>
  BY DEF SendInv, LockMu, HolderWhileSending
<1>2. Fresh(e, ev) /\ ev \in Events /\ ev \notin ToSet(emitted) /\ emitted \in Seq(Events)
  BY <1>1 DEF SendInv, Waiting, Fresh, TelType
<1>3. /\ emitted' \in Seq(Events) /\ ToSet(emitted') = ToSet(emitted) \cup {ev}
      /\ IsInjective(emitted')
      /\ emitted' # <<>> /\ emitted'[Len(emitted')] = ev
  <2>1. /\ emitted' \in Seq(Events) /\ ToSet(emitted') = ToSet(emitted) \cup {ev}
        /\ IsInjective(emitted')
    BY <1>1, <1>2, OneMore DEF SendInv
  <2>2. emitted' # <<>> /\ emitted'[Len(emitted')] = ev
    BY <1>1, <1>2, AppendProperties
  <2> QED
    BY <2>1, <2>2
<1>4. TelType'
  BY <1>1, <1>3 DEF TelType, TelTypeOK, clientVars
<1>5. \A c \in Clients : Got(c)' = Got(c) /\ Follows(Got(c), emitted) /\ Got(c) \in Seq(Events)
  BY <1>1, GotType DEF SendInv, InOrder, Got, clientVars
<1>6. ASSUME NEW c \in Clients PROVE InOrder(c)'
  <2>1. Follows(Got(c), Append(emitted, ev))
    BY <1>2, <1>5, FollowsMore
  <2> QED
    BY <1>1, <1>5, <2>1 DEF InOrder, Got
<1>7. ASSUME NEW f \in Emitters
      PROVE  /\ Sending(f)' => mu' = f
             /\ mu' = f => Sending(f)'
             /\ Waiting(f)' => Fresh(f, event[f])'
             /\ Sending(f)' => emitted' # <<>> /\ event'[f] = emitted'[Len(emitted')]
             /\ Sending(f)' => \A c \in unsent'[f] : event'[f] \notin ToSet(Got(c)')
  <2>1. CASE f = e
    <3>1. Sending(f)' /\ ~Waiting(f)' /\ event'[f] = ev /\ unsent'[f] = clients
          /\ clients \subseteq Clients
      BY <1>1, <2>1 DEF Sending, Waiting, TelType, TelTypeOK
    <3>2. ASSUME NEW c \in clients PROVE ev \notin ToSet(Got(c)')
      BY <1>2, <1>5, <3>1, <3>2 DEF Follows
    <3> QED
      BY <1>1, <1>3, <2>1, <3>1, <3>2
  <2>2. CASE f # e
    <3>1. doing'[f] = doing[f] /\ event'[f] = event[f]
      BY <1>1, <2>2 DEF TelType, TelTypeOK
    <3>2. ~Sending(f)
      BY <1>1, TelemetryAssumption DEF SendInv
    <3>3. ~Sending(f)' /\ mu' # f
      BY <1>1, <2>2, <3>1, <3>2 DEF Sending
    <3>4. ASSUME Waiting(f)' PROVE Fresh(f, event[f])'
      <4>1. Fresh(f, event[f])
        BY <3>1, <3>4 DEF SendInv, Waiting
      <4>2. event[f] # ev
        BY <1>2, <2>2, <4>1, KindsDiffer DEF Fresh
      <4> QED
        BY <1>3, <3>1, <4>1, <4>2 DEF Fresh
    <3> QED
      BY <3>3, <3>4
  <2> QED
    BY <2>1, <2>2
<1> QED
  BY <1>3, <1>4, <1>6, <1>7 DEF SendInv

\* The last event reaches a client, or finds its channel full.
LEMMA SendOffers ==
  ASSUME SendInv, NEW e \in Emitters, NEW c \in Clients, SendTo(e, c)
  PROVE  SendInv'
<1> DEFINE ev == event[e]
<1>1. /\ TelType /\ Sending(e) /\ c \in unsent[e] /\ mu = e
      /\ unsent' = [unsent EXCEPT ![e] = @ \ {c}]
      /\ UNCHANGED <<mu, hotMu, doing, event, emitted, clients, sse, connected, seen>>
      /\ \/ /\ HasSpace(c)
            /\ chan' = [chan EXCEPT ![c] = Append(@, ev)] /\ dropped' = dropped
         \/ dropped' = [dropped EXCEPT ![c] = @ \cup {ev}] /\ chan' = chan
  BY DEF SendInv, SendTo, Sending
<1>2. /\ emitted # <<>> /\ ev = emitted[Len(emitted)] /\ ev \notin ToSet(Got(c))
      /\ ev \in Events /\ emitted \in Seq(Events)
  <2>1. emitted # <<>> /\ ev = emitted[Len(emitted)] /\ ev \notin ToSet(Got(c))
    BY <1>1 DEF SendInv
  <2>2. emitted \in Seq(Events)
    BY <1>1 DEF TelType
  <2> QED
    BY <2>1, <2>2, LenProperties, ElementOfSeq
<1>3. /\ chan[c] \in Seq(Events) /\ seen[c] \in Seq(Events) /\ Got(c) \in Seq(Events)
      /\ Follows(Got(c), emitted)
  BY <1>1, GotType DEF SendInv, InOrder, Got
<1>4. \A d \in Clients \ {c} : Got(d)' = Got(d)
  BY <1>1 DEF Got, TelType
<1>5. TelType' /\ Follows(Got(c)', emitted)
  <2>1. CASE HasSpace(c) /\ chan' = [chan EXCEPT ![c] = Append(@, ev)] /\ dropped' = dropped
    <3>1. Append(chan[c], ev) \in Seq(Events) /\ Len(Append(chan[c], ev)) <= Capacity
      <4>1. Append(chan[c], ev) \in Seq(Events) /\ Len(Append(chan[c], ev)) = Len(chan[c]) + 1
            /\ Len(chan[c]) \in Nat
        BY <1>2, <1>3, AppendProperties, LenProperties
      <4> QED
        BY <2>1, <4>1, TelemetryAssumption DEF HasSpace
    <3>2. chan' \in [Clients -> Seq(Events)] /\ chan'[c] = Append(chan[c], ev)
          /\ \A d \in Clients \ {c} : chan'[d] = chan[d]
      BY <1>1, <2>1, <3>1 DEF TelType
    <3>3. \A d \in Clients : Len(chan'[d]) <= Capacity
      BY <1>1, <3>1, <3>2 DEF TelType, TelTypeOK
    <3>4. TelType'
      BY <1>1, <2>1, <3>2, <3>3 DEF TelType, TelTypeOK
    <3>5. Got(c)' = Append(Got(c), ev)
      <4>1. seen[c] \o Append(chan[c], ev) = Append(seen[c] \o chan[c], ev)
        <5> DEFINE s == seen[c]
                   q == chan[c]
        <5>1. s \in Seq(Events) /\ q \in Seq(Events) /\ ev \in Events
          BY <1>2, <1>3
        <5> HIDE DEF s, q, ev
        <5>2. s \o Append(q, ev) = Append(s \o q, ev)
          BY <5>1, OfferLast
        <5> QED
          BY <5>2 DEF s, q
      <4> QED
        BY <1>1, <3>2, <4>1 DEF Got
    <3>6. Follows(Append(Got(c), ev), emitted)
      BY <1>2, <1>3, FollowsLast
    <3> QED
      BY <3>4, <3>5, <3>6
  <2>2. CASE dropped' = [dropped EXCEPT ![c] = @ \cup {ev}] /\ chan' = chan
    <3>1. dropped' \in [Clients -> SUBSET Events]
      BY <1>1, <1>2, <2>2 DEF TelType
    <3>2. TelType'
      BY <1>1, <2>2, <3>1 DEF TelType, TelTypeOK
    <3>3. Got(c)' = Got(c)
      BY <1>1, <2>2 DEF Got
    <3> QED
      BY <1>3, <3>2, <3>3
  <2> QED
    BY <1>1, <2>1, <2>2
<1>6. ASSUME NEW d \in Clients PROVE InOrder(d)'
  <2>1. CASE d = c
    BY <1>1, <1>5, <2>1 DEF InOrder, Got
  <2>2. CASE d # c
    <3>1. Got(d)' = Got(d) /\ InOrder(d)
      BY <1>4, <2>2 DEF SendInv
    <3> QED
      BY <1>1, <3>1 DEF InOrder, Got
  <2> QED
    BY <2>1, <2>2
<1>7. ASSUME NEW f \in Emitters
      PROVE  /\ Sending(f)' => mu' = f
             /\ mu' = f => Sending(f)'
             /\ Waiting(f)' => Fresh(f, event[f])'
             /\ Sending(f)' => emitted' # <<>> /\ event'[f] = emitted'[Len(emitted')]
             /\ Sending(f)' => \A d \in unsent'[f] : event'[f] \notin ToSet(Got(d)')
  <2>1. (Sending(f)' => Sending(f)) /\ (Sending(f) => Sending(f)') /\ (Waiting(f)' => Waiting(f))
    BY <1>1 DEF Sending, Waiting
  <2>2. ASSUME Sending(f)', NEW d \in unsent'[f] PROVE event'[f] \notin ToSet(Got(d)')
    <3>1. f = e
      BY <1>1, <2>1, <2>2 DEF SendInv
    <3>2. d \in unsent[e] /\ d \in Clients /\ d # c
      BY <1>1, <2>2, <3>1 DEF TelType, TelTypeOK
    <3>3. event[e] \notin ToSet(Got(d)) /\ Got(d)' = Got(d)
      BY <1>1, <1>4, <3>2 DEF SendInv
    <3> QED
      BY <1>1, <3>1, <3>3
  <2>3. /\ Sending(f)' => mu' = f
        /\ mu' = f => Sending(f)'
        /\ Waiting(f)' => Fresh(f, event[f])'
        /\ Sending(f)' => emitted' # <<>> /\ event'[f] = emitted'[Len(emitted')]
    BY <1>1, <2>1 DEF SendInv, Fresh
  <2> QED
    BY <2>2, <2>3
<1>8. IsInjective(emitted')
  BY <1>1 DEF SendInv
<1> QED
  BY <1>5, <1>6, <1>7, <1>8 DEF SendInv

\* The mutex is released.
LEMMA SendEnds ==
  ASSUME SendInv, NEW e \in Emitters, EndEmit(e)
  PROVE  SendInv'
<1>1. /\ TelType /\ mu = e /\ mu' = Free
      /\ hotMu' \in {hotMu, Free}
      /\ doing' = [doing EXCEPT ![e] = "idle"]
      /\ event' = [event EXCEPT ![e] = NoEvent]
      /\ UNCHANGED <<unsent, emitted, clientVars>>
  BY DEF SendInv, EndEmit, Sending
<1>2. TelType'
  BY <1>1 DEF TelType, TelTypeOK, clientVars
<1>3. \A c \in Clients : InOrder(c)'
  BY <1>1 DEF SendInv, InOrder, clientVars
<1>4. ASSUME NEW f \in Emitters
      PROVE  ~Sending(f)' /\ mu' # f /\ (Waiting(f)' => Fresh(f, event[f])')
  <2>1. CASE f = e
    BY <1>1, <2>1, TelemetryAssumption DEF TelType, TelTypeOK, Sending, Waiting
  <2>2. CASE f # e
    <3>1. doing'[f] = doing[f] /\ event'[f] = event[f]
      BY <1>1, <2>2 DEF TelType, TelTypeOK
    <3>2. ~Sending(f)
      BY <1>1, <2>2 DEF SendInv
    <3> QED
      BY <1>1, <3>1, <3>2, TelemetryAssumption DEF SendInv, Sending, Waiting, Fresh
  <2> QED
    BY <2>1, <2>2
<1> QED
  BY <1>1, <1>2, <1>3, <1>4 DEF SendInv

\* A client takes an event.
LEMMA SendTaken ==
  ASSUME SendInv, NEW c \in Clients, TakeEvent(c)
  PROVE  SendInv'
<1>1. /\ TelType /\ chan[c] # <<>>
      /\ chan' = [chan EXCEPT ![c] = Tail(@)]
      /\ seen' = [seen EXCEPT ![c] = Append(@, Head(chan[c]))]
      /\ sse' = [sse EXCEPT ![c] = "write"]
      /\ UNCHANGED <<emitVars, clients, connected, dropped>>
  BY DEF SendInv, TakeEvent, Move
<1>2. /\ Append(seen[c], Head(chan[c])) \in Seq(Events) /\ Tail(chan[c]) \in Seq(Events)
      /\ Len(Tail(chan[c])) <= Len(chan[c])
      /\ Append(seen[c], Head(chan[c])) \o Tail(chan[c]) = seen[c] \o chan[c]
  BY <1>1, GotType, TakeFirst
<1>3. /\ chan' \in [Clients -> Seq(Events)] /\ seen' \in [Clients -> Seq(Events)]
      /\ \A d \in Clients : /\ chan'[d] = IF d = c THEN Tail(chan[c]) ELSE chan[d]
                            /\ seen'[d] = IF d = c THEN Append(seen[c], Head(chan[c])) ELSE seen[d]
  BY <1>1, <1>2 DEF TelType
<1>4. TelType'
  <2>1. \A d \in Clients : Len(chan'[d]) <= Capacity
    <3>1. Len(Tail(chan[c])) <= Capacity
      <4>1. Len(Tail(chan[c])) \in Nat /\ Len(chan[c]) \in Nat
        BY <1>1, <1>2, GotType, LenProperties
      <4> QED
        BY <1>1, <1>2, <4>1, TelemetryAssumption DEF TelType, TelTypeOK
    <3> QED
      BY <1>1, <1>3, <3>1 DEF TelType, TelTypeOK
  <2> QED
    BY <1>1, <1>3, <2>1 DEF TelType, TelTypeOK, emitVars
<1>5. \A d \in Clients : Got(d)' = Got(d)
  BY <1>2, <1>3 DEF Got
<1> QED
  BY <1>1, <1>4, <1>5, SendStays DEF emitVars, Sending, Waiting

LEMMA SendStep ==
  SendInv /\ TelemetryStep => SendInv'
<1> SUFFICES ASSUME SendInv, TelemetryStep PROVE SendInv'
  OBVIOUS
<1>1. ASSUME NEW e \in Emitters, ReadCounts(e) PROVE SendInv'
  <2>1. TelType'
    BY <1>1 DEF ReadCounts, ReleasedCounts, SendInv, TelType, TelTypeOK, clientVars
  <2>2. \A f \in Emitters : Sending(f)' = Sending(f) /\ (Waiting(f)' => Waiting(f))
    BY <1>1 DEF ReadCounts, SendInv, TelType, TelTypeOK, Sending, Waiting
  <2> QED
    BY <1>1, <2>1, <2>2, SendStays DEF ReadCounts, clientVars, Got
<1>2. ASSUME NEW e \in Emitters, Track(e) PROVE SendInv'
  <2>1. TelType'
    BY <1>2 DEF Track, SendInv, TelType, TelTypeOK, clientVars
  <2>2. \A f \in Emitters : Sending(f)' = Sending(f) /\ (Waiting(f)' => Waiting(f))
    BY <1>2 DEF Track, SendInv, TelType, TelTypeOK, Sending, Waiting
  <2> QED
    BY <1>2, <2>1, <2>2, SendStays DEF Track, clientVars, Got
<1>3. ASSUME NEW c \in Clients,
             Connect(c) \/ Disconnect(c) \/ Stall(c) \/ WriteDone(c) \/ Leave(c)
      PROVE  SendInv'
  <2>1. /\ UNCHANGED <<emitVars, chan, seen, dropped>>
        /\ clients' \subseteq clients \cup {c}
        /\ \/ sse' = sse
           \/ \E s \in {"loop", "stalled", "gone"} : sse' = [sse EXCEPT ![c] = s]
        /\ \/ connected' = connected
           \/ \E b \in BOOLEAN : connected' = [connected EXCEPT ![c] = b]
    BY <1>3 DEF Connect, Disconnect, Stall, WriteDone, Leave, Move
  <2>2. TelType'
    BY <2>1 DEF SendInv, TelType, TelTypeOK, emitVars
  <2> QED
    BY <2>1, <2>2, SendStays DEF emitVars, Got, Sending, Waiting
<1>4. CASE UNCHANGED telVars
  <2>1. TelType'
    BY <1>4 DEF SendInv, TelType, TelTypeOK, telVars, emitVars, clientVars
  <2> QED
    BY <1>4, <2>1, SendStays DEF telVars, emitVars, clientVars, Got, Sending, Waiting
<1> QED
  BY <1>1, <1>2, <1>3, <1>4, SendBegins, SendLocks, SendOffers, SendEnds, SendTaken, SendGone
     DEF TelemetryStep, EmitStep, ClientStep

-----------------------------------------------------------------------------
(* From a PUBLISH to the alerts *)

\* The PUBLISH of a round has been handled at the watched broker, or lost, or
\* will never be sent there.
Over(r) ==
  /\ r \in begun /\ Watched \notin ToSet(todo[r])
  /\ [round |-> r, to |-> Watched] \notin wire

\* The events broadcast and those about to be.
Issued == ToSet(emitted) \cup {event[e] : e \in {f \in Emitters : Waiting(f)}}

\* Whatever was issued will not be issued again.
SaidOnce(ev) ==
  /\ ev.kind = "alert" =>
       /\ ev.of \in PubRounds /\ Over(ev.of)
       /\ ev.number \in 1..Cardinality(Subscribing)
       /\ ev.of = handling => ev.number > left
  /\ ev.kind = "topology" => Topology \in own
  /\ ev.kind = "keyword" => Indexer \in own

IssuedInv ==
  /\ handling \in PubRounds \cup {NoRound}
  /\ left \in 0..Cardinality(Subscribing)
  /\ own \subseteq {Topology, Indexer}
  /\ \A r \in Rounds : handling = r => Over(r)
  /\ \A ev \in Issued : SaidOnce(ev)

AlertsInv == RoundsInv /\ SendInv /\ IssuedInv /\ owed \in [Clients -> SUBSET PubRounds]

\* What is over stays so.
LEMMA OverStays ==
  ASSUME RoundsInv, PubSubStep, NEW r \in Rounds, Over(r)
  PROVE  Over(r)'
<1>1. ASSUME NEW s \in Rounds, NEW list \in BrokerLists, Subscribe(s, list) \/ Publish(s, list)
      PROVE  Over(r)'
  <2>1. s # r /\ begun' = begun \cup {s} /\ todo' = [todo EXCEPT ![s] = list] /\ wire' = wire
    BY <1>1 DEF Subscribe, Publish, BeginRound, Over
  <2>2. todo'[r] = todo[r]
    BY <2>1 DEF RoundsInv, PubSubTypeOK
  <2> QED
    BY <2>1, <2>2 DEF Over
<1>2. ASSUME NEW s \in Rounds, Ask(s) PROVE Over(r)'
  <2>1. /\ begun' = begun /\ todo' = [todo EXCEPT ![s] = Tail(todo[s])]
        /\ wire' = wire \cup {[round |-> s, to |-> Head(todo[s])]}
        /\ todo[s] # <<>> /\ todo[s] \in BrokerLists
        /\ todo'[r] = IF r = s THEN Tail(todo[s]) ELSE todo[r]
    BY <1>2 DEF Ask, Remaining, RoundsInv, PubSubTypeOK
  <2>2. ToSet(todo[s]) = {Head(todo[s])} \cup ToSet(Tail(todo[s]))
    BY <2>1, BrokerListTail
  <2>3. Watched \notin ToSet(todo'[r])
    BY <2>1, <2>2 DEF Over
  <2>4. [round |-> r, to |-> Watched] # [round |-> s, to |-> Head(todo[s])]
    BY <2>2 DEF Over
  <2> QED
    BY <2>1, <2>3, <2>4 DEF Over
<1>3. CASE begun' = begun /\ todo' = todo /\ wire' \subseteq wire
  BY <1>3 DEF Over
<1> QED
  BY <1>1, <1>2, <1>3 DEF PubSubStep, Unsubscribe, HandleSubscribe, HandlePublish, RestartBroker,
     pubSubVars, roundVars

\* A step that issues nothing new.
LEMMA IssuedStays ==
  ASSUME RoundsInv, IssuedInv, PubSubStep, Issued' \subseteq Issued, own' = own,
         \/ handling' = handling /\ left' = left
         \/ handling' = NoRound /\ left' \in {left, 0}
  PROVE  IssuedInv'
<1>1. /\ handling' \in PubRounds \cup {NoRound} /\ own' \subseteq {Topology, Indexer}
      /\ left' \in 0..Cardinality(Subscribing)
  BY SubscribingPeers DEF IssuedInv
<1>2. ASSUME NEW r \in Rounds, handling' = r PROVE Over(r)'
  <2>1. handling = r
    BY <1>2, AlertsAssumption
  <2> QED
    BY <2>1, OverStays DEF IssuedInv
<1>3. ASSUME NEW ev \in Issued' PROVE SaidOnce(ev)'
  <2>1. SaidOnce(ev)
    BY DEF IssuedInv
  <2>2. ASSUME ev.kind = "alert"
        PROVE  /\ ev.of \in PubRounds /\ Over(ev.of)'
               /\ ev.number \in 1..Cardinality(Subscribing)
               /\ ev.of = handling' => ev.number > left'
    <3>1. ev.of \in PubRounds /\ Over(ev.of) /\ ev.of \in Rounds /\ ev.of # NoRound
      BY <2>1, <2>2, AlertsAssumption DEF SaidOnce, Rounds
    <3>2. Over(ev.of)'
      BY <3>1, OverStays
    <3> QED
      BY <2>1, <2>2, <3>1, <3>2 DEF SaidOnce
  <2> QED
    BY <2>1, <2>2 DEF SaidOnce, Subscribing
<1> QED
  BY <1>1, <1>2, <1>3 DEF IssuedInv, Subscribing

\* The events of the emitters, before they are issued and after.
LEMMA IssuedByStep ==
  ASSUME SendInv,
         \/ \E e \in Emitters : EmitStep(e)
         \/ \E c \in Clients : Connect(c) \/ Disconnect(c) \/ Stall(c) \/ ClientStep(c)
  PROVE  Issued' \subseteq Issued
<1>1. /\ emitted \in Seq(Events) /\ doing \in [Emitters -> {"idle", "counts", "lock", "track", "send"}]
      /\ event \in [Emitters -> Events \cup {NoEvent}]
      /\ \A e \in Emitters : Waiting(e) => event[e] \in Events
  BY DEF SendInv, TelType, TelTypeOK, Fresh
<1>2. ASSUME NEW e \in Emitters, LockMu(e) PROVE Issued' \subseteq Issued
  <2>1. /\ Waiting(e) /\ event' = event /\ emitted' = Append(emitted, event[e])
        /\ \A f \in Emitters : Waiting(f)' => Waiting(f)
    BY <1>1, <1>2 DEF LockMu, Waiting
  <2>2. ToSet(emitted') = ToSet(emitted) \cup {event[e]}
    BY <1>1, <2>1, OneMore
  <2> QED
    BY <2>1, <2>2 DEF Issued
<1>3. CASE /\ emitted' = emitted
           /\ \A f \in Emitters : Waiting(f)' => Waiting(f) /\ event'[f] = event[f]
  BY <1>3 DEF Issued
<1>4. ASSUME NEW e \in Emitters, ReadCounts(e) \/ Track(e) \/ EndEmit(e)
                                \/ \E c \in Clients : SendTo(e, c)
      PROVE  /\ emitted' = emitted
             /\ \A f \in Emitters : Waiting(f)' => Waiting(f) /\ event'[f] = event[f]
  BY <1>1, <1>4 DEF ReadCounts, Track, EndEmit, SendTo, Waiting
<1>5. ASSUME NEW c \in Clients, Connect(c) \/ Disconnect(c) \/ Stall(c) \/ ClientStep(c)
      PROVE  UNCHANGED emitVars
  BY <1>5 DEF Connect, Disconnect, Stall, ClientStep, TakeEvent, WriteDone, Leave
<1>6. ASSUME UNCHANGED emitVars
      PROVE  /\ emitted' = emitted
             /\ \A f \in Emitters : Waiting(f)' => Waiting(f) /\ event'[f] = event[f]
  BY <1>6 DEF emitVars, Waiting
<1> QED
  BY <1>2, <1>3, <1>4, <1>5, <1>6 DEF EmitStep

\* An emission that begins issues its event.
LEMMA IssuedByBegin ==
  ASSUME SendInv, NEW e \in Emitters, NEW ev \in Events, BeginEmit(e, ev)
  PROVE  Issued' \subseteq Issued \cup {ev}
<1>1. /\ doing \in [Emitters -> {"idle", "counts", "lock", "track", "send"}]
      /\ event \in [Emitters -> Events \cup {NoEvent}]
      /\ event' = [event EXCEPT ![e] = ev] /\ emitted' = emitted
      /\ \E w \in {"counts", "lock"} : doing' = [doing EXCEPT ![e] = w]
  BY DEF SendInv, TelType, TelTypeOK, BeginEmit
<1>2. \A f \in Emitters : f = e \/ (event'[f] = event[f] /\ (Waiting(f)' => Waiting(f)))
  BY <1>1 DEF Waiting
<1>3. event'[e] = ev
  BY <1>1
<1> QED
  BY <1>1, <1>2, <1>3 DEF Issued

LEMMA AlertsInitInv ==
  AlertsInit => AlertsInv
<1> SUFFICES ASSUME AlertsInit PROVE AlertsInv
  OBVIOUS
<1>1. RoundsInv /\ SendInv
  BY RoundsInit, SendInit DEF AlertsInit
<1>2. Issued = {}
  BY EmptyList DEF AlertsInit, TelInit, Issued, Waiting
<1>3. \A r \in Rounds : handling # r
  BY AlertsAssumption DEF AlertsInit
<1>4. IssuedInv
  BY <1>2, <1>3, SubscribingPeers DEF AlertsInit, IssuedInv
<1> QED
  BY <1>1, <1>4 DEF AlertsInit, AlertsInv

\* The watched broker takes a PUBLISH off the wire: nothing has been said of
\* it yet.
LEMMA PublishRead ==
  ASSUME AlertsInv, NEW msg \in wire, ReadPublish(msg)
  PROVE  IssuedInv'
<1>1. /\ msg \in Request /\ msg.to = Watched /\ msg.round \in PubRounds
      /\ wire' = wire \ {msg} /\ handling' = msg.round /\ own' = own
      /\ begun' = begun /\ todo' = todo /\ emitted' = emitted /\ doing' = doing
      /\ event' = event /\ left' = Len(subscribers[Watched])
  BY DEF AlertsInv, RoundsInv, PubSubTypeOK, ReadPublish, HandlePublish, roundVars,
     telVars, emitVars, AlertsDue
<1>2. msg = [round |-> msg.round, to |-> Watched] /\ msg.round \in Rounds
  BY <1>1 DEF Request
<1>3. Over(msg.round)'
  <2>1. msg.round \in begun /\ Watched \notin ToSet(todo[msg.round])
    BY <1>1 DEF AlertsInv, RoundsInv
  <2> QED
    BY <1>1, <1>2, <2>1 DEF Over
<1>4. \A r \in Rounds : Over(r) => Over(r)' /\ r # msg.round
  <2>1. \A r \in Rounds : Over(r) => Over(r)'
    BY <1>1 DEF Over
  <2>2. ~Over(msg.round)
    BY <1>2 DEF Over
  <2> QED
    BY <2>1, <2>2
<1>5. left' \in 0..Cardinality(Subscribing)
  <2> DEFINE s == subscribers[Watched]
  <2>1. s \in Seq(Peers) /\ IsInjective(s) /\ ToSet(s) \subseteq Subscribing
    BY AlertsAssumption DEF AlertsInv, RoundsInv, PubSubTypeOK
  <2> HIDE DEF s
  <2>2. Cardinality(Range(s)) = Len(s) /\ Range(s) = ToSet(s) /\ Len(s) \in Nat
    BY <2>1, ListSize, LenProperties DEF Range, ToSet
  <2>3. Cardinality(ToSet(s)) <= Cardinality(Subscribing)
    BY <2>1, SubscribingPeers, FS_Subset
  <2> QED
    BY <1>1, <2>2, <2>3, SubscribingPeers DEF s
<1>6. Issued' = Issued
  BY <1>1 DEF Issued, Waiting
<1>7. ASSUME NEW ev \in Issued PROVE SaidOnce(ev)'
  <2>1. SaidOnce(ev)
    BY DEF AlertsInv, IssuedInv
  <2>2. ASSUME ev.kind = "alert"
        PROVE  /\ ev.of \in PubRounds /\ Over(ev.of)' /\ ev.of # msg.round
               /\ ev.number \in 1..Cardinality(Subscribing)
    BY <1>4, <2>1, <2>2 DEF SaidOnce, Rounds
  <2> QED
    BY <1>1, <2>1, <2>2 DEF SaidOnce, Subscribing
<1>8. \A r \in Rounds : handling' = r => Over(r)'
  BY <1>1, <1>3
<1> QED
  BY <1>1, <1>5, <1>6, <1>7, <1>8 DEF AlertsInv, IssuedInv, Subscribing

\* The next alert for the PUBLISH at hand bears a smaller number than those
\* before.
LEMMA AlertIssued ==
  ASSUME AlertsInv, EmitAlert
  PROVE  /\ Alert(handling, left) \in Events /\ ReadLoop \in Emitters
         /\ Fresh(ReadLoop, Alert(handling, left))
         /\ IssuedInv'
<1> DEFINE ev == Alert(handling, left)
<1>1. /\ handling \in PubRounds /\ handling \in Rounds /\ left \in 1..Cardinality(Subscribing)
      /\ BeginEmit(ReadLoop, ev) /\ left' = left - 1
      /\ UNCHANGED <<pubSubVars, handling, own>>
  BY SubscribingPeers DEF AlertsInv, IssuedInv, EmitAlert, ReaderFree, Rounds
<1>2. ev \in Events /\ ev.kind = "alert" /\ ev.of = handling /\ ev.number = left
      /\ ReadLoop \in Emitters
  BY <1>1, SubscribingPeers, AlertsAssumption DEF Alert, Events
<1>3. ev \notin Issued
  BY <1>1, <1>2 DEF AlertsInv, IssuedInv, SaidOnce
<1>4. Fresh(ReadLoop, ev)
  BY <1>2, <1>3, AlertsAssumption DEF Fresh, KindOf, Issued
<1> HIDE DEF ev
<1>5. Issued' \subseteq Issued \cup {ev}
  BY <1>1, <1>2, IssuedByBegin DEF AlertsInv
<1>6. \A r \in Rounds : Over(r) => Over(r)'
  BY <1>1 DEF Over, pubSubVars
<1>7. ASSUME NEW x \in Issued' PROVE SaidOnce(x)'
  <2>1. x = ev \/ SaidOnce(x)
    BY <1>5 DEF AlertsInv, IssuedInv
  <2>2. ASSUME x.kind = "alert"
        PROVE  /\ x.of \in PubRounds /\ Over(x.of)' /\ x.number \in 1..Cardinality(Subscribing)
               /\ x.of = handling' => x.number > left'
    <3>1. CASE x = ev
      BY <1>1, <1>2, <1>6, <3>1 DEF AlertsInv, IssuedInv
    <3>2. CASE x # ev
      BY <1>1, <1>6, <2>1, <2>2, <3>2, SubscribingPeers DEF SaidOnce, Rounds
    <3> QED
      BY <3>1, <3>2
  <2>3. /\ x.kind = "topology" => Topology \in own'
        /\ x.kind = "keyword" => Indexer \in own'
    BY <1>1, <1>2, <2>1 DEF SaidOnce
  <2> QED
    BY <2>2, <2>3 DEF SaidOnce, Subscribing
<1>8. \A r \in Rounds : handling' = r => Over(r)'
  BY <1>1, <1>6 DEF AlertsInv, IssuedInv
<1>9. left' \in 0..Cardinality(Subscribing)
  BY <1>1, SubscribingPeers
<1>10. IssuedInv'
  BY <1>1, <1>7, <1>8, <1>9 DEF AlertsInv, IssuedInv, Subscribing
<1> QED
  BY <1>2, <1>4, <1>10 DEF ev

\* The other two emit once.
LEMMA OwnIssued ==
  ASSUME AlertsInv, NEW e \in Emitters, EmitOwn(e)
  PROVE  /\ \E ev \in Events : Fresh(e, ev) /\ BeginEmit(e, ev)
         /\ IssuedInv'
<1> DEFINE ev == [kind |-> IF e = Topology THEN "topology" ELSE "keyword",
                  of |-> NoRound, number |-> 0]
<1>1. /\ e \in {Topology, Indexer} \ own /\ BeginEmit(e, ev) /\ own' = own \cup {e}
      /\ UNCHANGED <<pubSubVars, handling, left>>
  BY DEF EmitOwn
<1>2. /\ ev \in Events /\ ev.kind = KindOf(e) /\ ev.kind # "alert"
      /\ ev.kind = "topology" => e = Topology
      /\ ev.kind = "keyword" => e = Indexer
  BY <1>1, AlertsAssumption DEF Events, KindOf
<1> HIDE DEF ev
<1>3. ev \notin Issued
  <2>1. ev.kind \in {"topology", "keyword"}
    BY <1>2 DEF Events
  <2> QED
    BY <1>1, <1>2, <2>1 DEF AlertsInv, IssuedInv, SaidOnce
<1>4. Fresh(e, ev)
  BY <1>2, <1>3 DEF Fresh, Issued
<1>5. Issued' \subseteq Issued \cup {ev}
  BY <1>1, <1>2, IssuedByBegin DEF AlertsInv
<1>6. \A r \in Rounds : Over(r) => Over(r)'
  BY <1>1 DEF Over, pubSubVars
<1>7. ASSUME NEW x \in Issued' PROVE SaidOnce(x)'
  <2>1. x = ev \/ SaidOnce(x)
    BY <1>5 DEF AlertsInv, IssuedInv
  <2>2. ASSUME x.kind = "alert"
        PROVE  /\ x.of \in PubRounds /\ Over(x.of)' /\ x.number \in 1..Cardinality(Subscribing)
               /\ x.of = handling' => x.number > left'
    <3>1. SaidOnce(x)
      BY <1>2, <2>1, <2>2
    <3> QED
      BY <1>1, <1>6, <2>2, <3>1 DEF SaidOnce, Rounds
  <2>3. /\ x.kind = "topology" => Topology \in own'
        /\ x.kind = "keyword" => Indexer \in own'
    BY <1>1, <1>2, <2>1 DEF SaidOnce
  <2> QED
    BY <2>2, <2>3 DEF SaidOnce, Subscribing
<1>8. \A r \in Rounds : handling' = r => Over(r)'
  BY <1>1, <1>6 DEF AlertsInv, IssuedInv
<1>9. IssuedInv'
  BY <1>1, <1>7, <1>8 DEF AlertsInv, IssuedInv, Subscribing
<1> QED
  BY <1>1, <1>2, <1>4, <1>9

\* What a step of the whole is to each part.
LEMMA AlertsParts ==
  ASSUME AlertsInv, [AlertsNext]_allVars
  PROVE  PubSubStep /\ TelemetryStep
<1>1. CASE Elsewhere
  BY <1>1, AlertsAssumption DEF Elsewhere, PubSubStep, TelemetryStep
<1>2. ASSUME NEW msg \in wire, ReadSubscribe(msg) \/ ReadPublish(msg)
      PROVE  PubSubStep /\ TelemetryStep
  BY <1>2 DEF ReadSubscribe, ReadPublish, PubSubStep, TelemetryStep
<1>3. CASE EmitAlert
  <2>1. UNCHANGED pubSubVars /\ BeginEmit(ReadLoop, Alert(handling, left))
    BY <1>3 DEF EmitAlert
  <2> QED
    BY <1>3, <2>1, AlertIssued DEF PubSubStep, TelemetryStep
<1>4. CASE PublishHandled \/ UNCHANGED allVars
  BY <1>4 DEF PublishHandled, allVars, PubSubStep, TelemetryStep
<1>5. ASSUME NEW e \in Emitters, EmitOwn(e) PROVE PubSubStep /\ TelemetryStep
  <2>1. UNCHANGED pubSubVars
    BY <1>5 DEF EmitOwn
  <2> QED
    BY <1>5, <2>1, OwnIssued DEF PubSubStep, TelemetryStep
<1>6. CASE TelStep
  BY <1>6 DEF TelStep, PubSubStep, TelemetryStep
<1>7. CASE RestartWatched
  BY <1>7, AlertsAssumption DEF RestartWatched, PubSubStep, TelemetryStep
<1> QED
  BY <1>1, <1>2, <1>3, <1>4, <1>5, <1>6, <1>7 DEF AlertsNext

LEMMA IssuedStep ==
  ASSUME AlertsInv, [AlertsNext]_allVars
  PROVE  IssuedInv'
<1>1. PubSubStep /\ TelemetryStep
  BY AlertsParts
<1>3. CASE /\ UNCHANGED <<left, handling, own>>
           /\ UNCHANGED telVars \/ TelStep
  <2>1. Issued' \subseteq Issued
    <3>1. CASE UNCHANGED telVars
      BY <3>1 DEF telVars, emitVars, Issued, Waiting
    <3>2. CASE TelStep
      BY <3>2, IssuedByStep DEF TelStep, AlertsInv
    <3> QED
      BY <1>3, <3>1, <3>2
  <2> QED
    BY <1>1, <1>3, <2>1, IssuedStays DEF AlertsInv
<1>4. CASE PublishHandled
  <2>1. Issued' \subseteq Issued
    BY <1>4 DEF PublishHandled, telVars, emitVars, Issued, Waiting
  <2> QED
    BY <1>1, <1>4, <2>1, IssuedStays DEF AlertsInv, PublishHandled
<1>5. CASE RestartWatched
  <2>1. emitted' = <<>> /\ \A e \in Emitters : ~Waiting(e)'
    BY <1>5 DEF RestartWatched, TelGone, Waiting
  <2>2. Issued' \subseteq Issued
    BY <2>1, EmptyList DEF Issued
  <2> QED
    BY <1>1, <1>5, <2>2, IssuedStays DEF AlertsInv, RestartWatched
<1>6. ASSUME NEW msg \in wire, ReadPublish(msg) PROVE IssuedInv'
  BY <1>6, PublishRead
<1>7. CASE EmitAlert
  BY <1>7, AlertIssued
<1>8. ASSUME NEW e \in Emitters, EmitOwn(e) PROVE IssuedInv'
  BY <1>8, OwnIssued
<1> QED
  BY <1>3, <1>4, <1>5, <1>6, <1>7, <1>8 DEF AlertsNext, Elsewhere, ReadSubscribe, TelStep,
     readerVars, allVars

LEMMA AlertsStep ==
  AlertsInv /\ [AlertsNext]_allVars => AlertsInv'
<1> SUFFICES ASSUME AlertsInv, [AlertsNext]_allVars PROVE AlertsInv'
  OBVIOUS
<1>1. PubSubStep /\ TelemetryStep
  BY AlertsParts
<1>2. RoundsInv' /\ SendInv'
  BY <1>1, RoundsStep, SendStep DEF AlertsInv
<1>3. IssuedInv'
  BY IssuedStep
<1>4. owed' \in [Clients -> SUBSET PubRounds]
  <2>1. ASSUME NEW msg \in wire, ReadPublish(msg) PROVE owed' \in [Clients -> SUBSET PubRounds]
    BY <2>1 DEF ReadPublish, HandlePublish, AlertsInv
  <2>2. CASE owed' = owed \/ RestartWatched
    BY <2>2 DEF AlertsInv, RestartWatched
  <2> QED
    BY <2>1, <2>2 DEF AlertsNext, Elsewhere, ReadSubscribe, EmitAlert, PublishHandled, EmitOwn,
       TelStep, readerVars, allVars
<1> QED
  BY <1>2, <1>3, <1>4 DEF AlertsInv

\* The alerts for one publication bear different numbers, of which there are
\* no more than nodes that subscribe.
LEMMA AlertsFew ==
  ASSUME AlertsInv, NEW r \in PubRounds
  PROVE  Cardinality({i \in DOMAIN emitted : emitted[i].kind = "alert" /\ emitted[i].of = r})
           <= Cardinality(Subscribing)
<1> DEFINE D == {i \in DOMAIN emitted : emitted[i].kind = "alert" /\ emitted[i].of = r}
           N == Cardinality(Subscribing)
           f == [i \in D |-> emitted[i].number]
<1>1. emitted \in Seq(Events) /\ IsInjective(emitted) /\ N \in Nat
  BY SubscribingPeers DEF AlertsInv, SendInv, TelType
<1>2. ASSUME NEW i \in D PROVE emitted[i] \in Events /\ f[i] \in 1..N
  <2>1. emitted[i] \in ToSet(emitted) /\ emitted[i] \in Events
    BY <1>1, LenProperties, ElementOfSeq DEF ToSet
  <2> QED
    BY <1>2, <2>1 DEF AlertsInv, IssuedInv, Issued, SaidOnce
<1>3. ASSUME NEW i \in D, NEW j \in D, f[i] = f[j] PROVE i = j
  <2>1. emitted[i] = emitted[j]
    BY <1>2, <1>3 DEF Events
  <2> QED
    BY <1>1, <2>1 DEF IsInjective
<1> HIDE DEF D, N
<1>4. f \in Injection(D, 1..N)
  BY <1>2, <1>3 DEF Injection, IsInjective
<1>5. IsFiniteSet(1..N) /\ Cardinality(1..N) = N
  <2>1. 1 \in Int /\ N \in Int
    BY <1>1
  <2>2. IsFiniteSet(1..N) /\ Cardinality(1..N) = IF 1 > N THEN 0 ELSE N - 1 + 1
    BY <2>1, FS_Interval
  <2> QED
    BY <1>1, <2>2
<1>6. Cardinality(D) <= Cardinality(1..N)
  BY <1>4, <1>5, FS_Injection
<1> QED
  BY <1>5, <1>6 DEF D, N

\* The rounds, the requests, the events of the broker's emitters and its
\* clients' channels, which never exceed their capacity, have their types
\* (subscriptions.go, telemetry.go).
THEOREM AlertsTypeCorrect == AlertsSpec => []AlertsTypeOK
<1>1. AlertsInv => AlertsTypeOK
  <2> SUFFICES ASSUME AlertsInv PROVE AlertsTypeOK
    OBVIOUS
  <2>1. left \in 0..Cardinality(Peers)
    BY SubscribingPeers DEF AlertsInv, IssuedInv
  <2> QED
    BY <2>1 DEF AlertsInv, RoundsInv, SendInv, IssuedInv, TelType, AlertsTypeOK
<1> QED
  BY <1>1, AlertsInitInv, AlertsStep, PTL DEF AlertsSpec

\* engine.go:130-136, 436-442: for any brokers and any number of rounds, every
\* broker a lookup found has been asked or is still to be, whichever failed.
THEOREM BrokersAllAsked == AlertsSpec => []EveryBrokerAsked
<1>1. AlertsInv => EveryBrokerAsked
  BY DEF AlertsInv, RoundsInv
<1> QED
  BY <1>1, AlertsInitInv, AlertsStep, PTL DEF AlertsSpec

\* commands.go:282-302, telemetry.go:72-115: for any nodes, clients and
\* capacity, whatever subscriptions and publications interleave, no emission is
\* broadcast twice, clients see them in order, and a publication is announced
\* at most once per subscribing node.
THEOREM StreamsFaithful == AlertsSpec => []StreamFaithful
<1>1. AlertsInv => StreamFaithful
  BY AlertsFew DEF AlertsInv, SendInv, StreamFaithful
<1> QED
  BY <1>1, AlertsInitInv, AlertsStep, PTL DEF AlertsSpec
=============================================================================

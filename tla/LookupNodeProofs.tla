--------------------------- MODULE LookupNodeProofs ---------------------------
(***************************************************************************)
(* The shortlist of a lookup always holds the K closest contacts heard of,  *)
(* no node is queried twice, and a value that is not found was asked for    *)
(* everywhere it should be: for every network, K and Alpha.                 *)
(***************************************************************************)
EXTENDS Lookups, FiniteSetTheorems, WellFoundedInduction, TLAPS

-----------------------------------------------------------------------------
(* Facts about the n closest contacts of a set. *)

\* Any non-empty set of contacts has a closest one.
LEMMA Minimum ==
  ASSUME NEW S \in SUBSET Contacts, S # {}
  PROVE  \E c \in S : \A d \in S : c <= d
<1>1. S \subseteq Nat
  BY ShortlistAssumption
<1>2. PICK c \in S : \A d \in S : <<d, c>> \notin OpToRel(<, Nat)
  BY <1>1, NatLessThanWellFounded, WFMin
<1>3. \A d \in S : ~(d < c)
  BY <1>1, <1>2 DEF OpToRel
<1>4. QED
  BY <1>1, <1>3

\* The set of closer contacts is finite and grows with the set.
LEMMA CloserFacts ==
  ASSUME NEW S \in SUBSET Contacts, NEW T \in SUBSET S, NEW c
  PROVE  /\ IsFiniteSet(Closer(S, c)) /\ Cardinality(Closer(S, c)) \in Nat
         /\ Cardinality(Closer(T, c)) \in Nat
         /\ Cardinality(Closer(T, c)) <= Cardinality(Closer(S, c))
<1>1. IsFiniteSet(S)
  BY ShortlistAssumption, FS_Subset
<1>2. IsFiniteSet(Closer(S, c))
  BY <1>1, FS_Subset DEF Closer
<1>3. Closer(T, c) \in SUBSET Closer(S, c)
  BY DEF Closer
<1>4. IsFiniteSet(Closer(T, c))
        /\ Cardinality(Closer(T, c)) <= Cardinality(Closer(S, c))
  BY <1>2, <1>3, FS_Subset
<1>5. QED
  BY <1>2, <1>4, FS_CardinalityType

\* A contact among the n closest of a set is among those of every subset
\* that it belongs to.
LEMMA ClosestOfSubset ==
  ASSUME NEW S \in SUBSET Contacts, NEW T \in SUBSET S, NEW n \in Nat,
         NEW c \in T, c \in NClosest(S, n)
  PROVE  c \in NClosest(T, n)
BY CloserFacts DEF NClosest

\* What the list dropped earlier cannot matter later: the n closest of a
\* set and of new contacts are found among its n closest and the new ones.
LEMMA ClosestIsCumulative ==
  ASSUME NEW A \in SUBSET Contacts, NEW S \in SUBSET Contacts, NEW n \in Nat
  PROVE  NClosest(NClosest(A, n) \cup S, n) = NClosest(A \cup S, n)
<1> DEFINE B == NClosest(A, n) \cup S
<1>0. B \in SUBSET (A \cup S) /\ A \cup S \in SUBSET Contacts
  BY DEF NClosest
<1>1. ASSUME NEW c \in NClosest(A \cup S, n) PROVE c \in NClosest(B, n)
  <2>1. c \in A \cup S
    BY DEF NClosest
  <2>2. c \in A => c \in NClosest(A, n)
    BY <1>0, ClosestOfSubset
  <2> QED
    BY <1>0, <2>1, <2>2, ClosestOfSubset
<1>2. ASSUME NEW c \in NClosest(B, n), c \notin NClosest(A \cup S, n)
      PROVE  FALSE
  <2> DEFINE Dropped == Closer(A \cup S, c) \ B
  <2>1. c \in B /\ Cardinality(Closer(B, c)) < n
    BY DEF NClosest
  <2>2. Dropped # {}
    <3>1. CASE Dropped = {}
      <4>1. Closer(A \cup S, c) = Closer(B, c)
        BY <1>0, <3>1 DEF Closer
      <4> QED
        BY <1>0, <1>2, <2>1, <4>1 DEF NClosest
    <3> QED
      BY <3>1
  <2>3. Dropped \in SUBSET Contacts
    BY <1>0 DEF Closer
  <2>4. PICK d \in Dropped : \A e \in Dropped : d <= e
    BY <2>2, <2>3, Minimum
  <2>5. d \in A /\ d \notin NClosest(A, n) /\ d < c
    BY <2>4 DEF Closer
  <2>6. ~(Cardinality(Closer(A, d)) < n)
    BY <2>5 DEF NClosest
  <2>7. Closer(A, d) \in SUBSET Closer(B, c)
    <3> SUFFICES ASSUME NEW e \in A, e < d PROVE e \in B /\ e < c
      BY DEF Closer
    <3>1. e \in Nat /\ d \in Nat /\ c \in Nat
      BY <1>0, <2>1, <2>3, ShortlistAssumption
    <3>2. e < c
      BY <2>5, <3>1
    <3>3. e \in B
      BY <2>4, <3>1, <3>2 DEF Closer
    <3> QED
      BY <3>2, <3>3
  <2>8. Cardinality(Closer(A, d)) <= Cardinality(Closer(B, c))
    BY <1>0, <2>7, CloserFacts, FS_Subset
  <2>9. Cardinality(Closer(A, d)) \in Nat /\ Cardinality(Closer(B, c)) \in Nat
    BY <1>0, CloserFacts
  <2> QED
    BY <2>1, <2>6, <2>8, <2>9
<1>3. QED
  BY <1>1, <1>2

\* A set with at most n contacts is its own n closest.
LEMMA SmallSet ==
  ASSUME NEW S \in SUBSET Contacts, NEW n \in Nat, Cardinality(S) <= n
  PROVE  NClosest(S, n) = S
<1> SUFFICES ASSUME NEW c \in S PROVE Cardinality(Closer(S, c)) < n
  BY DEF NClosest
<1>1. IsFiniteSet(S) /\ Cardinality(S) \in Nat
  BY ShortlistAssumption, FS_Subset, FS_CardinalityType
<1>2. c \notin Closer(S, c)
  BY ShortlistAssumption DEF Closer
<1>3. Closer(S, c) \in SUBSET (S \ {c})
  BY <1>2 DEF Closer
<1>4. IsFiniteSet(S \ {c}) /\ Cardinality(S \ {c}) = Cardinality(S) - 1
  BY <1>1, FS_RemoveElement
<1>5. Cardinality(Closer(S, c)) <= Cardinality(S) - 1
  BY <1>3, <1>4, FS_Subset
<1>6. QED
  BY <1>1, <1>5, CloserFacts

-----------------------------------------------------------------------------
(* The operations of the shortlist. *)

\* A shortlist is a function from contacts to statuses.
LEMMA ShortlistType ==
  ASSUME NEW list
  PROVE  list \in Shortlists <=>
           /\ DOMAIN list \in SUBSET Contacts
           /\ list = [c \in DOMAIN list |-> list[c]]
           /\ \A c \in DOMAIN list : list[c] \in contactStatus
<1>1. ASSUME list \in Shortlists
      PROVE  /\ DOMAIN list \in SUBSET Contacts
             /\ list = [c \in DOMAIN list |-> list[c]]
             /\ \A c \in DOMAIN list : list[c] \in contactStatus
  <2>1. PICK S \in SUBSET Contacts : list \in [S -> contactStatus]
    BY <1>1 DEF Shortlists
  <2> QED
    BY <2>1
<1>2. ASSUME DOMAIN list \in SUBSET Contacts,
             list = [c \in DOMAIN list |-> list[c]],
             \A c \in DOMAIN list : list[c] \in contactStatus
      PROVE  list \in Shortlists
  <2>1. list \in [DOMAIN list -> contactStatus]
    BY <1>2
  <2> QED
    BY <1>2, <2>1 DEF Shortlists
<1>3. QED
  BY <1>1, <1>2

\* Marking changes the status of the marked entries and nothing else.
LEMMA MarkFacts ==
  ASSUME NEW list \in Shortlists, NEW S, NEW s \in contactStatus
  PROVE  /\ Mark(list, S, s) \in Shortlists
         /\ DOMAIN Mark(list, S, s) = DOMAIN list
         /\ \A c \in DOMAIN list :
              Mark(list, S, s)[c] = IF c \in S THEN s ELSE list[c]
<1>1. DOMAIN list \in SUBSET Contacts
      /\ \A c \in DOMAIN list : list[c] \in contactStatus
  BY ShortlistType
<1>2. Mark(list, S, s) \in [DOMAIN list -> contactStatus]
  BY <1>1 DEF Mark
<1>3. QED
  BY <1>1, <1>2 DEF Mark, Shortlists

\* After an answer the list holds the K closest of the old entries and the
\* recommended contacts; old entries keep their status, the others are new.
LEMMA MarkRespondedFacts ==
  ASSUME NEW list \in Shortlists, NEW c, NEW S \in SUBSET Contacts
  PROVE  LET next == MarkResponded(list, c, S)
         IN  /\ next \in Shortlists
             /\ DOMAIN next = NClosest(DOMAIN list \cup S, K)
             /\ \A d \in DOMAIN next :
                  next[d] = IF d \notin DOMAIN list THEN "new"
                            ELSE IF d = c THEN "responded" ELSE list[d]
<1> DEFINE marked == Mark(list, {c}, "responded")
           added == AddContacts(marked, S)
           next == MarkResponded(list, c, S)
<1>1. /\ marked \in Shortlists /\ DOMAIN marked = DOMAIN list
      /\ \A d \in DOMAIN list :
           marked[d] = IF d = c THEN "responded" ELSE list[d]
  BY MarkFacts DEF contactStatus
<1>2. /\ DOMAIN list \in SUBSET Contacts
      /\ \A d \in DOMAIN list : marked[d] \in contactStatus
  BY <1>1, ShortlistType
<1>3. /\ DOMAIN added = DOMAIN list \cup S
      /\ \A d \in DOMAIN list \cup S :
           added[d] = IF d \in DOMAIN list THEN marked[d] ELSE "new"
  BY <1>1 DEF AddContacts
<1>4. DOMAIN next = NClosest(DOMAIN list \cup S, K)
  BY <1>3 DEF MarkResponded, Truncate
<1>5. NClosest(DOMAIN list \cup S, K) \subseteq DOMAIN list \cup S
  BY DEF NClosest
<1>6. \A d \in DOMAIN next : next[d] = added[d]
  BY <1>3, <1>4 DEF MarkResponded, Truncate
<1>7. next \in [DOMAIN next -> contactStatus]
  <2>1. next = [d \in DOMAIN next |-> added[d]]
    BY <1>3, <1>4 DEF MarkResponded, Truncate
  <2>2. \A d \in DOMAIN next : added[d] \in contactStatus
    BY <1>2, <1>3, <1>4, <1>5 DEF contactStatus
  <2> QED
    BY <2>1, <2>2
<1>8. next \in Shortlists
  BY <1>2, <1>4, <1>5, <1>7 DEF Shortlists
<1>9. QED
  BY <1>1, <1>3, <1>4, <1>5, <1>6, <1>8

-----------------------------------------------------------------------------

\* Every variable keeps its type.
THEOREM TypeCorrect == Spec => []TypeOK
<1>1. Init => TypeOK
  <2> SUFFICES ASSUME NEW initial \in InitialContacts,
                      shortlist = NewShortlist(initial), inflight = {},
                      pc = "loop", result = {}, known = initial, asked = {}
               PROVE  TypeOK
    BY DEF Init
  <2>1. initial \in SUBSET Contacts
    BY DEF InitialContacts
  <2>2. shortlist \in [initial -> contactStatus]
    BY DEF NewShortlist, contactStatus
  <2> QED
    BY <2>1, <2>2 DEF TypeOK, Shortlists
<1>2. TypeOK /\ [Next]_vars => TypeOK'
  <2> SUFFICES ASSUME TypeOK, [Next]_vars PROVE TypeOK'
    OBVIOUS
  <2>0. Next2Query \subseteq Contacts
    BY ShortlistType DEF TypeOK, Next2Query, NextToQuery, NClosest, WithStatus
  <2>1. CASE StartRound
    <3>1. shortlist' \in Shortlists
      BY <2>1, MarkFacts DEF StartRound, MarkQuerying, TypeOK, contactStatus
    <3> QED
      BY <2>0, <2>1, <3>1 DEF StartRound, TypeOK
  <2>2. CASE Finish
    <3>1. GetClosest(shortlist) \subseteq Contacts
      BY ShortlistType DEF TypeOK, GetClosest, WithStatus
    <3> QED
      BY <2>2, <3>1 DEF Finish, TypeOK
  <2>3. CASE EndRound
    BY <2>3 DEF EndRound, TypeOK
  <2>4. ASSUME NEW c \in Contacts, Fail(c) PROVE TypeOK'
    <3>1. shortlist' \in Shortlists
      BY <2>4, MarkFacts DEF Fail, MarkFailed, TypeOK, contactStatus
    <3> QED
      BY <2>4, <3>1 DEF Fail, TypeOK
  <2>5. ASSUME NEW c \in Contacts, NEW S \in Replies, Answer(c, S) PROVE TypeOK'
    <3>1. S \in SUBSET Contacts
      BY DEF Replies
    <3>2. shortlist' \in Shortlists
      BY <2>5, <3>1, MarkRespondedFacts DEF Answer, TypeOK
    <3> QED
      BY <2>5, <3>1, <3>2 DEF Answer, TypeOK
  <2>6. CASE UNCHANGED vars
    BY <2>6 DEF vars, TypeOK
  <2> QED
    BY <2>1, <2>2, <2>3, <2>4, <2>5, <2>6 DEF Next, Main, Query
<1>3. QED
  BY <1>1, <1>2, PTL DEF Spec

\* How each step keeps what the list and the queries have to do with each other.
LEMMA LookupInvariant == Spec => []LookupInv
<1>1. Init => LookupInv
  <2> SUFFICES ASSUME NEW initial \in InitialContacts,
                      shortlist = NewShortlist(initial), inflight = {},
                      pc = "loop", result = {}, known = initial, asked = {}
               PROVE  LookupInv
    BY DEF Init
  <2>1. initial \in SUBSET Contacts /\ Cardinality(initial) <= K
    BY DEF InitialContacts
  <2>2. /\ DOMAIN shortlist = initial
        /\ \A c \in initial : shortlist[c] = "new"
    BY DEF NewShortlist
  <2>3. HoldsClosest
    BY <2>1, <2>2, SmallSet, ShortlistAssumption DEF HoldsClosest
  <2> QED
    BY <2>2, <2>3 DEF LookupInv, AskedOnce, NoStrayQuery, ResultComplete,
                      Bookkeeping, WithStatus
<1>2. TypeOK /\ LookupInv /\ [Next]_vars => LookupInv'
  <2> SUFFICES ASSUME TypeOK, LookupInv, [Next]_vars PROVE LookupInv'
    OBVIOUS
  <2> USE DEF LookupInv
  <2>0. Next2Query \subseteq WithStatus(shortlist, "new")
    BY DEF Next2Query, NextToQuery, NClosest
  <2>1. CASE StartRound
    <3>1. /\ DOMAIN shortlist' = DOMAIN shortlist
          /\ \A c \in DOMAIN shortlist :
               shortlist'[c] = IF c \in Next2Query THEN "querying"
                                                  ELSE shortlist[c]
      BY <2>1, MarkFacts
      DEF StartRound, MarkQuerying, Next2Query, TypeOK, contactStatus
    <3>2. /\ inflight = {} /\ inflight' = Next2Query /\ pc' = "wait"
          /\ asked' = asked \cup Next2Query /\ known' = known
      BY <2>1 DEF StartRound, Bookkeeping
    <3>3. HoldsClosest'
      BY <3>1, <3>2 DEF HoldsClosest
    <3>4. DOMAIN shortlist \subseteq known
      BY DEF HoldsClosest, NClosest
    <3>5. AskedOnce' /\ NoStrayQuery' /\ Bookkeeping'
      BY <2>0, <3>1, <3>2, <3>4
      DEF AskedOnce, NoStrayQuery, Bookkeeping, WithStatus
    <3> QED
      BY <3>2, <3>3, <3>5 DEF ResultComplete
  <2>2. CASE Finish
    <3>1. /\ UNCHANGED <<shortlist, inflight, known, asked>>
          /\ pc = "loop" /\ pc' = "done"
          /\ result' = WithStatus(shortlist, "responded")
          /\ WithStatus(shortlist, "new") = {}
          /\ WithStatus(shortlist, "querying") = {}
      BY <2>2 DEF Finish, IsFinished, GetClosest
    <3>2. \A c \in DOMAIN shortlist : shortlist[c] \in contactStatus
      BY ShortlistType DEF TypeOK
    <3>3. \A c \in DOMAIN shortlist :
            c \in asked /\ shortlist[c] \in {"responded", "failed"}
      BY <3>1, <3>2 DEF WithStatus, Bookkeeping, contactStatus
    <3>4. ResultComplete'
      BY <3>1, <3>3 DEF ResultComplete, HoldsClosest, WithStatus
    <3>5. HoldsClosest' /\ AskedOnce' /\ NoStrayQuery' /\ Bookkeeping'
      BY <3>1 DEF HoldsClosest, AskedOnce, NoStrayQuery, Bookkeeping,
                  WithStatus
    <3> QED
      BY <3>4, <3>5
  <2>3. CASE EndRound
    BY <2>3 DEF EndRound, HoldsClosest, AskedOnce, NoStrayQuery,
                ResultComplete, Bookkeeping, WithStatus
  <2>4. ASSUME NEW c \in Contacts, Fail(c) PROVE LookupInv'
    <3>1. /\ DOMAIN shortlist' = DOMAIN shortlist
          /\ \A d \in DOMAIN shortlist :
               shortlist'[d] = IF d = c THEN "failed" ELSE shortlist[d]
      BY <2>4, MarkFacts DEF Fail, MarkFailed, TypeOK, contactStatus
    <3>2. /\ c \in inflight /\ inflight' = inflight \ {c}
          /\ UNCHANGED <<pc, result, known, asked>> /\ pc = "wait"
      BY <2>4 DEF Fail, Bookkeeping
    <3>3. HoldsClosest'
      BY <3>1, <3>2 DEF HoldsClosest
    <3>4. AskedOnce' /\ NoStrayQuery' /\ Bookkeeping'
      BY <3>1, <3>2 DEF AskedOnce, NoStrayQuery, Bookkeeping, WithStatus
    <3> QED
      BY <3>2, <3>3, <3>4 DEF ResultComplete
  <2>5. ASSUME NEW c \in Contacts, NEW S \in Replies, Answer(c, S)
        PROVE  LookupInv'
    <3>1. /\ S \in SUBSET Contacts /\ known \in SUBSET Contacts
          /\ shortlist \in Shortlists /\ K \in Nat
      BY ShortlistAssumption DEF Replies, TypeOK
    <3>2. /\ DOMAIN shortlist' = NClosest(DOMAIN shortlist \cup S, K)
          /\ \A d \in DOMAIN shortlist' :
               shortlist'[d] =
                 IF d \notin DOMAIN shortlist THEN "new"
                 ELSE IF d = c THEN "responded" ELSE shortlist[d]
      BY <2>5, <3>1, MarkRespondedFacts DEF Answer
    <3>3. /\ c \in inflight /\ inflight' = inflight \ {c}
          /\ known' = known \cup S
          /\ UNCHANGED <<pc, result, asked>> /\ pc = "wait"
      BY <2>5 DEF Answer, Bookkeeping
    <3>4. HoldsClosest'
      <4>1. NClosest(NClosest(known, K) \cup S, K) = NClosest(known \cup S, K)
        BY <3>1, ClosestIsCumulative
      <4> QED
        BY <3>2, <3>3, <4>1 DEF HoldsClosest
    <3>5. \A d \in DOMAIN shortlist' : d \in asked => d \in DOMAIN shortlist
      <4> SUFFICES ASSUME NEW d \in DOMAIN shortlist', d \in asked
                   PROVE  d \in NClosest(known, K)
        BY DEF HoldsClosest
      <4>1. d \in known /\ d \in NClosest(known \cup S, K)
        BY <3>3, <3>4 DEF Bookkeeping, HoldsClosest
      <4> QED
        BY <3>1, <4>1, ClosestOfSubset
    <3>6. AskedOnce'
      BY <3>2, <3>3, <3>5 DEF AskedOnce, WithStatus
    <3>7. NoStrayQuery' /\ Bookkeeping'
      BY <3>2, <3>3 DEF NoStrayQuery, Bookkeeping, WithStatus
    <3> QED
      BY <3>3, <3>4, <3>6, <3>7 DEF ResultComplete
  <2>6. CASE UNCHANGED vars
    BY <2>6 DEF vars, HoldsClosest, AskedOnce, NoStrayQuery, ResultComplete,
                Bookkeeping, WithStatus
  <2> QED
    BY <2>1, <2>2, <2>3, <2>4, <2>5, <2>6 DEF Next, Main, Query
<1>3. QED
  BY <1>1, <1>2, TypeCorrect, PTL DEF Spec

\* The K closest contacts heard of are in the list, no query is lost, and a
\* finished lookup has asked them all.
THEOREM LookupCorrect == Spec => [](HoldsClosest /\ NoStrayQuery /\ ResultComplete)
<1>1. LookupInv => HoldsClosest /\ NoStrayQuery /\ ResultComplete
  BY DEF LookupInv
<1> QED
  BY <1>1, LookupInvariant, PTL

\* shortlist.go: no node is queried twice by one lookup, whoever recommends it
\* again after it failed or was cut from the list.
THEOREM NobodyAskedTwice == Spec => []AskedOnce
<1>1. LookupInv => AskedOnce
  BY DEF LookupInv
<1> QED
  BY <1>1, LookupInvariant, PTL

-----------------------------------------------------------------------------
(* Values (FindValue) *)

LEMMA SameCardinality == \A S : V!Cardinality(S) = Cardinality(S)
BY DEF V!Cardinality, Cardinality

\* Both lookups use one shortlist.
LEMMA SameShortlist ==
  /\ V!contactStatus = contactStatus /\ V!Shortlists = Shortlists
  /\ \A S, n : V!NClosest(S, n) = NClosest(S, n)
  /\ \A list, s : V!WithStatus(list, s) = WithStatus(list, s)
  /\ \A list, S, s : V!Mark(list, S, s) = Mark(list, S, s)
  /\ \A list, c, S : V!MarkResponded(list, c, S) = MarkResponded(list, c, S)
<1>1. V!contactStatus = contactStatus /\ V!Shortlists = Shortlists
  BY DEF V!contactStatus, contactStatus, V!Shortlists, Shortlists
<1>2. \A S, n : V!NClosest(S, n) = NClosest(S, n)
  BY SameCardinality DEF V!NClosest, NClosest, V!Closer, Closer
<1>3. \A list, s : V!WithStatus(list, s) = WithStatus(list, s)
  BY DEF V!WithStatus, WithStatus
<1>4. \A list, S, s : V!Mark(list, S, s) = Mark(list, S, s)
  BY DEF V!Mark, Mark
<1>5. \A list, c, S : V!MarkResponded(list, c, S) = MarkResponded(list, c, S)
  BY <1>2, <1>4
  DEF V!MarkResponded, MarkResponded, V!Truncate, Truncate, V!AddContacts, AddContacts
<1> QED
  BY <1>1, <1>2, <1>3, <1>4, <1>5

LEMMA FindInit ==
  ASSUME V!FindAssumption, V!Init
  PROVE  V!FindInv
<1>1. PICK initial \in V!InitialContacts :
        /\ vList = V!NewShortlist(initial) /\ vKnown = initial
        /\ vInflight = {} /\ vSending = {} /\ vOnce = FALSE /\ vChan = FALSE
        /\ vPc = "loop" /\ vFound = FALSE
  BY DEF V!Init
<1>2. initial \in SUBSET Contacts /\ Cardinality(initial) <= K
  BY SameCardinality DEF V!InitialContacts
<1>3. vList \in [initial -> contactStatus] /\ \A c \in initial : vList[c] = "new"
  BY <1>1 DEF V!NewShortlist, contactStatus
<1>4. vList \in Shortlists /\ DOMAIN vList = NClosest(vKnown, K)
  BY <1>1, <1>2, <1>3, SmallSet, ShortlistAssumption DEF Shortlists
<1>5. V!TypeOK
  BY <1>1, <1>2, <1>4, SameShortlist DEF V!TypeOK
<1>6. WithStatus(vList, "querying") = {} /\ WithStatus(vList, "responded") = {}
  BY <1>3 DEF WithStatus
<1> QED
  BY <1>1, <1>4, <1>5, <1>6, SameShortlist DEF V!FindInv, V!NotFoundIsHonest

\* The goroutines of a round end: with a failure, with contacts, or with the
\* value, which is passed on.
LEMMA FindQuery ==
  ASSUME V!FindAssumption, V!FindInv, NEW c \in Contacts, V!Query(c)
  PROVE  V!FindInv'
<1>1. /\ V!TypeOK /\ vList \in Shortlists /\ vKnown \in SUBSET Contacts
      /\ DOMAIN vList = NClosest(vKnown, K)
      /\ K \in Nat
  BY SameShortlist, ShortlistAssumption DEF V!FindInv, V!TypeOK
<1>2. CASE V!AnswerValue(c)
  <2>1. /\ c \in vInflight /\ vInflight' = vInflight \ {c} /\ vOnce' = TRUE
        /\ vSending' \in {vSending, vSending \cup {c}} /\ c \in Holders
        /\ UNCHANGED <<vList, vChan, vPc, vFound, vKnown>>
    BY <1>2 DEF V!AnswerValue, V!HasValue
  <2>2. V!TypeOK'
    BY <1>1, <2>1 DEF V!TypeOK
  <2>3. V!NotFoundIsHonest'
    BY <2>1 DEF V!NotFoundIsHonest
  <2> QED
    BY <2>1, <2>2, <2>3, SameShortlist DEF V!FindInv
<1>3. CASE V!SendValue(c)
  <2>1. /\ vOnce /\ vChan' = TRUE /\ vSending' = vSending \ {c}
        /\ UNCHANGED <<vList, vInflight, vOnce, vPc, vFound, vKnown>>
    BY <1>3 DEF V!SendValue, V!FindInv
  <2>2. V!TypeOK'
    BY <1>1, <2>1 DEF V!TypeOK
  <2>3. V!NotFoundIsHonest'
    BY <2>1 DEF V!NotFoundIsHonest
  <2> QED
    BY <2>1, <2>2, <2>3, SameShortlist DEF V!FindInv
<1>4. CASE V!Fail(c)
  <2>1. /\ c \in vInflight /\ vInflight' = vInflight \ {c}
        /\ vList' = Mark(vList, {c}, "failed")
        /\ UNCHANGED <<vSending, vOnce, vChan, vPc, vFound, vKnown>>
    BY <1>4, SameShortlist DEF V!Fail, V!MarkFailed
  <2>2. /\ vList' \in Shortlists /\ DOMAIN vList' = DOMAIN vList
        /\ \A d \in DOMAIN vList :
             vList'[d] = IF d = c THEN "failed" ELSE vList[d]
    BY <1>1, <2>1, MarkFacts DEF contactStatus
  <2>3. V!TypeOK'
    BY <1>1, <2>1, <2>2, SameShortlist DEF V!TypeOK
  <2>4. V!NotFoundIsHonest'
    BY <2>1 DEF V!NotFoundIsHonest, V!FindInv
  <2> QED
    BY <2>1, <2>2, <2>3, <2>4, SameShortlist DEF V!FindInv, WithStatus
<1>5. ASSUME NEW S \in V!Replies, V!AnswerContacts(c, S)
      PROVE  V!FindInv'
  <2>1. /\ c \in vInflight /\ vInflight' = vInflight \ {c} /\ c \notin Holders
        /\ vList' = MarkResponded(vList, c, S) /\ vKnown' = vKnown \cup S
        /\ UNCHANGED <<vSending, vOnce, vChan, vPc, vFound>>
    BY <1>5, SameShortlist DEF V!AnswerContacts, V!HasValue
  <2>2. S \in SUBSET Contacts
    BY DEF V!Replies
  <2>3. /\ vList' \in Shortlists
        /\ DOMAIN vList' = NClosest(DOMAIN vList \cup S, K)
        /\ \A d \in DOMAIN vList' :
             vList'[d] = IF d \notin DOMAIN vList THEN "new"
                             ELSE IF d = c THEN "responded" ELSE vList[d]
    BY <1>1, <2>1, <2>2, MarkRespondedFacts
  <2>4. DOMAIN vList' = NClosest(vKnown', K)
    <3>1. NClosest(NClosest(vKnown, K) \cup S, K) = NClosest(vKnown \cup S, K)
      BY <1>1, <2>2, ClosestIsCumulative
    <3> QED
      BY <1>1, <2>1, <2>3, <3>1
  <2>5. V!TypeOK'
    BY <1>1, <2>1, <2>2, <2>3, SameShortlist DEF V!TypeOK
  <2>6. V!NotFoundIsHonest'
    BY <2>1 DEF V!NotFoundIsHonest, V!FindInv
  <2> QED
    BY <2>1, <2>3, <2>4, <2>5, <2>6, SameShortlist DEF V!FindInv, WithStatus
<1> QED
  BY <1>2, <1>3, <1>4, <1>5 DEF V!Query

\* The loop of FindValue.
LEMMA FindMain ==
  ASSUME V!FindAssumption, V!FindInv, V!Main
  PROVE  V!FindInv'
<1>1. /\ V!TypeOK /\ vList \in Shortlists /\ vKnown \in SUBSET Contacts
      /\ DOMAIN vList = NClosest(vKnown, K)
  BY SameShortlist DEF V!FindInv, V!TypeOK
<1>2. CASE V!StartRound
  <2>1. /\ vInflight = {} /\ vInflight' = V!Next2Query /\ vPc' = "wait"
        /\ vList' = Mark(vList, V!Next2Query, "querying")
        /\ UNCHANGED <<vSending, vOnce, vChan, vFound, vKnown>>
    BY <1>2, SameShortlist
    DEF V!StartRound, V!MarkQuerying, V!Next2Query, V!FindInv
  <2>2. V!Next2Query \subseteq WithStatus(vList, "new")
    BY SameShortlist DEF V!Next2Query, V!NextToQuery, NClosest
  <2>3. /\ vList' \in Shortlists /\ DOMAIN vList' = DOMAIN vList
        /\ \A d \in DOMAIN vList :
             vList'[d] = IF d \in V!Next2Query THEN "querying" ELSE vList[d]
    BY <1>1, <2>1, MarkFacts DEF contactStatus
  <2>4. V!Next2Query \subseteq Contacts
    BY <1>1, <2>2, ShortlistType DEF WithStatus
  <2>5. V!TypeOK'
    BY <1>1, <2>1, <2>3, <2>4, SameShortlist DEF V!TypeOK
  <2>6. V!NotFoundIsHonest'
    BY <2>1 DEF V!NotFoundIsHonest
  <2> QED
    BY <1>1, <2>1, <2>3, <2>5, <2>6, SameShortlist DEF V!FindInv, WithStatus
<1>3. CASE V!NotFound
  <2>1. /\ vInflight = {} /\ vPc' = "done"
        /\ UNCHANGED <<vList, vInflight, vSending, vOnce, vChan, vFound, vKnown>>
        /\ WithStatus(vList, "new") = {} /\ WithStatus(vList, "querying") = {}
    BY <1>3, SameShortlist DEF V!NotFound, V!IsFinished, V!FindInv
  <2>2. \A c \in DOMAIN vList :
          vList[c] = "failed" \/ (vList[c] = "responded" /\ c \notin Holders)
    BY <1>1, <2>1, ShortlistType, SameShortlist
    DEF WithStatus, contactStatus, V!FindInv
  <2>3. V!TypeOK'
    BY <1>1, <2>1 DEF V!TypeOK
  <2>4. V!NotFoundIsHonest'
    BY <1>1, <2>1, <2>2, SameShortlist DEF V!NotFoundIsHonest
  <2> QED
    BY <2>1, <2>3, <2>4, SameShortlist DEF V!FindInv
<1>4. CASE V!TakeValue
  <2>1. /\ vOnce /\ vChan' = FALSE /\ vFound' = TRUE /\ vPc' = "done"
        /\ UNCHANGED <<vList, vInflight, vSending, vOnce, vKnown>>
    BY <1>4 DEF V!TakeValue, V!FindInv
  <2>2. V!TypeOK'
    BY <1>1, <2>1 DEF V!TypeOK
  <2>3. V!NotFoundIsHonest'
    BY <2>1 DEF V!NotFoundIsHonest
  <2> QED
    BY <2>1, <2>2, <2>3, SameShortlist DEF V!FindInv
<1>5. CASE V!EndRound
  <2>1. /\ vInflight = {} /\ vPc' = "loop"
        /\ UNCHANGED <<vList, vInflight, vSending, vOnce, vChan, vFound, vKnown>>
    BY <1>5 DEF V!EndRound, V!RoundFinished
  <2>2. V!TypeOK'
    BY <1>1, <2>1 DEF V!TypeOK
  <2>3. V!NotFoundIsHonest'
    BY <2>1 DEF V!NotFoundIsHonest
  <2> QED
    BY <2>1, <2>2, <2>3, SameShortlist DEF V!FindInv
<1> QED
  BY <1>2, <1>3, <1>4, <1>5 DEF V!Main

\* commands.go:353-446: FindValue reports that there is no value only after it
\* asked the K closest nodes heard of, unless one has delivered it: none of
\* those that answered holds the value.
THEOREM NotFoundHonest == V!Spec => []NotFoundIsHonest
<1>1. V!Init => V!FindInv
  BY FindInit, ValueAssumption
<1>2. V!FindInv /\ [V!Next]_(V!vars) => V!FindInv'
  <2> SUFFICES ASSUME V!FindInv, [V!Next]_(V!vars) PROVE V!FindInv'
    OBVIOUS
  <2>1. CASE UNCHANGED V!vars
    BY <2>1, SameShortlist DEF V!vars, V!FindInv, V!TypeOK, V!NotFoundIsHonest
  <2> QED
    BY <2>1, FindMain, FindQuery, ValueAssumption DEF V!Next
<1>3. V!FindInv => NotFoundIsHonest
  BY DEF V!FindInv, NotFoundIsHonest
<1> QED
  BY <1>1, <1>2, <1>3, PTL DEF V!Spec
=============================================================================

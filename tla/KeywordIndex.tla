----------------------------- MODULE KeywordIndex -----------------------------
(***************************************************************************)
(* The index chunk of one keyword on one node.  Each shared chunk has a     *)
(* goroutine that runs Engine.indexContent (src/internal/dht/engine.go),    *)
(* which reads the index, adds its pointer and stores it back, holding no    *)
(* lock; the read loop runs Router.handleStore (commands.go), which merges  *)
(* the index a peer sends under r.mu.                                       *)
(***************************************************************************)
EXTENDS Integers, SequencesExt

CONSTANTS
  Sharers,    \* chunks being indexed under the keyword, named by pointer
  Incoming,   \* the pointer lists of the index chunks peers may send
  Remote,     \* the pointer lists FindValue may fetch when none is local
  Cap,        \* the length limit of an index (50)
  Collisions, \* may a regular chunk be stored under the keyword's id?
  Expires,    \* may the index leave the storage (TTL, eviction)?
  NoIndex, Chunk, NoView

\* Pointers are compared as the code sorts them (hex strings).
Pointers == Sharers \cup UNION {Range(s) : s \in Incoming \cup Remote}

ASSUME IndexAssumption ==
  /\ Sharers \subseteq Nat
  /\ Incoming \subseteq Seq(Nat) /\ Remote \subseteq Seq(Nat)
  /\ Cap \in Nat \ {0}
  /\ Collisions \in BOOLEAN /\ Expires \in BOOLEAN

\* A list that may be stored: within the limit, no pointer twice.
ProperList(s) == s \in Seq(Pointers) /\ Len(s) <= Cap /\ IsInjective(s)

\* handleStore does not check the list a peer sends, nor indexContent the one
\* it fetches: peers run this code, whose own lists are proper.
ASSUME PeersAssumption == \A s \in Incoming \cup Remote : ProperList(s)

VARIABLES
  cell,     \* the storage under the keyword's id: a list, Chunk or NoIndex
  sharer,   \* each goroutine of indexContent: "start", "store" or "done"
  view,     \* the list it read
  handled,  \* the list handleStore is about to store, NoView outside
  arrived,  \* the incoming lists handleStore has started on (bound)
  overlap   \* history: an update has begun while another was in progress

vars == <<cell, sharer, view, handled, arrived, overlap>>

IsIndex(c) == c \notin {NoIndex, Chunk}
Listed(c) == IF IsIndex(c) THEN Range(c) ELSE {}

Init ==
  /\ cell = NoIndex
  /\ sharer = [p \in Sharers |-> "start"]
  /\ view = [p \in Sharers |-> NoView]
  /\ handled = NoView
  /\ arrived = {}
  /\ overlap = FALSE

InProgress ==
  handled # NoView \/ \E p \in Sharers : sharer[p] = "store"

Starts == overlap' = (overlap \/ InProgress)

\* Storage.Store refuses to replace a committed chunk; callers ignore it.
Stored(list) == IF cell = Chunk THEN Chunk ELSE list

-----------------------------------------------------------------------------
(* indexContent, lines 392-425, for this keyword *)

\* FindValue reads the local copy, or asks the network; what is not an index
\* counts as an empty one.
ReadLists ==
  CASE IsIndex(cell) -> {cell}
    [] cell = Chunk -> {<<>>}
    [] cell = NoIndex -> {<<>>} \cup Remote

ReadIndex(p) ==
  /\ sharer[p] = "start" /\ Starts
  /\ \E list \in ReadLists :
       /\ view' = [view EXCEPT ![p] = list]
       /\ sharer' =
            [sharer EXCEPT ![p] = IF p \in Range(list) THEN "done" ELSE "store"]
  /\ UNCHANGED <<cell, handled, arrived>>

\* mutant: the pointer is an unset id
WithUnsetPointer(list, p) == Append(list, 0)

\* The oldest pointer is dropped when there is one too many.
WithPointer(list, p) ==
  LET longer == Append(list, p)
  IN  IF Len(longer) > Cap THEN Tail(longer) ELSE longer

StoreIndex(p) ==
  /\ sharer[p] = "store"
  /\ cell' = Stored(WithPointer(view[p], p))
  /\ sharer' = [sharer EXCEPT ![p] = "done"]
  /\ UNCHANGED <<view, handled, arrived, overlap>>

-----------------------------------------------------------------------------
(* handleStore *)

concatPointers(p1, p2) == p1 \o p2   \* mutant: no union

\* The elements of a set in increasing order: each comes after as many as are
\* below it.
Sorted(S) ==
  [i \in 1..Cardinality(S) |->
     CHOOSE x \in S : Cardinality({y \in S : y < x}) = i - 1]

\* The union, sorted; of too many, the Cap last in the order.
mergePointers(p1, p2) ==
  LET res == Sorted(Range(p1) \cup Range(p2))
  IN  IF Len(res) > Cap THEN SubSeq(res, Len(res) - Cap + 1, Len(res)) ELSE res

Overwritten(list) == list   \* mutant: the local index is replaced

Merged(list) == IF IsIndex(cell) THEN mergePointers(cell, list) ELSE list

HandleRead(list) ==
  /\ handled = NoView /\ Starts
  /\ list \notin arrived
  /\ handled' = Merged(list)
  /\ arrived' = arrived \cup {list}
  /\ UNCHANGED <<cell, sharer, view>>

HandleStore ==
  /\ handled # NoView
  /\ cell' = Stored(handled)
  /\ handled' = NoView
  /\ UNCHANGED <<sharer, view, arrived, overlap>>

-----------------------------------------------------------------------------

\* A regular chunk with the keyword's id, shared here or sent by a peer, is
\* stored as committed: whatever index there was is replaced.
StoreContent ==
  /\ Collisions /\ cell # Chunk /\ Starts
  /\ cell' = Chunk
  /\ UNCHANGED <<sharer, view, handled, arrived>>

\* The entry expires or is evicted.
Forget ==
  /\ Expires /\ cell # NoIndex /\ Starts
  /\ cell' = NoIndex
  /\ UNCHANGED <<sharer, view, handled, arrived>>

Next ==
  \/ \E p \in Sharers : ReadIndex(p) \/ StoreIndex(p)
  \/ \E list \in Incoming : HandleRead(list)
  \/ HandleStore
  \/ StoreContent
  \/ Forget

Spec == Init /\ [][Next]_vars

-----------------------------------------------------------------------------
(* Properties *)

\* Every variable has its type.
TypeOK ==
  /\ cell \in Seq(Pointers) \cup {NoIndex, Chunk}
  /\ sharer \in [Sharers -> {"start", "store", "done"}]
  /\ view \in [Sharers -> Seq(Pointers) \cup {NoView}]
  /\ handled \in Seq(Pointers) \cup {NoView}
  /\ arrived \subseteq Incoming
  /\ overlap \in BOOLEAN

\* However updates interleave, an index never grows beyond its limit and
\* never lists a pointer twice, as those that peers send do not.
WellFormed ==
  IsIndex(cell) =>
    /\ Len(cell) <= Cap
    /\ Cardinality(Range(cell)) = Len(cell)

\* What WellFormed needs to be inductive: the lists about to be stored are
\* proper, and a goroutine adds a pointer only to a list without it.
ListsInv ==
  /\ IsIndex(cell) => ProperList(cell)
  /\ handled # NoView => ProperList(handled)
  /\ \A p \in Sharers :
       sharer[p] = "store" => ProperList(view[p]) /\ p \notin Range(view[p])

\* The list is an index that lost pointers only because it is full.
Keeps(list, old) ==
  old \subseteq Range(list) \/ Cardinality(Range(list)) = Cap

\* What the mapping below needs: before any overlap, at most one update is in
\* progress, and the index is still the one it has read.
AloneInv ==
  ~overlap =>
    /\ \A p, q \in Sharers : sharer[p] = "store" /\ sharer[q] = "store" => p = q
    /\ handled # NoView =>
         Keeps(handled, Listed(cell)) /\ \A p \in Sharers : sharer[p] # "store"
    /\ \A p \in Sharers : sharer[p] = "store" /\ IsIndex(cell) => view[p] = cell

\* As long as no update has begun while another was in progress, the index
\* implements PointerSet: neither indexContent nor the merge of handleStore
\* drops a pointer unless the index is full.  (Once two have overlapped, the
\* mapping takes the set for forgotten, and nothing is claimed.)
Alone == INSTANCE PointerSet
           WITH pointers <- IF overlap THEN {} ELSE Listed(cell)
MergesAlone == Alone!Spec

\* ARCHITECTURE.md:72 and CHANGELOG.md:58: merging prevents data loss under
\* concurrent updates: the index implements PointerSet however they overlap.
Concurrent == INSTANCE PointerSet WITH pointers <- Listed(cell)
MergesConcurrently == Concurrent!Spec
=============================================================================

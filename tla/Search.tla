-------------------------------- MODULE Search -------------------------------
(***************************************************************************)
(* Engine.Search (src/internal/dht/engine.go): a query of one term (or none) *)
(* is looked up by its hash, one of several terms fetches their indices and *)
(* intersects them.  Each index, pointer and segment is fetched by its own  *)
(* goroutine, while users share and rate and chunks expire.  FindValue is   *)
(* one step here: it returns the local copy, or one that the swarm holds,   *)
(* or nothing (FindValue.tla models it in full).                            *)
(***************************************************************************)
EXTENDS Integers

CONSTANTS
  Keywords,      \* the identifiers of indices
  Data,          \* the chunks of small contents
  Manifests, Segments,
  Pointers,      \* what the index of a keyword lists
  SegmentsOf,    \* what a manifest lists
  AuthorOf,      \* the author of a chunk, or NoAuthor for an unsigned one
  Authors, NoAuthor,
  Rejected,      \* the chunks that ExtractAndInspectSecure refuses
  MinReputation,
  Scores,        \* the reputation scores considered
  Exact,         \* the identifiers looked up by hash
  Several,       \* the sets of two terms or more looked up
  NoTarget

Ids == Keywords \cup Data \cup Manifests \cup Segments
Listed == Data \cup Manifests

ASSUME SearchAssumption ==
  /\ Pointers \in [Keywords -> SUBSET Listed]
  /\ SegmentsOf \in [Manifests -> SUBSET Segments]
  /\ AuthorOf \in [Ids -> Authors \cup {NoAuthor}]
  /\ MinReputation \in Int /\ Scores \subseteq Int
  /\ Rejected \subseteq Ids /\ Exact \subseteq Ids /\ NoTarget \notin Ids
  /\ Several \subseteq SUBSET Keywords
  /\ \A T \in Several : \E s, t \in T : s # t
  /\ Manifests \cap (Keywords \cup Data \cup Segments) = {}

VARIABLES
  local,    \* the state this node holds an identifier in, or "none"
  remote,   \* the same for a copy FindValue may get from another node
  score,    \* the local reputation of each author
  pc,       \* what Search waits for
  target,   \* targetID of performExactSearch, or NoTarget
  terms,    \* the terms of performMultiTermSearch
  stage,    \* the goroutine of an identifier: its next step or outcome
  results,  \* the results so far: the chunk, and the state of the copy used
  best,     \* history: each author's best score since the search began
  calm      \* history: nothing has changed since the search began

vars == <<local, remote, score, pc, target, terms, stage, results, best, calm>>
chunks == <<local, remote>>
ratings == <<score, best, calm>>
query == <<target, terms>>

\* The states an identifier is found in: content is committed, staged or
\* modified; a large content's chunks are always committed.
States(id) ==
  CASE id \in Keywords -> {"none", "index"}
    [] id \in Data -> {"none", "modified", "committed"}
    [] OTHER -> {"none", "committed"}

AllOff == [id \in Ids |-> "off"]

Init ==
  /\ local \in [Ids -> UNION {States(id) : id \in Ids}]
  /\ remote \in [Ids -> UNION {States(id) : id \in Ids}]
  /\ \A id \in Ids : local[id] \in States(id) /\ remote[id] \in States(id)
  /\ score \in [Authors -> Scores]
  /\ pc = "idle"
  /\ target = NoTarget
  /\ terms = {}
  /\ stage = AllOff
  /\ results = {}
  /\ best = score
  /\ calm = TRUE

-----------------------------------------------------------------------------
(* What the steps share *)

\* FindValue: the state of the copy it returns, "none" if it finds nothing;
\* a lookup may miss what the swarm holds.
Found(id) ==
  IF local[id] # "none" THEN {local[id]} ELSE {remote[id], "none"}

AnyReputation(id) == TRUE   \* mutant: no reputation check
\* Authors below MinReputation are filtered out; unsigned data have no author.
Trusted(id) ==
  AuthorOf[id] \in Authors => score[AuthorOf[id]] >= MinReputation

\* The filter on the local metadata.  What this node does not hold passes.
PassesFilter(id) == local[id] \in {"none", "committed"}

Started(S, s) == [id \in Ids |-> IF id \in S THEN s ELSE "off"]
At(id, s) == stage[id] = s
Goes(id, s) == stage' = [stage EXCEPT ![id] = s]
AllEnded(S) == \A id \in S : stage[id] \in {"in", "out"}

\* A result, with the state of the copy it was made from.
Result(id, s) == [id |-> id, from |-> s]

\* mutant: the search returns without waiting for its goroutines
LeavesRunning == pc' = "done" /\ stage' = stage
Ends == pc' = "done" /\ stage' = AllOff
EndsWithNothing == Ends /\ results' = results

-----------------------------------------------------------------------------
(* Search *)

SearchExact(id) ==
  /\ pc = "idle"
  /\ pc' = "exact"
  /\ target' = id
  /\ stage' = Started({id}, "find")
  /\ best' = score
  /\ UNCHANGED <<chunks, score, calm, terms, results>>

SearchTerms(T) ==
  /\ pc = "idle"
  /\ pc' = "terms"
  /\ terms' = T
  /\ stage' = Started(T, "find")
  /\ best' = score
  /\ UNCHANGED <<chunks, score, calm, target, results>>

-----------------------------------------------------------------------------
(* performExactSearch *)

ExactFind ==
  /\ pc = "exact" /\ At(target, "find")
  /\ \E s \in Found(target) :
       \/ s = "none" /\ EndsWithNothing
       \/ s # "none" /\ Goes(target, s) /\ UNCHANGED <<pc, results>>
  /\ UNCHANGED <<chunks, ratings, query>>

\* The copy has been fetched (its state is the goroutine's stage): the filter
\* looks at the metadata only now.
ExactResolve ==
  /\ pc = "exact" /\ ~At(target, "find")
  /\ \/ /\ ~PassesFilter(target) \/ target \in Rejected \/ ~Trusted(target)
        /\ EndsWithNothing
     \/ /\ PassesFilter(target) /\ target \notin Rejected /\ Trusted(target)
        /\ \/ /\ target \in Manifests
              /\ pc' = "segments"
              /\ stage' = Started(SegmentsOf[target], "find")
              /\ results' = results
           \/ /\ target \in Keywords
              /\ pc' = "pointers"
              /\ stage' = Started(Pointers[target], "meta")
              /\ results' = results
           \/ /\ target \in Data \cup Segments
              /\ results' = {Result(target, stage[target])}
              /\ Ends
  /\ UNCHANGED <<chunks, ratings, query>>

-----------------------------------------------------------------------------
(* resolveManifest *)

SegmentFind(id) ==
  /\ pc = "segments" /\ At(id, "find")
  /\ \E s \in Found(id) :
       Goes(id, IF s = "none" \/ id \in Rejected THEN "out" ELSE "check")
  /\ UNCHANGED <<chunks, ratings, query, pc, results>>

SegmentCheck(id) ==
  /\ pc = "segments" /\ At(id, "check")
  /\ Goes(id, IF Trusted(id) THEN "in" ELSE "out")
  /\ UNCHANGED <<chunks, ratings, query, pc, results>>

NoMissing == TRUE   \* mutant: the errors of the goroutines are forgotten
AllIn == \A id \in SegmentsOf[target] : At(id, "in")

\* A segment that is missing, refused or filtered fails the whole content.
SegmentsJoin ==
  /\ pc = "segments" /\ AllEnded(SegmentsOf[target])
  /\ results' = IF AllIn THEN {Result(target, "committed")} ELSE {}
  /\ Ends
  /\ UNCHANGED <<chunks, ratings, query>>

-----------------------------------------------------------------------------
(* performMultiTermSearch *)

\* An index is used whatever its state here and whoever signed it.
TermFind(t) ==
  /\ pc = "terms" /\ At(t, "find")
  /\ \E s \in Found(t) :
       Goes(t, IF s = "none" \/ t \in Rejected THEN "out" ELSE "in")
  /\ UNCHANGED <<chunks, ratings, query, pc, results>>

\* mutant: any term will do
UnionOf(T) == UNION {Pointers[t] : t \in T}
Intersection(T) == {p \in Listed : \A t \in T : p \in Pointers[t]}

TermsJoin ==
  /\ pc = "terms" /\ AllEnded(terms)
  /\ \/ /\ (\E t \in terms : At(t, "out")) \/ Intersection(terms) = {}
        /\ EndsWithNothing
     \/ /\ \A t \in terms : At(t, "in")
        /\ Intersection(terms) # {}
        /\ pc' = "pointers"
        /\ stage' = Started(Intersection(terms), "meta")
        /\ results' = results
  /\ UNCHANGED <<chunks, ratings, query>>

-----------------------------------------------------------------------------
(* resolveIndex: each pointer is filtered, then fetched, then inspected *)

Resolving == IF target = NoTarget THEN Intersection(terms) ELSE Pointers[target]

\* mutant: a copy held here is not considered
SkipsHeld(id) == local[id] = "none"
Considered(id) == PassesFilter(id)

PointerMeta(id) ==
  /\ pc = "pointers" /\ At(id, "meta")
  /\ Goes(id, IF Considered(id) THEN "find" ELSE "out")
  /\ UNCHANGED <<chunks, ratings, query, pc, results>>

\* What a goroutine has fetched is kept as its stage.
PointerFind(id) ==
  /\ pc = "pointers" /\ At(id, "find")
  /\ \E s \in Found(id) :
       Goes(id, IF s = "none" \/ id \in Rejected THEN "out" ELSE s)
  /\ UNCHANGED <<chunks, ratings, query, pc, results>>

\* mutant: the goroutine of a filtered author never calls Done
FilteredStays(id) == IF Trusted(id) THEN "in" ELSE stage[id]
Outcome(id) == IF Trusted(id) THEN "in" ELSE "out"

PointerCheck(id) ==
  /\ pc = "pointers" /\ stage[id] \in {"modified", "staged", "committed"}
  /\ Goes(id, Outcome(id))
  /\ results' = IF Trusted(id) THEN results \cup {Result(id, stage[id])}
                ELSE results
  /\ UNCHANGED <<chunks, ratings, query, pc>>

PointersJoin ==
  /\ pc = "pointers" /\ AllEnded(Resolving)
  /\ EndsWithNothing
  /\ UNCHANGED <<chunks, ratings, query>>

-----------------------------------------------------------------------------
(* What happens meanwhile *)

\* A Store, here or on a peer, under an identifier that is not committed.
Store(id, s) ==
  /\ pc # "done"
  /\ calm' = (pc = "idle")
  /\ s \in States(id)
  /\ \/ local[id] # "committed" /\ s # "none"
        /\ local' = [local EXCEPT ![id] = s] /\ remote' = remote
     \/ remote[id] # "committed" /\ s # "none"
        /\ remote' = [remote EXCEPT ![id] = s] /\ local' = local
  /\ UNCHANGED <<score, best, query, pc, stage, results>>

Expire(id) ==
  /\ pc # "done"
  /\ calm' = (pc = "idle")
  /\ \/ local' = [local EXCEPT ![id] = "none"] /\ remote' = remote
     \/ remote' = [remote EXCEPT ![id] = "none"] /\ local' = local
  /\ UNCHANGED <<score, best, query, pc, stage, results>>

Better(m, n) == IF m > n THEN m ELSE n

RateAuthor(a, total) ==
  /\ pc # "done"
  /\ calm' = (pc = "idle")
  /\ score' = [score EXCEPT ![a] = total]
  /\ best' = [best EXCEPT ![a] = Better(@, total)]
  /\ UNCHANGED <<chunks, query, pc, stage, results>>

Goroutine(id) ==
  \/ SegmentFind(id) \/ SegmentCheck(id) \/ TermFind(id)
  \/ PointerMeta(id) \/ PointerFind(id) \/ PointerCheck(id)

Main == ExactFind \/ ExactResolve \/ SegmentsJoin \/ TermsJoin \/ PointersJoin

Next ==
  \/ \E id \in Exact : SearchExact(id)
  \/ \E T \in Several : SearchTerms(T)
  \/ Main
  \/ \E id \in Ids : Goroutine(id)
  \/ \E id \in Ids, s \in {"modified", "committed", "index"} : Store(id, s)
  \/ \E id \in Ids : Expire(id)
  \/ \E a \in Authors, total \in Scores : RateAuthor(a, total)

Spec == Init /\ [][Next]_vars

\* A goroutine that can run runs, provided FindValue returns.
FairSpec == Spec /\ WF_vars(Main) /\ \A id \in Ids : WF_vars(Goroutine(id))

-----------------------------------------------------------------------------
(* Properties *)

\* Every variable has its type, a search is of one kind, and no goroutine
\* outlives it.
TypeOK ==
  /\ local \in [Ids -> {"none", "modified", "staged", "committed", "index"}]
  /\ remote \in [Ids -> {"none", "modified", "staged", "committed", "index"}]
  /\ score \in [Authors -> Int] /\ best \in [Authors -> Int]
  /\ pc \in {"idle", "exact", "segments", "terms", "pointers", "done"}
  /\ target \in Ids \cup {NoTarget} /\ calm \in BOOLEAN
  /\ terms \in SUBSET Keywords
  /\ stage \in [Ids -> {"off", "find", "meta", "check", "in", "out",
                        "modified", "staged", "committed", "index"}]
  /\ target = NoTarget \/ terms = {}
  /\ pc \in {"idle", "done"} => stage = AllOff
  /\ \A r \in results : r.id \in Ids

Answers == {r.id : r \in results}

\* A search for several terms answers with nothing that one of them does not
\* list, in whatever order the indices and the chunks arrive.
ListedUnderAll ==
  target = NoTarget => \A t \in terms : Answers \subseteq Pointers[t]

\* The author was not below MinReputation all through the search.
WasTrusted(id) ==
  AuthorOf[id] \in Authors => best[AuthorOf[id]] >= MinReputation

\* No result is by an author who was below MinReputation all through the
\* search.
TrustedResults == \A id \in Answers : WasTrusted(id)

Held(id) == local[id] # "none" \/ remote[id] # "none"

\* A large content is answered whole or not at all: when its manifest was
\* looked up by hash, all its segments were found, accepted and trusted.
WholeOrNothing ==
  \A id \in Answers \cap Manifests :
    target = id =>
      \A s \in SegmentsOf[id] :
        /\ s \notin Rejected /\ WasTrusted(s)
        /\ calm => Held(s)

IndicesHeld(T) ==
  \A t \in T : local[t] = "index" /\ t \notin Rejected /\ Trusted(t)

\* What a search for the terms T owes its user when nothing changes while it
\* runs: every committed chunk held here, by a trusted author, that all the
\* indices list, when the indices are held here as well.
Complete(T) ==
  IndicesHeld(T) =>
    \A p \in Intersection(T) :
      local[p] = "committed" /\ p \notin Rejected /\ Trusted(p) => p \in Answers

SeveralTermsComplete == pc = "done" /\ calm /\ terms # {} => Complete(terms)

\* What these need to be inductive.  Which search is under way, in which
\* phase, and that results come in the last one only:
Phases ==
  /\ pc = "idle" => target = NoTarget /\ terms = {}
  /\ pc = "exact" => target \in Ids
  /\ pc = "segments" => target \in Manifests
  /\ pc = "terms" => target = NoTarget /\ terms # {}
  /\ pc = "pointers" => target \in Keywords \/ target = NoTarget
  /\ pc \in {"idle", "exact", "segments", "terms"} => results = {}

\* Scores have not exceeded the best ones; what a manifest and a segment
\* passed on the way to a result;
Passed ==
  /\ \A a \in Authors : score[a] <= best[a]
  /\ pc = "segments" =>
       /\ WasTrusted(target)
       /\ \A s \in SegmentsOf[target] :
            /\ stage[s] \in {"check", "in"} => s \notin Rejected /\ (calm => Held(s))
            /\ stage[s] = "in" => WasTrusted(s)

\* whose goroutines run; and, when nothing changes, how far the chunks that a
\* complete search must return have come.
Running == pc = "pointers" => \A id \in Ids : stage[id] # "off" => id \in Resolving

Underway ==
  calm /\ target = NoTarget /\ IndicesHeld(terms) =>
    /\ pc = "terms" => \A t \in terms : stage[t] \in {"find", "in"}
    /\ pc = "pointers" =>
         \A p \in Intersection(terms) :
           local[p] = "committed" /\ p \notin Rejected /\ Trusted(p) =>
             stage[p] \in {"meta", "find", "committed"} \/ p \in Answers

SearchInv ==
  /\ TypeOK /\ Phases /\ Passed /\ Running /\ Underway
  /\ ListedUnderAll /\ TrustedResults /\ WholeOrNothing /\ SeveralTermsComplete

\* A search that has begun returns.
SearchReturns == (pc # "idle") ~> (pc = "done")

-----------------------------------------------------------------------------
(* Claims of the documentation that do not hold (see README.md) *)

\* CHANGELOG.md:20: a committed chunk is "searchable", on the node that
\* shared it and with one keyword too.
OneTermComplete == pc = "done" /\ calm /\ target \in Keywords => Complete({target})

\* CHANGELOG.md:28: Search "filters out non-committed chunks from results".
OnlyCommitted == \A r \in results : r.from = "committed"

\* CHANGELOG.md:56: large contents are reassembled: the result that stands
\* for one is its content, which resolveManifest joins from its segments.
Reassembled == \A id \in Answers \cap Manifests : target = id
=============================================================================

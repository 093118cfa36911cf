------------------------------ MODULE SearchProofs ------------------------------
(***************************************************************************)
(* What a search answers, for any keywords, contents, authors and scores,   *)
(* and however its goroutines interleave with shares, ratings and expiry.   *)
(***************************************************************************)
EXTENDS Search, TLAPS

USE DEF Ids, Listed

-----------------------------------------------------------------------------
(* Operators *)

\* What FindValue returns is the copy held here, if there is one.
LEMMA FoundHere ==
  ASSUME NEW id, NEW s \in Found(id)
  PROVE  /\ s \in {local[id], remote[id], "none"}
         /\ s # "none" => Held(id)
         /\ local[id] # "none" => s = local[id]
BY DEF Found, Held

\* Every chunk of an intersection is listed, and by each of the indices.
LEMMA IntersectionListed ==
  ASSUME NEW T
  PROVE  /\ Intersection(T) \subseteq Ids
         /\ \A t \in T : Intersection(T) \subseteq Pointers[t]
BY DEF Intersection

\* Goroutines started over S.
LEMMA StartedType ==
  ASSUME NEW S, NEW s
  PROVE  /\ Started(S, s) \in [Ids -> {s, "off"}]
         /\ \A id \in Ids : Started(S, s)[id] = IF id \in S THEN s ELSE "off"
BY DEF Started

\* Who is trusted now has been trusted.
LEMMA TrustedWas ==
  ASSUME TypeOK, Passed, SearchAssumption, NEW id, Trusted(id)
  PROVE  WasTrusted(id)
BY DEF TypeOK, Passed, SearchAssumption, Trusted, WasTrusted

-----------------------------------------------------------------------------
(* The inductive invariant *)

LEMMA SearchInit ==
  ASSUME SearchAssumption, Init
  PROVE  SearchInv
<1>1. TypeOK
  BY DEF Init, SearchAssumption, TypeOK, States, AllOff
<1>2. Phases
  BY DEF Init, Phases
<1>3. Passed
  <2>1. \A a \in Authors : score[a] \in Int
    BY DEF Init, SearchAssumption
  <2> QED
    BY <2>1 DEF Init, Passed
<1>4. Answers = {} /\ terms = {} /\ pc = "idle"
  BY DEF Init, Answers
<1> QED
  BY <1>1, <1>2, <1>3, <1>4
  DEF SearchInv, Running, Underway, ListedUnderAll, TrustedResults, WholeOrNothing,
      SeveralTermsComplete

\* What happens meanwhile -- a share, an expiry, a rating -- leaves the search
\* alone, never lowers an author's best score and ends the calm.
LEMMA MeanwhileStep ==
  ASSUME SearchAssumption, SearchInv, TypeOK', pc # "done",
         UNCHANGED <<query, pc, stage, results>>,
         calm' => pc = "idle",
         \A a \in Authors : best[a] <= best'[a] /\ score'[a] <= best'[a]
  PROVE  SearchInv'
<1> USE DEF query
<1>1. Phases'
  BY DEF SearchInv, Phases
<1>2. ASSUME NEW id, WasTrusted(id) PROVE WasTrusted(id)'
  BY <1>2 DEF WasTrusted, SearchAssumption, TypeOK, SearchInv
<1>3. Passed'
  BY <1>2 DEF SearchInv, Passed
<1>4. Answers' = Answers
  BY DEF Answers
<1>5. Running' /\ ListedUnderAll'
  BY <1>4 DEF SearchInv, Running, Resolving, ListedUnderAll
<1>6. TrustedResults'
  BY <1>2, <1>4 DEF SearchInv, TrustedResults
<1>7. pc = "idle" => Answers = {}
  BY DEF SearchInv, Phases, Answers
<1>8. WholeOrNothing'
  BY <1>2, <1>4, <1>7 DEF SearchInv, WholeOrNothing
<1>9. Underway' /\ SeveralTermsComplete'
  BY DEF Underway, SeveralTermsComplete
<1> QED
  BY <1>1, <1>3, <1>5, <1>6, <1>8, <1>9 DEF SearchInv

LEMMA BeginStep ==
  ASSUME SearchAssumption, SearchInv,
         \/ \E id \in Exact : SearchExact(id)
         \/ \E T \in Several : SearchTerms(T)
  PROVE  SearchInv'
<1>1. TypeOK /\ pc = "idle" /\ terms = {} /\ target = NoTarget /\ results = {}
  BY DEF SearchInv, Phases, SearchExact, SearchTerms
<1>2. /\ UNCHANGED <<chunks, score, calm, results>> /\ best' = score
      /\ pc' \in {"exact", "terms"}
  BY DEF SearchExact, SearchTerms
<1>3. /\ stage' \in [Ids -> {"find", "off"}]
      /\ target' \in Ids \cup {NoTarget} /\ terms' \in SUBSET Keywords
      /\ target' = NoTarget \/ terms' = {}
      /\ pc' = "exact" => target' \in Ids
      /\ pc' = "terms" => /\ target' = NoTarget /\ terms' # {}
                          /\ \A t \in terms' : stage'[t] = "find"
  <2>1. CASE \E id \in Exact : SearchExact(id)
    BY <2>1, <1>1, StartedType DEF SearchExact, SearchAssumption
  <2>2. CASE \E T \in Several : SearchTerms(T)
    <3>1. PICK T \in Several : SearchTerms(T)
      BY <2>2
    <3>2. T # {} /\ T \in SUBSET Keywords
      BY DEF SearchAssumption
    <3> QED
      BY <3>1, <3>2, <1>1, StartedType DEF SearchTerms
  <2> QED
    BY <2>1, <2>2
<1>4. TypeOK'
  BY <1>1, <1>2, <1>3 DEF TypeOK, chunks
<1>5. Phases'
  BY <1>1, <1>2, <1>3 DEF Phases
<1>6. Passed'
  <2>1. \A a \in Authors : score'[a] <= best'[a]
    BY <1>1, <1>2 DEF TypeOK
  <2> QED
    BY <2>1, <1>2 DEF Passed
<1>7. Underway'
  BY <1>2, <1>3 DEF Underway
<1>8. Answers' = {}
  BY <1>1, <1>2 DEF Answers
<1> QED
  BY <1>2, <1>4, <1>5, <1>6, <1>7, <1>8
  DEF SearchInv, Running, ListedUnderAll, TrustedResults, WholeOrNothing,
      SeveralTermsComplete

\* The steps of a search change nothing else; they may be taken one by one.
LEMMA ExactStep ==
  ASSUME SearchAssumption, SearchInv, ExactFind \/ ExactResolve
  PROVE  SearchInv'
<1> USE DEF chunks, ratings, query
<1>1. /\ TypeOK /\ pc = "exact" /\ target \in Ids /\ target # NoTarget /\ terms = {}
      /\ results = {}
      /\ UNCHANGED <<chunks, ratings, query>>
  BY DEF SearchInv, Phases, TypeOK, ExactFind, ExactResolve, SearchAssumption
<1>2. ASSUME NEW id, WasTrusted(id) PROVE WasTrusted(id)'
  BY <1>1, <1>2 DEF WasTrusted
<1>3. Underway' /\ SeveralTermsComplete' /\ ListedUnderAll'
  BY <1>1 DEF Underway, SeveralTermsComplete, ListedUnderAll
<1>4. (\A a \in Authors : score[a] <= best[a])'
  BY <1>1 DEF SearchInv, Passed
<1>5. CASE /\ pc' = "done" /\ stage' = AllOff /\ results' = results
  <2>1. TypeOK' /\ Phases'
    BY <1>1, <1>5 DEF TypeOK, Phases, AllOff
  <2>2. Answers' = {}
    BY <1>1, <1>5 DEF Answers
  <2> QED
    BY <1>3, <1>4, <1>5, <2>1, <2>2
    DEF SearchInv, Running, Passed, TrustedResults, WholeOrNothing
<1>6. CASE ExactFind /\ ~(pc' = "done")
  <2>1. PICK s \in Found(target) : s # "none" /\ Goes(target, s) /\ UNCHANGED <<pc, results>>
    BY <1>6 DEF ExactFind, EndsWithNothing, Ends
  <2>2. s \in {"modified", "staged", "committed", "index"}
    BY <1>1, <2>1, FoundHere DEF TypeOK
  <2>3. TypeOK' /\ Phases'
    BY <1>1, <2>1, <2>2 DEF TypeOK, Phases, Goes
  <2>4. Answers' = {}
    BY <1>1, <2>1 DEF Answers
  <2> QED
    BY <1>1, <1>3, <1>4, <2>1, <2>3, <2>4
    DEF SearchInv, Running, Passed, TrustedResults, WholeOrNothing
<1>7. CASE ExactResolve /\ PassesFilter(target) /\ target \notin Rejected /\ Trusted(target)
           /\ ~(pc' = "done" /\ stage' = AllOff /\ results' = results)
  <2>1. WasTrusted(target)'
    BY <1>1, <1>2, <1>7, TrustedWas DEF SearchInv
  <2>2. CASE /\ target \in Manifests /\ pc' = "segments"
             /\ stage' = Started(SegmentsOf[target], "find") /\ results' = results
    <3>1. stage' \in [Ids -> {"find", "off"}]
      BY <2>2, StartedType
    <3>2. TypeOK' /\ Phases' /\ Answers' = {}
      BY <1>1, <2>2, <3>1 DEF TypeOK, Phases, Answers
    <3>3. Passed'
      <4>1. \A s \in SegmentsOf[target] : s \in Ids
        BY <2>2 DEF SearchAssumption
      <4> QED
        BY <1>1, <1>4, <2>1, <2>2, <3>1, <4>1 DEF Passed
    <3> QED
      BY <1>3, <2>2, <3>2, <3>3
      DEF SearchInv, Running, TrustedResults, WholeOrNothing
  <2>3. CASE /\ target \in Keywords /\ pc' = "pointers"
             /\ stage' = Started(Pointers[target], "meta") /\ results' = results
    <3>1. /\ stage' \in [Ids -> {"meta", "off"}]
          /\ \A id \in Ids : stage'[id] # "off" => id \in Pointers[target]
      BY <2>3, StartedType
    <3>2. TypeOK' /\ Phases' /\ Answers' = {}
      BY <1>1, <2>3, <3>1 DEF TypeOK, Phases, Answers
    <3>3. Running'
      BY <1>1, <3>1 DEF Running, Resolving
    <3> QED
      BY <1>3, <1>4, <2>3, <3>2, <3>3
      DEF SearchInv, Passed, TrustedResults, WholeOrNothing
  <2>4. CASE /\ target \in Data \cup Segments
             /\ results' = {Result(target, stage[target])} /\ Ends
    <3>1. Answers' = {target}
      BY <2>4 DEF Answers, Result
    <3>2. TypeOK' /\ Phases'
      BY <1>1, <2>4 DEF TypeOK, Phases, Ends, AllOff, Result
    <3>3. TrustedResults' /\ WholeOrNothing'
      BY <1>1, <2>1, <2>4, <3>1 DEF TrustedResults, WholeOrNothing, SearchAssumption
    <3> QED
      BY <1>3, <1>4, <2>4, <3>2, <3>3 DEF SearchInv, Running, Passed, Ends
  <2> QED
    BY <1>7, <2>2, <2>3, <2>4 DEF ExactResolve, EndsWithNothing, Ends
<1> QED
  BY <1>5, <1>6, <1>7 DEF ExactFind, ExactResolve, EndsWithNothing, Ends

\* The segments of a manifest: what each has passed is kept until they join.
LEMMA SegmentStep ==
  ASSUME SearchAssumption, SearchInv, NEW id \in Ids,
         SegmentFind(id) \/ SegmentCheck(id)
  PROVE  SearchInv'
<1> USE DEF chunks, ratings, query
<1>1. /\ TypeOK /\ pc = "segments" /\ target \in Manifests /\ target # NoTarget
      /\ terms = {} /\ results = {}
      /\ UNCHANGED <<chunks, ratings, query, pc, results>>
  BY DEF SearchInv, Phases, TypeOK, SegmentFind, SegmentCheck, SearchAssumption
<1>2. Phases' /\ Running' /\ Underway' /\ SeveralTermsComplete' /\ ListedUnderAll'
      /\ Answers' = {}
  BY <1>1 DEF SearchInv, Phases, Running, Underway, SeveralTermsComplete,
              ListedUnderAll, Answers
<1>3. /\ SegmentsOf[target] \in SUBSET Ids
      /\ \A s : (WasTrusted(s) => WasTrusted(s)') /\ (Held(s) => Held(s)')
  BY <1>1 DEF SearchAssumption, WasTrusted, Held
<1>4. ASSUME NEW s \in {"check", "in", "out"}, Goes(id, s),
             s \in {"check", "in"} => id \notin Rejected /\ (calm => Held(id)),
             s = "in" => WasTrusted(id)
      PROVE  TypeOK' /\ Passed'
  <2>1. TypeOK'
    BY <1>1, <1>4 DEF TypeOK, Goes
  <2>2. \A i \in Ids : stage'[i] = IF i = id THEN s ELSE stage[i]
    BY <1>1, <1>4 DEF TypeOK, Goes
  <2>3. Passed'
    BY <1>1, <1>3, <1>4, <2>2 DEF SearchInv, Passed
  <2> QED
    BY <2>1, <2>3
<1>5. TypeOK' /\ Passed'
  <2>1. CASE SegmentFind(id)
    <3>1. PICK s \in Found(id) :
            Goes(id, IF s = "none" \/ id \in Rejected THEN "out" ELSE "check")
      BY <2>1 DEF SegmentFind
    <3>2. CASE s = "none" \/ id \in Rejected
      BY <1>4, <3>1, <3>2
    <3>3. CASE ~(s = "none" \/ id \in Rejected)
      BY <1>4, <3>1, <3>3, FoundHere
    <3> QED
      BY <3>2, <3>3
  <2>2. CASE SegmentCheck(id)
    <3>1. CASE Trusted(id)
      <4>1. Goes(id, "in") /\ WasTrusted(id) /\ stage[id] = "check"
        BY <2>2, <3>1, TrustedWas DEF SegmentCheck, SearchInv, At
      <4>2. CASE id \in SegmentsOf[target]
        BY <1>1, <1>4, <4>1, <4>2 DEF SearchInv, Passed
      <4>3. CASE id \notin SegmentsOf[target]
        <5>1. TypeOK'
          BY <1>1, <4>1 DEF TypeOK, Goes
        <5>2. \A i \in SegmentsOf[target] : stage'[i] = stage[i]
          BY <1>1, <1>3, <4>1, <4>3 DEF TypeOK, Goes
        <5> QED
          BY <1>1, <1>3, <5>1, <5>2 DEF SearchInv, Passed
      <4> QED
        BY <4>2, <4>3
    <3>2. CASE ~Trusted(id)
      BY <1>4, <2>2, <3>2 DEF SegmentCheck
    <3> QED
      BY <3>1, <3>2
  <2> QED
    BY <2>1, <2>2
<1> QED
  BY <1>2, <1>5 DEF SearchInv, TrustedResults, WholeOrNothing

\* When they join, the content is answered only if all of them are in.
LEMMA SegmentsJoinStep ==
  ASSUME SearchAssumption, SearchInv, SegmentsJoin
  PROVE  SearchInv'
<1> USE DEF chunks, ratings, query
<1>1. /\ TypeOK /\ pc = "segments" /\ target \in Manifests /\ target # NoTarget
      /\ terms = {} /\ Ends
      /\ UNCHANGED <<chunks, ratings, query>>
  BY DEF SearchInv, Phases, TypeOK, SegmentsJoin, SearchAssumption
<1>2. TypeOK' /\ Phases' /\ Running' /\ Underway' /\ Passed'
  <2>1. \A r \in results' : r.id \in Ids
    BY <1>1 DEF SegmentsJoin, Result
  <2>2. TypeOK'
    BY <1>1, <2>1 DEF TypeOK, Ends, AllOff
  <2> QED
    BY <1>1, <2>2 DEF SearchInv, Phases, Running, Underway, Passed, Ends
<1>3. ListedUnderAll' /\ SeveralTermsComplete'
  BY <1>1 DEF ListedUnderAll, SeveralTermsComplete
<1>4. \A s : (WasTrusted(s) => WasTrusted(s)') /\ (Held(s) => Held(s)')
  BY <1>1 DEF WasTrusted, Held
<1>5. CASE AllIn
  <2>1. Answers' = {target}
    BY <1>5 DEF SegmentsJoin, Answers, Result
  <2>2. WasTrusted(target)
    BY <1>1 DEF SearchInv, Passed
  <2>3. \A s \in SegmentsOf[target] :
          s \notin Rejected /\ WasTrusted(s) /\ (calm => Held(s))
    BY <1>1, <1>5 DEF SearchInv, Passed, AllIn, At
  <2> QED
    BY <1>1, <1>2, <1>3, <1>4, <2>1, <2>2, <2>3
    DEF SearchInv, TrustedResults, WholeOrNothing
<1>6. CASE ~AllIn
  <2>1. Answers' = {}
    BY <1>6 DEF SegmentsJoin, Answers
  <2> QED
    BY <1>2, <1>3, <2>1 DEF SearchInv, TrustedResults, WholeOrNothing
<1> QED
  BY <1>5, <1>6

\* The indices of several terms.  Those held here are found.
LEMMA TermStep ==
  ASSUME SearchAssumption, SearchInv, NEW t \in Ids, TermFind(t)
  PROVE  SearchInv'
<1> USE DEF chunks, ratings, query
<1>1. /\ TypeOK /\ pc = "terms" /\ target = NoTarget /\ terms # {} /\ results = {}
      /\ UNCHANGED <<chunks, ratings, query, pc, results>>
  BY DEF SearchInv, Phases, TypeOK, TermFind
<1>2. Phases' /\ Passed' /\ Running' /\ Answers' = {}
  BY <1>1 DEF SearchInv, Phases, Passed, Running, Answers
<1>3. PICK s \in Found(t) :
        Goes(t, IF s = "none" \/ t \in Rejected THEN "out" ELSE "in")
  BY DEF TermFind
<1>4. TypeOK'
  BY <1>1, <1>3 DEF TypeOK, Goes
<1>5. Underway'
  <2>1. SUFFICES ASSUME calm, IndicesHeld(terms), NEW u \in terms
                 PROVE  stage'[u] \in {"find", "in"}
    BY <1>1 DEF Underway, IndicesHeld, Trusted
  <2>2. u \in Ids /\ stage[u] \in {"find", "in"}
    BY <1>1, <2>1 DEF SearchInv, Underway, TypeOK
  <2>3. u = t => s # "none" /\ t \notin Rejected
    BY <2>1, FoundHere DEF IndicesHeld
  <2> QED
    BY <1>1, <1>3, <2>2, <2>3 DEF TypeOK, Goes
<1> QED
  BY <1>1, <1>2, <1>4, <1>5
  DEF SearchInv, ListedUnderAll, TrustedResults, WholeOrNothing, SeveralTermsComplete

LEMMA TermsJoinStep ==
  ASSUME SearchAssumption, SearchInv, TermsJoin
  PROVE  SearchInv'
<1> USE DEF chunks, ratings, query
<1>1. /\ TypeOK /\ pc = "terms" /\ target = NoTarget /\ terms # {} /\ results = {}
      /\ results' = results
      /\ UNCHANGED <<chunks, ratings, query>>
  BY DEF SearchInv, Phases, TypeOK, TermsJoin, EndsWithNothing
<1>2. Answers' = {}
  BY <1>1 DEF Answers
<1>3. CASE /\ (\E t \in terms : At(t, "out")) \/ Intersection(terms) = {}
           /\ EndsWithNothing
  <2>1. TypeOK' /\ Phases' /\ Passed' /\ Running' /\ Underway'
    BY <1>1, <1>3
    DEF SearchInv, TypeOK, Phases, Passed, Running, Underway, EndsWithNothing, Ends,
        AllOff
  <2>2. SeveralTermsComplete'
    <3>1. SUFFICES ASSUME calm, IndicesHeld(terms) PROVE Intersection(terms) = {}
      BY <1>1 DEF SeveralTermsComplete, Complete, IndicesHeld, Trusted
    <3>2. \A t \in terms : stage[t] \in {"find", "in"}
      BY <1>1, <3>1 DEF SearchInv, Underway
    <3> QED
      BY <1>3, <3>2 DEF At
  <2> QED
    BY <1>2, <2>1, <2>2 DEF SearchInv, ListedUnderAll, TrustedResults, WholeOrNothing
<1>4. CASE /\ pc' = "pointers"
           /\ stage' = Started(Intersection(terms), "meta")
  <2>1. stage' \in [Ids -> {"meta", "off"}]
        /\ \A id \in Ids : stage'[id] = IF id \in Intersection(terms) THEN "meta" ELSE "off"
    BY <1>4, StartedType
  <2>2. TypeOK' /\ Phases' /\ Passed'
    BY <1>1, <1>4, <2>1 DEF SearchInv, TypeOK, Phases, Passed
  <2>3. Running' /\ Underway'
    BY <1>1, <1>4, <2>1, IntersectionListed DEF Running, Resolving, Underway
  <2> QED
    BY <1>2, <1>4, <2>2, <2>3
    DEF SearchInv, ListedUnderAll, TrustedResults, WholeOrNothing, SeveralTermsComplete
<1> QED
  BY <1>3, <1>4 DEF TermsJoin

\* The chunks an index lists, or several indices do.
LEMMA PointerStep ==
  ASSUME SearchAssumption, SearchInv, NEW id \in Ids,
         PointerMeta(id) \/ PointerFind(id) \/ PointerCheck(id)
  PROVE  SearchInv'
<1> USE DEF chunks, ratings, query
<1>1. /\ TypeOK /\ pc = "pointers"
      /\ target \in Keywords \/ target = NoTarget
      /\ id \in Resolving /\ stage[id] # "off"
      /\ UNCHANGED <<chunks, ratings, query, pc>>
  BY DEF SearchInv, Phases, Running, TypeOK, PointerMeta, PointerFind, PointerCheck, At
<1>2. /\ Resolving' = Resolving /\ Intersection(terms)' = Intersection(terms)
      /\ \A i : (WasTrusted(i) => WasTrusted(i)') /\ (Trusted(i)' => Trusted(i))
  BY <1>1 DEF Resolving, WasTrusted, Trusted, Intersection
<1>3. Phases' /\ Passed' /\ SeveralTermsComplete'
  BY <1>1 DEF SearchInv, Phases, Passed, SeveralTermsComplete
<1>4. PICK g \in {"find", "in", "out", "modified", "staged", "committed", "index"} :
        Goes(id, g)
  BY <1>1, FoundHere
  DEF TypeOK, PointerMeta, PointerFind, PointerCheck, Outcome
<1>5. \A i \in Ids : stage'[i] = IF i = id THEN g ELSE stage[i]
  BY <1>1, <1>4 DEF TypeOK, Goes
<1>6. \/ results' = results
      \/ Trusted(id) /\ results' = results \cup {Result(id, stage[id])}
  BY DEF PointerMeta, PointerFind, PointerCheck
<1>7. /\ Answers \subseteq Answers' /\ Answers' \subseteq Answers \cup {id}
      /\ id \in Answers' => Trusted(id) \/ id \in Answers
  BY <1>6 DEF Answers, Result
<1>8. TypeOK' /\ Running'
  <2>1. \A r \in results' : r.id \in Ids
    BY <1>1, <1>6 DEF TypeOK, Result
  <2>2. stage' \in [Ids -> {"off", "find", "meta", "check", "in", "out",
                            "modified", "staged", "committed", "index"}]
    BY <1>1, <1>4 DEF TypeOK, Goes
  <2>3. TypeOK'
    BY <1>1, <2>1, <2>2 DEF TypeOK
  <2> QED
    BY <1>1, <1>2, <1>5, <2>3 DEF SearchInv, Running
<1>9. ListedUnderAll'
  BY <1>1, <1>2, <1>7, IntersectionListed DEF SearchInv, ListedUnderAll, Resolving
<1>10. TrustedResults'
  BY <1>2, <1>7, TrustedWas DEF SearchInv, TrustedResults
<1>11. WholeOrNothing'
  <2>1. target \notin Manifests
    BY <1>1 DEF SearchAssumption
  <2> QED
    BY <1>1, <2>1 DEF WholeOrNothing
<1>12. Underway'
  <2>1. SUFFICES ASSUME calm, target = NoTarget, IndicesHeld(terms),
                        NEW p \in Intersection(terms), local[p] = "committed",
                        p \notin Rejected, Trusted(p)
                 PROVE  stage'[p] \in {"meta", "find", "committed"} \/ p \in Answers'
    BY <1>1, <1>2 DEF Underway, IndicesHeld, Trusted
  <2>2. p \in Ids /\ (stage[p] \in {"meta", "find", "committed"} \/ p \in Answers)
    BY <1>1, <2>1, IntersectionListed DEF SearchInv, Underway
  <2>3. CASE p # id \/ p \in Answers
    BY <1>5, <1>7, <2>2, <2>3
  <2>4. CASE p = id /\ p \notin Answers
    <3>1. CASE PointerMeta(id)
      BY <1>1, <1>5, <2>1, <2>4, <3>1
      DEF PointerMeta, Goes, Considered, PassesFilter, TypeOK
    <3>2. CASE PointerFind(id)
      BY <1>1, <1>5, <2>1, <2>4, <3>2, FoundHere DEF PointerFind, Goes, TypeOK
    <3>3. CASE PointerCheck(id)
      <4>1. Result(id, stage[id]) \in results'
        BY <2>1, <2>4, <3>3 DEF PointerCheck
      <4>2. Result(id, stage[id]).id = id
        BY DEF Result
      <4> QED
        BY <2>4, <4>1, <4>2 DEF Answers
    <3> QED
      BY <3>1, <3>2, <3>3
  <2> QED
    BY <2>3, <2>4
<1> QED
  BY <1>3, <1>8, <1>9, <1>10, <1>11, <1>12 DEF SearchInv

\* When their goroutines have ended, every chunk owed is among the results.
LEMMA PointersJoinStep ==
  ASSUME SearchAssumption, SearchInv, PointersJoin
  PROVE  SearchInv'
<1> USE DEF chunks, ratings, query
<1>1. /\ TypeOK /\ pc = "pointers" /\ Ends /\ results' = results
      /\ UNCHANGED <<chunks, ratings, query>>
  BY DEF SearchInv, PointersJoin, EndsWithNothing
<1>2. /\ Answers' = Answers
      /\ \A i : (WasTrusted(i) => WasTrusted(i)') /\ (Held(i) => Held(i)')
  BY <1>1 DEF Answers, WasTrusted, Held
<1>3. TypeOK' /\ Phases' /\ Passed' /\ Running' /\ Underway'
  BY <1>1 DEF SearchInv, TypeOK, Phases, Passed, Running, Underway, Ends, AllOff
<1>4. ListedUnderAll' /\ TrustedResults' /\ WholeOrNothing'
  BY <1>1, <1>2 DEF SearchInv, ListedUnderAll, TrustedResults, WholeOrNothing
<1>5. SeveralTermsComplete'
  <2>1. SUFFICES ASSUME calm, terms # {}, IndicesHeld(terms),
                        NEW p \in Intersection(terms), local[p] = "committed",
                        p \notin Rejected, Trusted(p)
                 PROVE  p \in Answers
    BY <1>1, <1>2 DEF SeveralTermsComplete, Complete, IndicesHeld, Trusted, Intersection
  <2>2. target = NoTarget
    BY <1>1, <2>1 DEF TypeOK
  <2>3. stage[p] \in {"in", "out"}
    BY <2>1, <2>2 DEF PointersJoin, AllEnded, Resolving
  <2> QED
    BY <1>1, <2>1, <2>2, <2>3 DEF SearchInv, Underway
<1> QED
  BY <1>3, <1>4, <1>5 DEF SearchInv

LEMMA SearchStep ==
  ASSUME SearchAssumption, SearchInv, [Next]_vars
  PROVE  SearchInv'
<1> USE DEF chunks, query
<1>1. TypeOK
  BY DEF SearchInv
<1>2. CASE \E id \in Ids, s \in {"modified", "committed", "index"} : Store(id, s)
  <2>1. PICK id \in Ids, s \in {"modified", "committed", "index"} : Store(id, s)
    BY <1>2
  <2>2. TypeOK'
    BY <1>1, <2>1 DEF TypeOK, Store
  <2>3. \A a \in Authors : best[a] <= best'[a] /\ score'[a] <= best'[a]
    BY <1>1, <2>1 DEF SearchInv, Passed, TypeOK, Store
  <2> QED
    BY <2>1, <2>2, <2>3, MeanwhileStep DEF Store
<1>3. CASE \E id \in Ids : Expire(id)
  <2>1. PICK id \in Ids : Expire(id)
    BY <1>3
  <2>2. TypeOK'
    BY <1>1, <2>1 DEF TypeOK, Expire
  <2>3. \A a \in Authors : best[a] <= best'[a] /\ score'[a] <= best'[a]
    BY <1>1, <2>1 DEF SearchInv, Passed, TypeOK, Expire
  <2> QED
    BY <2>1, <2>2, <2>3, MeanwhileStep DEF Expire
<1>4. CASE \E a \in Authors, total \in Scores : RateAuthor(a, total)
  <2>1. PICK a \in Authors, total \in Scores : RateAuthor(a, total)
    BY <1>4
  <2>2. total \in Int
    BY DEF SearchAssumption
  <2>3. TypeOK'
    BY <1>1, <2>1, <2>2 DEF TypeOK, RateAuthor, Better
  <2>4. \A b \in Authors : best[b] <= best'[b] /\ score'[b] <= best'[b]
    BY <1>1, <2>1, <2>2 DEF SearchInv, Passed, TypeOK, RateAuthor, Better
  <2> QED
    BY <2>1, <2>3, <2>4, MeanwhileStep DEF RateAuthor
<1>5. CASE UNCHANGED vars
  BY <1>5
  DEF vars, SearchInv, TypeOK, Phases, Passed, Running, Resolving, Underway,
      ListedUnderAll, TrustedResults, WholeOrNothing, SeveralTermsComplete, Complete,
      IndicesHeld, Trusted, WasTrusted, Held, Answers, AllOff, Intersection
<1> QED
  BY <1>2, <1>3, <1>4, <1>5, BeginStep, ExactStep, SegmentStep, SegmentsJoinStep,
     TermStep, TermsJoinStep, PointerStep, PointersJoinStep
  DEF Next, Main, Goroutine

LEMMA SearchInvariant == Spec => []SearchInv
<1>1. Init => SearchInv
  BY SearchInit, SearchAssumption
<1>2. SearchInv /\ [Next]_vars => SearchInv'
  BY SearchStep, SearchAssumption
<1> QED
  BY <1>1, <1>2, PTL DEF Spec

-----------------------------------------------------------------------------
(* Theorems *)

\* The variables of Engine.Search keep their types: among others a search is
\* of one kind, and leaves no goroutine behind.
THEOREM TypeCorrect == Spec => []TypeOK
<1>1. SearchInv => TypeOK
  BY DEF SearchInv
<1> QED
  BY <1>1, SearchInvariant, PTL

\* performMultiTermSearch answers with nothing that one of the terms does not
\* list.
THEOREM OnlyListed == Spec => []ListedUnderAll
<1>1. SearchInv => ListedUnderAll
  BY DEF SearchInv
<1> QED
  BY <1>1, SearchInvariant, PTL

\* However ratings interleave with a search, no result is by an author who was
\* below MinReputation all the time.
THEOREM OnlyTrusted == Spec => []TrustedResults
<1>1. SearchInv => TrustedResults
  BY DEF SearchInv
<1> QED
  BY <1>1, SearchInvariant, PTL

\* resolveManifest answers with a content only if all its segments were found,
\* accepted and trusted.
THEOREM ContentsWhole == Spec => []WholeOrNothing
<1>1. SearchInv => WholeOrNothing
  BY DEF SearchInv
<1> QED
  BY <1>1, SearchInvariant, PTL

\* A search for several terms that nothing disturbs finds all that the indices
\* held here list and this node holds committed.
THEOREM SearchComplete == Spec => []SeveralTermsComplete
<1>1. SearchInv => SeveralTermsComplete
  BY DEF SearchInv
<1> QED
  BY <1>1, SearchInvariant, PTL

=============================================================================

------------------------------ MODULE LookupNode ------------------------------
(***************************************************************************)
(* Router.LookupNode (src/internal/dht/commands.go): rounds of up to Alpha  *)
(* parallel FIND_NODE queries, each of which ends with an answer or with a  *)
(* timeout of Transport.Request.  Peers answer with any contacts they like. *)
(***************************************************************************)
EXTENDS Shortlist

CONSTANTS
  Alpha,     \* the parallelism of a round (3)
  MaxReply   \* the most contacts an answer carries (20, the peer's K)

ASSUME LookupAssumption ==
  Alpha \in Nat \ {0} /\ MaxReply \in Nat

VARIABLES
  shortlist,
  inflight,  \* the goroutines of the round, by the contact they query
  pc,        \* "loop", "wait" (wg.Wait) or "done"
  result,    \* what LookupNode returned
  known,     \* history: every contact heard of
  asked      \* history: every contact queried

vars == <<shortlist, inflight, pc, result, known, asked>>

\* FindClosestContacts(target, K) of the routing table; LookupNode returns
\* an error when it is empty.
InitialContacts ==
  {S \in SUBSET Contacts : S # {} /\ Cardinality(S) <= K}

Init ==
  \E initial \in InitialContacts :
    /\ shortlist = NewShortlist(initial)
    /\ inflight = {}
    /\ pc = "loop"
    /\ result = {}
    /\ known = initial
    /\ asked = {}

\* The contacts the next round queries.
Next2Query == NextToQuery(shortlist, Alpha)

StartRound ==
  /\ pc = "loop"
  /\ Next2Query # {}
  /\ shortlist' = MarkQuerying(shortlist, Alpha)
  /\ inflight' = Next2Query
  /\ asked' = asked \cup Next2Query
  /\ pc' = "wait"
  /\ UNCHANGED <<result, known>>

\* mutant: the lookup stops as soon as the closest contact has answered
FinishEarly ==
  /\ pc = "loop"
  /\ NClosest(DOMAIN shortlist, 1) \subseteq GetClosest(shortlist)
  /\ result' = GetClosest(shortlist)
  /\ pc' = "done"
  /\ UNCHANGED <<shortlist, inflight, known, asked>>

\* The sleep of line 466 changes nothing and is a stutter.
Finish ==
  /\ pc = "loop"
  /\ Next2Query = {}
  /\ IsFinished(shortlist)
  /\ result' = GetClosest(shortlist)
  /\ pc' = "done"
  /\ UNCHANGED <<shortlist, inflight, known, asked>>

Replies == {S \in SUBSET Contacts : Cardinality(S) <= MaxReply}

Answer(c, S) ==
  /\ c \in inflight
  /\ shortlist' = MarkResponded(shortlist, c, S)
  /\ inflight' = inflight \ {c}
  /\ known' = known \cup S
  /\ UNCHANGED <<pc, result, asked>>

\* The request times out, or the answer cannot be parsed.
Fail(c) ==
  /\ c \in inflight
  /\ shortlist' = MarkFailed(shortlist, c)
  /\ inflight' = inflight \ {c}
  /\ UNCHANGED <<pc, result, known, asked>>

EndRound ==
  /\ pc = "wait"
  /\ inflight = {}
  /\ pc' = "loop"
  /\ UNCHANGED <<shortlist, inflight, result, known, asked>>

Query(c) == Fail(c) \/ \E S \in Replies : Answer(c, S)
Main == StartRound \/ Finish \/ EndRound

Next == Main \/ \E c \in Contacts : Query(c)

\* The loop runs on, and Request always returns: with an answer or, after
\* one second, without.
Spec == Init /\ [][Next]_vars
FairSpec == Spec /\ WF_vars(Main) /\ \A c \in Contacts : WF_vars(Query(c))

-----------------------------------------------------------------------------
(* Properties *)

\* Every variable has its type.
TypeOK ==
  /\ shortlist \in Shortlists
  /\ inflight \subseteq Contacts
  /\ pc \in {"loop", "wait", "done"}
  /\ result \subseteq Contacts
  /\ known \subseteq Contacts
  /\ asked \subseteq Contacts

\* However answers and timeouts interleave, the list holds exactly the K
\* closest of all the contacts heard of: truncating after every answer
\* never drops one that belongs there.
HoldsClosest == DOMAIN shortlist = NClosest(known, K)

\* No node is queried twice by one lookup, not even one that was truncated
\* from the list, or failed, and is then recommended again by a peer.
AskedOnce == \A c \in WithStatus(shortlist, "new") : c \notin asked

\* Between rounds no entry is still "querying": the loop never sleeps on
\* queries that nobody is running.
NoStrayQuery ==
  \A c \in WithStatus(shortlist, "querying") : c \in inflight

\* A finished lookup has asked every one of the K closest contacts it heard
\* of, and returns those among them that answered.
ResultComplete ==
  pc = "done" =>
    /\ result \subseteq NClosest(known, K)
    /\ NClosest(known, K) \subseteq asked
    /\ \A c \in NClosest(known, K) \ result : shortlist[c] = "failed"

\* What these need to be inductive: the contacts queried were heard of, every
\* entry that is not new was queried, and queries run only within a round.
Bookkeeping ==
  /\ asked \subseteq known
  /\ \A c \in DOMAIN shortlist : shortlist[c] # "new" => c \in asked
  /\ inflight \subseteq asked
  /\ pc # "wait" => inflight = {}

LookupInv ==
  HoldsClosest /\ AskedOnce /\ NoStrayQuery /\ ResultComplete /\ Bookkeeping

\* Every lookup ends, whatever the peers recommend.
Termination == <>(pc = "done")

\* A claim that does not hold (see README.md).
\* commands.go:449: LookupNode "returns the closest contacts found in the
\* network": once a node has answered, the lookup returns some node.
AnswerCounts == (GetClosest(shortlist) # {}) ~> (result # {})
=============================================================================

------------------------------- MODULE FindValue -------------------------------
(***************************************************************************)
(* The network half of Router.FindValue (src/internal/dht/commands.go): the *)
(* rounds of LookupNode with FIND_VALUE queries, the goroutines that hand   *)
(* the first value over on a channel, and the select that waits for either  *)
(* a value or the end of the round.                                         *)
(***************************************************************************)
EXTENDS Shortlist

CONSTANTS
  Alpha, MaxReply,
  Holders    \* the nodes whose answer carries the value

\* Assumed of the constants where the module is instantiated.
FindAssumption ==
  Alpha \in Nat \ {0} /\ MaxReply \in Nat /\ Holders \subseteq Contacts

VARIABLES
  shortlist,
  inflight,  \* goroutines that wait for their answer
  sending,   \* goroutines at "resChan <- value", inside once.Do
  once,      \* once.Do has been entered
  resChan,   \* resChan (capacity 1) holds a value
  pc,        \* "loop", "wait" (the select) or "done"
  found,     \* FindValue returned (value, true)
  known      \* history: every contact heard of

vars == <<shortlist, inflight, sending, once, resChan, pc, found, known>>

InitialContacts ==
  {S \in SUBSET Contacts : S # {} /\ Cardinality(S) <= K}

Init ==
  \E initial \in InitialContacts :
    /\ shortlist = NewShortlist(initial)
    /\ inflight = {} /\ sending = {}
    /\ once = FALSE /\ resChan = FALSE
    /\ pc = "loop" /\ found = FALSE
    /\ known = initial

Next2Query == NextToQuery(shortlist, Alpha)

StartRound ==
  /\ pc = "loop"
  /\ Next2Query # {}
  /\ shortlist' = MarkQuerying(shortlist, Alpha)
  /\ inflight' = Next2Query
  /\ pc' = "wait"
  /\ UNCHANGED <<sending, once, resChan, found, known>>

\* The sleep of line 379 is a stutter, and may be one forever.
NotFound ==
  /\ pc = "loop"
  /\ Next2Query = {}
  /\ IsFinished(shortlist)
  /\ pc' = "done"
  /\ UNCHANGED <<shortlist, inflight, sending, once, resChan, found, known>>

\* The select: either case may be taken when both are ready.
TakeValue ==
  /\ pc = "wait"
  /\ resChan
  /\ resChan' = FALSE
  /\ found' = TRUE
  /\ pc' = "done"
  /\ UNCHANGED <<shortlist, inflight, sending, once, known>>

RoundFinished == inflight \cup sending = {}

EndRound ==
  /\ pc = "wait"
  /\ RoundFinished
  /\ pc' = "loop"
  /\ UNCHANGED <<shortlist, inflight, sending, once, resChan, found, known>>

HasNoValue(c) == FALSE   \* mutant: the value of an answer is not looked at

HasValue(c) == c \in Holders

AlwaysSend == TRUE   \* mutant: no once.Do

\* once.Do: only the first goroutine with a value gets to send it.
MaySend == ~once

\* An answer with a value ends the goroutine; its entry stays "querying".
AnswerValue(c) ==
  /\ c \in inflight
  /\ HasValue(c)
  /\ inflight' = inflight \ {c}
  /\ sending' = IF MaySend THEN sending \cup {c} ELSE sending
  /\ once' = TRUE
  /\ UNCHANGED <<shortlist, resChan, pc, found, known>>

SendValue(c) ==
  /\ c \in sending
  /\ ~resChan
  /\ resChan' = TRUE
  /\ sending' = sending \ {c}
  /\ UNCHANGED <<shortlist, inflight, once, pc, found, known>>

Replies == {S \in SUBSET Contacts : Cardinality(S) <= MaxReply}

AnswerContacts(c, S) ==
  /\ c \in inflight
  /\ ~HasValue(c)
  /\ shortlist' = MarkResponded(shortlist, c, S)
  /\ inflight' = inflight \ {c}
  /\ known' = known \cup S
  /\ UNCHANGED <<sending, once, resChan, pc, found>>

Fail(c) ==
  /\ c \in inflight
  /\ shortlist' = MarkFailed(shortlist, c)
  /\ inflight' = inflight \ {c}
  /\ UNCHANGED <<sending, once, resChan, pc, found, known>>

Query(c) ==
  AnswerValue(c) \/ SendValue(c) \/ Fail(c)
    \/ \E S \in Replies : AnswerContacts(c, S)
Main == StartRound \/ NotFound \/ TakeValue \/ EndRound

Next == Main \/ \E c \in Contacts : Query(c)

\* As in LookupNode: the loop runs on and every request returns.
Spec == Init /\ [][Next]_vars
FairSpec == Spec /\ WF_vars(Main) /\ \A c \in Contacts : WF_vars(Query(c))

-----------------------------------------------------------------------------
(* Properties *)

\* Every variable has its type.
TypeOK ==
  /\ shortlist \in Shortlists
  /\ inflight \subseteq Contacts /\ sending \subseteq Holders
  /\ once \in BOOLEAN /\ resChan \in BOOLEAN /\ found \in BOOLEAN
  /\ pc \in {"loop", "wait", "done"}
  /\ known \subseteq Contacts

\* A search that reports "not found" though no value ever arrived has asked
\* the K closest nodes it heard of, and no holder among them answered.
NotFoundIsHonest ==
  pc = "done" /\ ~found /\ ~once =>
    \A c \in NClosest(known, K) :
      \/ shortlist[c] = "failed"
      \/ shortlist[c] = "responded" /\ c \notin Holders

\* What it needs to be inductive, besides that the list holds the K closest
\* heard of: until a value arrives every entry that is being queried has its
\* goroutine, a value can only come from a goroutine that entered once.Do, and
\* nobody marked as having answered holds the value.
FindInv ==
  /\ TypeOK
  /\ DOMAIN shortlist = NClosest(known, K)
  /\ \A c \in WithStatus(shortlist, "responded") : c \notin Holders
  /\ resChan \/ found \/ sending # {} => once
  /\ pc = "loop" => inflight = {}
  /\ ~once => /\ WithStatus(shortlist, "querying") \subseteq inflight
              /\ pc = "done" => inflight = {}
  /\ NotFoundIsHonest

\* No query goroutine is left behind, even when several nodes answer with
\* the value and FindValue has returned meanwhile.
QueriesEnd == (inflight \cup sending # {}) ~> RoundFinished

\* As long as nobody delivers the value, the search ends.
EndsWithoutValue == <>(pc = "done" \/ once)

\* commands.go:353: "FindValue performs a lookup for the given key": the call
\* returns.
FindValueReturns == <>(pc = "done")
=============================================================================

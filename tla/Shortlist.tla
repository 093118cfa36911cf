------------------------------ MODULE Shortlist ------------------------------
(***************************************************************************)
(* The shortlist of an iterative lookup (src/internal/dht/shortlist.go).    *)
(* XOR with the target is a bijection on identifiers, so a contact is named *)
(* by its distance to the target, a natural number; the sorted slice of     *)
(* entries is then a function from the contacts it holds to their status.   *)
(***************************************************************************)
EXTENDS Integers, FiniteSets

CONSTANTS
  Contacts,  \* the nodes of the network, by distance to the target
  K          \* the length of the list (20)

ASSUME ShortlistAssumption ==
  /\ Contacts \subseteq Nat /\ IsFiniteSet(Contacts)
  /\ K \in Nat \ {0}

contactStatus == {"new", "querying", "responded", "failed"}

Shortlists == UNION {[S -> contactStatus] : S \in SUBSET Contacts}

Closer(S, c) == {d \in S : d < c}

\* The n contacts of S closest to the target (all of S when it has fewer).
NClosest(S, n) == {c \in S : Cardinality(Closer(S, c)) < n}

WithStatus(list, s) == {c \in DOMAIN list : list[c] = s}

\* mutant: a contact already present becomes new again
AddContactsAgain(list, S) ==
  [c \in DOMAIN list \cup S |-> IF c \in S THEN "new" ELSE list[c]]

\* addContact for every contact of S: one already present keeps its status.
AddContacts(list, S) ==
  [c \in DOMAIN list \cup S |-> IF c \in DOMAIN list THEN list[c] ELSE "new"]

NewShortlist(initial) == [c \in initial |-> "new"]

Mark(list, S, s) == [c \in DOMAIN list |-> IF c \in S THEN s ELSE list[c]]

\* GetNextToQuery returns the first alpha new contacts and marks them.
NextToQuery(list, alpha) == NClosest(WithStatus(list, "new"), alpha)
MarkQuerying(list, alpha) == Mark(list, NextToQuery(list, alpha), "querying")

\* mutant: one entry too many is kept
TruncateLate(list) == [c \in NClosest(DOMAIN list, K + 1) |-> list[c]]

Truncate(list) == [c \in NClosest(DOMAIN list, K) |-> list[c]]

\* A contact that was truncated meanwhile is not put back.
MarkResponded(list, c, newContacts) ==
  Truncate(AddContacts(Mark(list, {c}, "responded"), newContacts))

IgnoreFailure(list, c) == list                 \* mutant: errors are not recorded
MarkTimedOut(list, c) == Mark(list, {c}, "timeout")   \* mutant: unknown status
MarkFailed(list, c) == Mark(list, {c}, "failed")

IsFinished(list) ==
  WithStatus(list, "new") = {} /\ WithStatus(list, "querying") = {}

GetClosest(list) == WithStatus(list, "responded")
=============================================================================

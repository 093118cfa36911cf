-------------------------------- MODULE Telemetry --------------------------------
(***************************************************************************)
(* The events a node streams to its dashboards                              *)
(* (src/internal/dht/telemetry.go). Any goroutine emits: it takes t.mu,     *)
(* counts the keyword under Engine.hotKeywordsMu if the event is a          *)
(* KeywordSeen, and offers the event to the channel of every client without *)
(* waiting. The topology worker reads the same counts before it emits. A    *)
(* client is an HTTP handler that registers its channel, writes what it     *)
(* takes from it to its connection, and removes it when the connection is   *)
(* gone. (The line on standard error is written in a goroutine of its own.) *)
(***************************************************************************)
EXTENDS Integers, Sequences, SequencesExt

CONSTANTS
  Emitters,   \* goroutines that emit
  Clients,    \* connections to /events
  Capacity,   \* of a client's channel (16)
  Free,       \* nobody holds the mutex
  NoEvent

ASSUME TelemetryAssumption ==
  /\ Capacity \in Nat \ {0}
  /\ Free \notin Emitters

VARIABLES
  mu,       \* the emitter that holds t.mu
  hotMu,    \* the one that holds hotKeywordsMu from one step to another
  doing,    \* of an emitter: "idle", or waiting for a mutex: "counts", "lock",
            \* "track"; or "send"
  event,    \* what it emits
  unsent,   \* the clients its loop has not come to
  clients,  \* t.clients
  chan,     \* their channels
  sse,      \* of a client: "away", "loop", "write", "stalled", "gone"
  connected,
  emitted,  \* history: all events, in the order they were broadcast
  seen,     \* history: what a client has taken from its channel
  dropped   \* history: what found its channel full

emitVars == <<mu, hotMu, doing, event, unsent, emitted>>
clientVars == <<clients, chan, sse, connected, seen, dropped>>
telVars == <<emitVars, clientVars>>

TelInit ==
  /\ mu = Free /\ hotMu = Free
  /\ doing = [e \in Emitters |-> "idle"]
  /\ event = [e \in Emitters |-> NoEvent]
  /\ unsent = [e \in Emitters |-> {}]
  /\ clients = {}
  /\ chan = [c \in Clients |-> <<>>]
  /\ sse = [c \in Clients |-> "away"]
  /\ connected = [c \in Clients |-> FALSE]
  /\ emitted = <<>>
  /\ seen = [c \in Clients |-> <<>>]
  /\ dropped = [c \in Clients |-> {}]

-----------------------------------------------------------------------------
(* Emitting: an event is a record with its type in the field `kind` *)

\* emitTopology reads the counts first.
BeginEmit(e, ev) ==
  /\ doing[e] = "idle"
  /\ event' = [event EXCEPT ![e] = ev]
  /\ doing' = [doing EXCEPT ![e] = IF ev.kind = "topology" THEN "counts" ELSE "lock"]
  /\ UNCHANGED <<mu, hotMu, unsent, emitted, clientVars>>

KeptCounts(e) == e   \* mutant: emitTopology emits under hotKeywordsMu
ReleasedCounts(e) == Free

\* GetHotKeywords: hotKeywordsMu is locked, and unlocked before the emission.
ReadCounts(e) ==
  /\ doing[e] = "counts" /\ hotMu = Free
  /\ hotMu' = ReleasedCounts(e)
  /\ doing' = [doing EXCEPT ![e] = "lock"]
  /\ UNCHANGED <<mu, event, unsent, emitted, clientVars>>

UnlockedEarly(e) == Free   \* mutant: the clients are copied under t.mu only
HolderWhileSending(e) == e

\* EmitWithPayload, from t.mu.Lock().
LockMu(e) ==
  /\ doing[e] = "lock" /\ mu = Free
  /\ mu' = HolderWhileSending(e)
  /\ doing' = [doing EXCEPT ![e] = IF event[e].kind = "keyword" THEN "track" ELSE "send"]
  /\ unsent' = [unsent EXCEPT ![e] = clients]
  /\ emitted' = Append(emitted, event[e])
  /\ UNCHANGED <<hotMu, event, clientVars>>

\* TrackKeyword, which needs hotKeywordsMu while t.mu is held.
Track(e) ==
  /\ doing[e] = "track" /\ hotMu = Free
  /\ doing' = [doing EXCEPT ![e] = "send"]
  /\ UNCHANGED <<mu, hotMu, event, unsent, emitted, clientVars>>

HasSpace(c) == Len(chan[c]) < Capacity

\* The select with its default case, for one client; the map gives them in
\* any order.
SendTo(e, c) ==
  /\ doing[e] = "send" /\ c \in unsent[e]
  /\ unsent' = [unsent EXCEPT ![e] = @ \ {c}]
  /\ IF HasSpace(c)
     THEN chan' = [chan EXCEPT ![c] = Append(@, event[e])] /\ UNCHANGED dropped
     ELSE dropped' = [dropped EXCEPT ![c] = @ \cup {event[e]}] /\ UNCHANGED chan
  /\ UNCHANGED <<mu, hotMu, doing, event, emitted, clients, sse, connected, seen>>

EndEmit(e) ==
  /\ doing[e] = "send" /\ unsent[e] = {}
  /\ mu' = IF mu = e THEN Free ELSE mu
  /\ hotMu' = IF hotMu = e THEN Free ELSE hotMu
  /\ doing' = [doing EXCEPT ![e] = "idle"]
  /\ event' = [event EXCEPT ![e] = NoEvent]
  /\ UNCHANGED <<unsent, emitted, clientVars>>

EmitStep(e) ==
  \/ ReadCounts(e) \/ LockMu(e) \/ Track(e)
  \/ \E c \in Clients : SendTo(e, c)
  \/ EndEmit(e)

-----------------------------------------------------------------------------
(* The handler of /events *)

Move(c, to) == sse' = [sse EXCEPT ![c] = to]

Connect(c) ==
  /\ sse[c] = "away" /\ mu = Free /\ Move(c, "loop")
  /\ connected' = [connected EXCEPT ![c] = TRUE]
  /\ clients' = clients \cup {c}
  /\ UNCHANGED <<emitVars, chan, seen, dropped>>

Disconnect(c) ==
  /\ connected[c]
  /\ connected' = [connected EXCEPT ![c] = FALSE]
  /\ UNCHANGED <<emitVars, clients, chan, sse, seen, dropped>>

TakeEvent(c) ==
  /\ sse[c] = "loop" /\ chan[c] # <<>> /\ Move(c, "write")
  /\ chan' = [chan EXCEPT ![c] = Tail(@)]
  /\ seen' = [seen EXCEPT ![c] = Append(@, Head(chan[c]))]
  /\ UNCHANGED <<emitVars, clients, connected, dropped>>

\* The connection takes the event, or takes none any more until it is gone.
WriteDone(c) ==
  /\ sse[c] = "write" \/ (sse[c] = "stalled" /\ ~connected[c])
  /\ Move(c, "loop")
  /\ UNCHANGED <<emitVars, clients, chan, connected, seen, dropped>>

Stall(c) ==
  /\ sse[c] = "write" /\ Move(c, "stalled")
  /\ UNCHANGED <<emitVars, clients, chan, connected, seen, dropped>>

\* The context of the request is done, and the deferred delete runs.
Leave(c) ==
  /\ sse[c] = "loop" /\ ~connected[c] /\ mu = Free /\ Move(c, "gone")
  /\ clients' = clients \ {c}
  /\ UNCHANGED <<emitVars, chan, connected, seen, dropped>>

ClientStep(c) == TakeEvent(c) \/ WriteDone(c) \/ Leave(c)

\* The process ends: the mutexes, the channels and the connections with it.
TelGone ==
  /\ mu' = Free /\ hotMu' = Free
  /\ doing' = [e \in Emitters |-> "idle"]
  /\ event' = [e \in Emitters |-> NoEvent]
  /\ unsent' = [e \in Emitters |-> {}]
  /\ clients' = {}
  /\ chan' = [c \in Clients |-> <<>>]
  /\ sse' = [c \in Clients |-> IF sse[c] = "away" THEN "away" ELSE "gone"]
  /\ connected' = [c \in Clients |-> FALSE]
  /\ emitted' = <<>>
  /\ seen' = [c \in Clients |-> <<>>] /\ dropped' = [c \in Clients |-> {}]

-----------------------------------------------------------------------------
(* Properties *)

TelTypeOK ==
  /\ {mu, hotMu} \subseteq Emitters \cup {Free}
  /\ doing \in [Emitters -> {"idle", "counts", "lock", "track", "send"}]
  /\ unsent \in [Emitters -> SUBSET Clients]
  /\ clients \subseteq Clients
  /\ sse \in [Clients -> {"away", "loop", "write", "stalled", "gone"}]
  /\ connected \in [Clients -> BOOLEAN]
  /\ \A c \in Clients : Len(chan[c]) <= Capacity

\* telemetry.go:102-114: whoever emits goes on, be it the read loop in the
\* middle of a packet: neither a client that reads nothing nor the topology
\* worker's use of the keyword counts holds it up.
EmitReturns ==
  \A e \in Emitters : doing[e] # "idle" ~> doing[e] = "idle"

\* What a client got of all there was: some of it, in the same order.
Follows(got, all) ==
  /\ ToSet(got) \subseteq ToSet(all)
  /\ \A i, j \in DOMAIN got : i < j =>
       \E k, l \in DOMAIN all : k < l /\ all[k] = got[i] /\ all[l] = got[j]

\* Every client sees the events in the order they were broadcast in, and none
\* twice if none is broadcast twice; it may miss some.
InOrder(c) == Follows(seen[c] \o chan[c], emitted)
===============================================================================

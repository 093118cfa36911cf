------------------------------- MODULE Transport -------------------------------
(***************************************************************************)
(* The RPC transport of one node (src/internal/dht/rpc.go): concurrent       *)
(* calls of Request, the read loop that routes every packet by transaction   *)
(* id, and Stop.  The network loses, delays, reorders and duplicates.  The   *)
(* mutex t.mu guards single steps, except in Stop, which keeps it while it   *)
(* waits for the read loop.                                                 *)
(***************************************************************************)
EXTENDS Integers, FiniteSets

CONSTANTS
  Reqs,       \* calls of Request
  Peers,
  Txs,        \* transaction ids
  To, Tx,     \* the peer and the transaction id of each call
  PeerTxs,    \* transaction ids peers use in requests of their own
  Duplicates, \* may the network deliver a packet twice?
  StopCalled, \* is Stop called?
  NoMsg, NoReq

ASSUME TransportAssumption ==
  /\ To \in [Reqs -> Peers] /\ Tx \in [Reqs -> Txs]
  /\ PeerTxs \subseteq Txs
  /\ Duplicates \in BOOLEAN /\ StopCalled \in BOOLEAN
  /\ NoReq \notin Reqs

Message == [from : Peers, tx : Txs, isResponse : BOOLEAN]

ASSUME NoMsgAssumption == NoMsg \notin Message

VARIABLES
  call,     \* where each call of Request is
  pending,  \* t.pending: the call whose channel waits for a transaction id
  chan,     \* the channel (capacity 1) of each call
  outcome,  \* the message a call returned, NoMsg for an error
  wire,     \* the calls whose message a peer may have received
  net,      \* packets on their way to this node
  loop,     \* the read loop: "read", "handle", "lookup", "deliver", "exited"
  msg,      \* the packet it processes
  target,   \* the call it found for it
  stop      \* Stop: "running", "waiting" (holding t.mu) or "stopped"

vars == <<call, pending, chan, outcome, wire, net, loop, msg, target, stop>>
requests == <<call, pending, chan, outcome, wire>>
reader == <<loop, msg, target>>

Init ==
  /\ call = [r \in Reqs |-> "new"]
  /\ pending = [t \in Txs |-> NoReq]
  /\ chan = [r \in Reqs |-> NoMsg]
  /\ outcome = [r \in Reqs |-> NoMsg]
  /\ wire = {} /\ net = {}
  /\ loop = "read" /\ msg = NoMsg /\ target = NoReq
  /\ stop = "running"

MutexFree == stop # "waiting"
Done == stop # "running"     \* t.done is closed, and so is t.conn

-----------------------------------------------------------------------------
(* Request *)

Register(r) ==
  /\ call[r] = "new" /\ MutexFree
  /\ pending' = [pending EXCEPT ![Tx[r]] = r]
  /\ call' = [call EXCEPT ![r] = "registered"]
  /\ UNCHANGED <<chan, outcome, wire, net, reader, stop>>

Send(r) ==
  /\ call[r] = "registered" /\ MutexFree
  /\ IF Done
     THEN call' = [call EXCEPT ![r] = "leaving"] /\ UNCHANGED wire
     ELSE /\ call' = [call EXCEPT ![r] = "waiting"]
          /\ wire' = wire \cup {r}
  /\ UNCHANGED <<pending, chan, outcome, net, reader, stop>>

\* The select of Request: an answer, the timeout, or t.done.
GotAnswer(r) ==
  /\ call[r] = "waiting" /\ chan[r] # NoMsg
  /\ outcome' = [outcome EXCEPT ![r] = chan[r]]
  /\ chan' = [chan EXCEPT ![r] = NoMsg]
  /\ call' = [call EXCEPT ![r] = "leaving"]
  /\ UNCHANGED <<pending, wire, net, reader, stop>>

\* mutant: a call without an answer waits until Stop
TimeoutOnStop(r) ==
  /\ call[r] = "waiting" /\ Done
  /\ call' = [call EXCEPT ![r] = "leaving"]
  /\ UNCHANGED <<pending, chan, outcome, wire, net, reader, stop>>

\* The timeout; t.done ends the wait in the same way.
Timeout(r) ==
  /\ call[r] = "waiting"
  /\ call' = [call EXCEPT ![r] = "leaving"]
  /\ UNCHANGED <<pending, chan, outcome, wire, net, reader, stop>>

\* mutant: only a call that fails removes its channel
UnregisteredOnError(r) ==
  IF outcome[r] = NoMsg THEN [pending EXCEPT ![Tx[r]] = NoReq] ELSE pending

Unregistered(r) == [pending EXCEPT ![Tx[r]] = NoReq]

\* The deferred delete, which takes whatever channel the id leads to.
Return(r) ==
  /\ call[r] = "leaving" /\ MutexFree
  /\ pending' = Unregistered(r)
  /\ call' = [call EXCEPT ![r] = "returned"]
  /\ UNCHANGED <<chan, outcome, wire, net, reader, stop>>

-----------------------------------------------------------------------------
(* The network and the peers.  Loss is a packet that is never read.         *)

Reply(r) ==
  /\ r \in wire
  /\ net' = net \cup {[from |-> To[r], tx |-> Tx[r], isResponse |-> TRUE]}
  /\ wire' = wire \ {r}
  /\ UNCHANGED <<call, pending, chan, outcome, reader, stop>>

PeerRequest(p, t) ==
  /\ net' = net \cup {[from |-> p, tx |-> t, isResponse |-> FALSE]}
  /\ UNCHANGED <<requests, reader, stop>>

-----------------------------------------------------------------------------
(* readLoop *)

ReadPacket(m) ==
  /\ loop = "read" /\ ~Done
  /\ m \in net
  /\ \/ net' = net \ {m}
     \/ Duplicates /\ net' = net
  /\ msg' = m
  /\ loop' = "handle"
  /\ UNCHANGED <<requests, target, stop>>

\* HandleMessage answers a request through Send, which takes t.mu.
Handle ==
  /\ loop = "handle"
  /\ msg.isResponse \/ MutexFree
  /\ loop' = "lookup"
  /\ UNCHANGED <<requests, net, msg, target, stop>>

\* mutant: a packet goes to any call that waits
AnyPending(m) ==
  IF \E t \in Txs : pending[t] # NoReq
  THEN pending[CHOOSE t \in Txs : pending[t] # NoReq] ELSE NoReq

PendingFor(m) == pending[m.tx]

\* mutant: the result of the lookup is used unchecked
LookupUnchecked ==
  /\ loop = "lookup" /\ MutexFree
  /\ loop' = "deliver" /\ target' = PendingFor(msg)
  /\ UNCHANGED <<requests, net, msg, stop>>

Lookup ==
  /\ loop = "lookup" /\ MutexFree
  /\ IF PendingFor(msg) = NoReq
     THEN loop' = "read" /\ msg' = NoMsg /\ UNCHANGED target
     ELSE loop' = "deliver" /\ target' = PendingFor(msg) /\ UNCHANGED msg
  /\ UNCHANGED <<requests, net, stop>>

HasRoom(r) == chan[r] = NoMsg

\* "ch <- msg" blocks while the channel is full.
Deliver ==
  /\ loop = "deliver" /\ HasRoom(target)
  /\ chan' = [chan EXCEPT ![target] = msg]
  /\ loop' = "read" /\ msg' = NoMsg /\ target' = NoReq
  /\ UNCHANGED <<call, pending, outcome, wire, net, stop>>

ExitLoop ==
  /\ loop = "read" /\ Done
  /\ loop' = "exited"
  /\ UNCHANGED <<requests, net, msg, target, stop>>

-----------------------------------------------------------------------------
(* Stop *)

StopBegin ==
  /\ StopCalled /\ stop = "running"
  /\ stop' = "waiting"
  /\ UNCHANGED <<requests, net, reader>>

StopEnd ==
  /\ stop = "waiting" /\ loop = "exited"
  /\ stop' = "stopped"
  /\ UNCHANGED <<requests, net, reader>>

Request(r) == Send(r) \/ GotAnswer(r) \/ Timeout(r) \/ Return(r)
ReadLoop == Handle \/ Lookup \/ Deliver \/ ExitLoop

Next ==
  \/ \E r \in Reqs : Register(r) \/ Request(r) \/ Reply(r)
  \/ \E p \in Peers, t \in PeerTxs : PeerRequest(p, t)
  \/ \E m \in net : ReadPacket(m)
  \/ ReadLoop
  \/ StopBegin \/ StopEnd

Spec == Init /\ [][Next]_vars

\* A call that was made runs on, and so does the read loop once it has a
\* packet; packets may be lost and peers silent.
FairSpec ==
  /\ Spec
  /\ \A r \in Reqs : WF_vars(Request(r))
  /\ WF_vars(ReadLoop) /\ WF_vars(StopEnd)

-----------------------------------------------------------------------------
(* Properties *)

\* Every variable has its type.
TypeOK ==
  /\ call \in [Reqs -> {"new", "registered", "waiting", "leaving", "returned"}]
  /\ pending \in [Txs -> Reqs \cup {NoReq}]
  /\ chan \in [Reqs -> Message \cup {NoMsg}]
  /\ outcome \in [Reqs -> Message \cup {NoMsg}]
  /\ wire \subseteq Reqs
  /\ net \subseteq Message
  /\ loop \in {"read", "handle", "lookup", "deliver", "exited"}
  /\ msg \in Message \cup {NoMsg}
  /\ loop \in {"handle", "lookup", "deliver"} => msg # NoMsg
  /\ target \in Reqs \cup {NoReq}
  /\ loop = "deliver" => target # NoReq
  /\ stop \in {"running", "waiting", "stopped"}

\* No channel outlives its call in t.pending, even when calls that share a
\* transaction id overwrite and delete each other's.
PendingIsActive ==
  \A t \in Txs :
    pending[t] # NoReq =>
      call[pending[t]] \in {"registered", "waiting", "leaving"}

\* Its inductive form: a channel is found only under its call's own id, so
\* that the deferred delete of that id removes it.
PendingInv ==
  /\ PendingIsActive
  /\ \A t \in Txs : pending[t] # NoReq => Tx[pending[t]] = t

\* No other call and no request of a peer bears the transaction id of r.
Unshared(r) ==
  Tx[r] \notin PeerTxs /\ \A s \in Reqs : Tx[s] = Tx[r] => s = r

Answers(m, r) == Unshared(r) => m.isResponse /\ m.from = To[r]

\* A call with an id of its own that returns a message returns an answer,
\* from the peer it asked, whatever is late, duplicated, or unsolicited, and
\* whatever ids the other calls share.
AnswerFromPeer ==
  \A r \in Reqs : outcome[r] # NoMsg => Answers(outcome[r], r)

\* What AnswerFromPeer needs to be inductive: every packet, wherever it is,
\* belongs to a call made or to a peer's request, and every channel is found
\* only under the transaction id of its call.
Genuine(m) ==
  IF m.isResponse THEN \E r \in Reqs : m.from = To[r] /\ m.tx = Tx[r]
                  ELSE m.tx \in PeerTxs

AnswerInv ==
  /\ AnswerFromPeer
  /\ \A m \in net : Genuine(m)
  /\ msg # NoMsg => Genuine(msg)
  /\ \A t \in Txs : pending[t] # NoReq => Tx[pending[t]] = t
  /\ loop = "deliver" => Tx[target] = msg.tx
  /\ \A r \in Reqs : chan[r] # NoMsg => Answers(chan[r], r)

\* Every call of Request returns, by its timeout at the latest, even when
\* the read loop is stuck; only a Stop may hold it up, with the mutex.
RequestsReturn ==
  \A r \in Reqs :
    (call[r] = "registered") ~> (call[r] = "returned" \/ stop # "running")

\* rpc.go:187: Stop "waits for the read loop to exit", which happens.
StopReturns == (stop = "waiting") ~> (stop = "stopped")

-----------------------------------------------------------------------------
(* More that the sources say, and the transport does not do (see README.md) *)

\* rpc.go:137: "readLoop listens for incoming UDP packets": it always comes
\* back for the next one, and never waits for a caller that has given up.
LoopKeepsReading == (loop = "handle") ~> (loop = "read")

\* rpc.go:174: "Check if this is a response to a pending request": what is
\* delivered to a call is a response.
OnlyResponses ==
  \A r \in Reqs : outcome[r] # NoMsg => outcome[r].isResponse

\* rpc.go:109: Request "waits for a response", also when ids are shared.
ResponseFromPeer ==
  \A r \in Reqs : outcome[r] # NoMsg => outcome[r].from = To[r]
=============================================================================

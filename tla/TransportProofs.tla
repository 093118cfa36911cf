---------------------------- MODULE TransportProofs ----------------------------
(***************************************************************************)
(* With distinct transaction ids, a call of Request that returns a message  *)
(* returns the answer of the peer it asked: for any number of calls, peers  *)
(* and packets, and whatever Stop does.  The ids of the code are not        *)
(* distinct; the hypothesis says what the transport relies on.              *)
(***************************************************************************)
EXTENDS Transport, TLAPS

\* Packets are messages of their type.
LEMMA PacketType ==
  /\ \A r \in Reqs :
       [from |-> To[r], tx |-> Tx[r], isResponse |-> TRUE] \in Message
  /\ \A p \in Peers, t \in PeerTxs :
       [from |-> p, tx |-> t, isResponse |-> FALSE] \in Message
BY TransportAssumption DEF Message

\* Every variable keeps its type.
THEOREM TypeCorrect == Spec => []TypeOK
<1>1. Init => TypeOK
  BY DEF Init, TypeOK
<1>2. TypeOK /\ [Next]_vars => TypeOK'
  <2> SUFFICES ASSUME TypeOK, [Next]_vars PROVE TypeOK'
    OBVIOUS
  <2> USE DEF requests, reader
  <2>1. ASSUME NEW r \in Reqs, Register(r) PROVE TypeOK'
    BY <2>1 DEF Register, TypeOK
  <2>2. ASSUME NEW r \in Reqs, Send(r) PROVE TypeOK'
    BY <2>2 DEF Send, TypeOK
  <2>3. ASSUME NEW r \in Reqs, GotAnswer(r) PROVE TypeOK'
    BY <2>3 DEF GotAnswer, TypeOK
  <2>4. ASSUME NEW r \in Reqs, Timeout(r) PROVE TypeOK'
    BY <2>4 DEF Timeout, TypeOK
  <2>5. ASSUME NEW r \in Reqs, Return(r) PROVE TypeOK'
    BY <2>5 DEF Return, Unregistered, TypeOK
  <2>6. ASSUME NEW r \in Reqs, Reply(r) PROVE TypeOK'
    BY <2>6, PacketType DEF Reply, TypeOK
  <2>7. ASSUME NEW p \in Peers, NEW t \in PeerTxs, PeerRequest(p, t)
        PROVE  TypeOK'
    BY <2>7, PacketType DEF PeerRequest, TypeOK
  <2>8. ASSUME NEW m \in net, ReadPacket(m) PROVE TypeOK'
    BY <2>8, NoMsgAssumption DEF ReadPacket, TypeOK
  <2>9. CASE Handle
    BY <2>9 DEF Handle, TypeOK
  <2>10. CASE Lookup
    <3>1. msg \in Message /\ msg.tx \in Txs
      BY <2>10, NoMsgAssumption DEF Lookup, TypeOK, Message
    <3>2. PendingFor(msg) \in Reqs \cup {NoReq}
      BY <3>1 DEF PendingFor, TypeOK
    <3> QED
      BY <2>10, <3>2 DEF Lookup, TypeOK
  <2>11. CASE Deliver
    <3>1. msg \in Message /\ target \in Reqs
      BY <2>11 DEF Deliver, TypeOK
    <3> QED
      BY <2>11, <3>1 DEF Deliver, TypeOK
  <2>12. CASE ExitLoop
    BY <2>12 DEF ExitLoop, TypeOK
  <2>13. CASE StopBegin \/ StopEnd
    BY <2>13 DEF StopBegin, StopEnd, TypeOK
  <2>14. CASE UNCHANGED vars
    BY <2>14 DEF vars, TypeOK
  <2> QED
    BY <2>1, <2>2, <2>3, <2>4, <2>5, <2>6, <2>7, <2>8, <2>9, <2>10, <2>11,
       <2>12, <2>13, <2>14 DEF Next, Request, ReadLoop
<1>3. QED
  BY <1>1, <1>2, PTL DEF Spec

\* Shared transaction ids or not, no channel stays in t.pending after its
\* call has returned.
THEOREM NoChannelLeaks == Spec => []PendingIsActive
<1>1. Init => PendingInv
  BY DEF Init, PendingInv, PendingIsActive
<1>2. TypeOK /\ PendingInv /\ [Next]_vars => PendingInv'
  <2> SUFFICES ASSUME TypeOK, PendingInv, [Next]_vars PROVE PendingInv'
    OBVIOUS
  <2> USE DEF PendingInv, PendingIsActive
  <2>1. ASSUME NEW r \in Reqs, Register(r) PROVE PendingInv'
    <3>1. \A t \in Txs : pending'[t] = IF t = Tx[r] THEN r ELSE pending[t]
      BY <2>1 DEF Register, TypeOK
    <3>2. \A s \in Reqs :
            call'[s] = IF s = r THEN "registered" ELSE call[s]
      BY <2>1 DEF Register, TypeOK
    <3> QED
      BY <3>1, <3>2 DEF TypeOK
  <2>2. ASSUME NEW r \in Reqs, Send(r) \/ GotAnswer(r) \/ Timeout(r)
        PROVE  PendingInv'
    <3>1. /\ pending' = pending
          /\ \A s \in Reqs : s # r => call'[s] = call[s]
          /\ call'[r] \in {"waiting", "leaving"}
      BY <2>2 DEF Send, GotAnswer, Timeout, TypeOK
    <3> QED
      BY <3>1 DEF TypeOK
  <2>3. ASSUME NEW r \in Reqs, Return(r) PROVE PendingInv'
    <3>1. \A t \in Txs : pending'[t] = IF t = Tx[r] THEN NoReq ELSE pending[t]
      BY <2>3 DEF Return, Unregistered, TypeOK
    <3>2. \A s \in Reqs : s # r => call'[s] = call[s]
      BY <2>3 DEF Return, TypeOK
    <3> QED
      BY <3>1, <3>2 DEF TypeOK
  <2>4. CASE UNCHANGED <<call, pending>>
    BY <2>4
  <2> QED
    BY <2>1, <2>2, <2>3, <2>4
    DEF Next, Request, ReadLoop, Reply, PeerRequest, ReadPacket, Handle,
        Lookup, Deliver, ExitLoop, StopBegin, StopEnd, requests, vars
<1>3. PendingInv => PendingIsActive
  BY DEF PendingInv
<1>4. QED
  BY <1>1, <1>2, <1>3, TypeCorrect, PTL DEF Spec

\* The answer a call returns is the answer of its peer.
THEOREM AnswersAreGenuine == Spec => []AnswerFromPeer
<1>1. Init => AnswerInv
  BY DEF Init, AnswerInv, AnswerFromPeer
<1>2. TypeOK /\ AnswerInv /\ [Next]_vars => AnswerInv'
  <2> SUFFICES ASSUME TypeOK, AnswerInv, [Next]_vars PROVE AnswerInv'
    OBVIOUS
  <2> USE DEF requests, reader
  <2>1. ASSUME NEW r \in Reqs, Register(r) PROVE AnswerInv'
    <3>1. \A t \in Txs : pending'[t] # NoReq => Tx[pending'[t]] = t
      BY <2>1 DEF Register, AnswerInv, TypeOK
    <3> QED
      BY <2>1, <3>1 DEF Register, AnswerInv, AnswerFromPeer
  <2>2. ASSUME NEW r \in Reqs, Send(r) \/ Timeout(r) PROVE AnswerInv'
    BY <2>2 DEF Send, Timeout, AnswerInv, AnswerFromPeer
  <2>3. ASSUME NEW r \in Reqs, GotAnswer(r) PROVE AnswerInv'
    <3>1. AnswerFromPeer'
      BY <2>3 DEF GotAnswer, AnswerInv, AnswerFromPeer, Answers, TypeOK
    <3>2. \A s \in Reqs : chan'[s] # NoMsg => Answers(chan'[s], s)
      BY <2>3 DEF GotAnswer, AnswerInv, TypeOK
    <3> QED
      BY <2>3, <3>1, <3>2 DEF GotAnswer, AnswerInv
  <2>4. ASSUME NEW r \in Reqs, Return(r) PROVE AnswerInv'
    <3>1. \A t \in Txs : pending'[t] # NoReq => Tx[pending'[t]] = t
      BY <2>4 DEF Return, Unregistered, AnswerInv, TypeOK
    <3> QED
      BY <2>4, <3>1 DEF Return, AnswerInv, AnswerFromPeer
  <2>5. ASSUME NEW r \in Reqs, Reply(r) PROVE AnswerInv'
    <3>1. \A m \in net' : Genuine(m)
      BY <2>5 DEF Reply, AnswerInv, Genuine
    <3> QED
      BY <2>5, <3>1 DEF Reply, AnswerInv, AnswerFromPeer
  <2>6. ASSUME NEW p \in Peers, NEW t \in PeerTxs, PeerRequest(p, t)
        PROVE  AnswerInv'
    <3>1. \A m \in net' : Genuine(m)
      BY <2>6 DEF PeerRequest, AnswerInv, Genuine
    <3> QED
      BY <2>6, <3>1 DEF PeerRequest, AnswerInv, AnswerFromPeer
  <2>7. ASSUME NEW m \in net, ReadPacket(m) PROVE AnswerInv'
    BY <2>7 DEF ReadPacket, AnswerInv, AnswerFromPeer
  <2>8. CASE Handle \/ ExitLoop
    BY <2>8 DEF Handle, ExitLoop, AnswerInv, AnswerFromPeer
  <2>9. CASE Lookup
    <3>1. msg \in Message /\ msg.tx \in Txs
      BY <2>9, NoMsgAssumption DEF Lookup, TypeOK, Message
    <3>2. loop' = "deliver" => Tx[target'] = msg'.tx
      BY <2>9, <3>1 DEF Lookup, PendingFor, AnswerInv
    <3>3. msg' # NoMsg => Genuine(msg')
      BY <2>9 DEF Lookup, AnswerInv
    <3> QED
      BY <2>9, <3>2, <3>3 DEF Lookup, AnswerInv, AnswerFromPeer
  <2>10. CASE Deliver
    <3>1. target \in Reqs /\ msg # NoMsg /\ Tx[target] = msg.tx
          /\ Genuine(msg)
      BY <2>10 DEF Deliver, AnswerInv, TypeOK
    <3>2. Answers(msg, target)
      <4> SUFFICES ASSUME Unshared(target)
                   PROVE  msg.isResponse /\ msg.from = To[target]
        BY DEF Answers
      <4>1. msg.isResponse
        BY <3>1 DEF Genuine, Unshared
      <4>2. PICK r \in Reqs : msg.from = To[r] /\ msg.tx = Tx[r]
        BY <3>1, <4>1 DEF Genuine
      <4>3. r = target
        BY <3>1, <4>2 DEF Unshared
      <4> QED
        BY <4>1, <4>2, <4>3
    <3>3. \A s \in Reqs : chan'[s] # NoMsg => Answers(chan'[s], s)
      BY <2>10, <3>1, <3>2 DEF Deliver, AnswerInv, TypeOK
    <3> QED
      BY <2>10, <3>3 DEF Deliver, AnswerInv, AnswerFromPeer
  <2>11. CASE StopBegin \/ StopEnd
    BY <2>11 DEF StopBegin, StopEnd, AnswerInv, AnswerFromPeer
  <2>12. CASE UNCHANGED vars
    BY <2>12 DEF vars, AnswerInv, AnswerFromPeer
  <2> QED
    BY <2>1, <2>2, <2>3, <2>4, <2>5, <2>6, <2>7, <2>8, <2>9, <2>10, <2>11,
       <2>12 DEF Next, Request, ReadLoop
<1>3. AnswerInv => AnswerFromPeer
  BY DEF AnswerInv
<1>4. QED
  BY <1>1, <1>2, <1>3, TypeCorrect, PTL DEF Spec
=============================================================================

SPECIFICATION FairSpec
CONSTANTS
  r1 = r1
  r2 = r2
  p1 = p1
  p2 = p2
  t1 = t1
  t2 = t2
  Reqs = {r1, r2}
  Peers = {p1, p2}
  Txs = {t1, t2}
  To <- MCTo
  Tx <- MCTx
  PeerTxs = {t1}
  Duplicates = TRUE
  StopCalled = TRUE
  NoMsg = NoMsg
  NoReq = NoReq
CHECK_DEADLOCK FALSE
INVARIANTS
  AnswerFromPeer
  
PROPERTY RequestsReturn

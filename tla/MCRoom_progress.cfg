SPECIFICATION FairSpec
CONSTANTS
  a1 = a1
  a2 = a2
  c1 = c1
  c2 = c2
  t1 = t1
  t2 = t2
  NoConn = NoConn
  NoTask = NoTask
  Actor = {a1}
  Conn = {c1}
  ActorOf <- OneTab
  InitialAcl <- OwnEdit
  MsgId <- Ids
  Mutation <- OneEdit
  Task = {t1}
  BatchMax = 2
  QueueMax = 1
  ControlMax = 1
  CompactEvery = 2
  ReceiptWindow = 5
  MaxEpoch = 2
  Revocable = {}
  Overlap = FALSE
PROPERTIES
  AnsweredOrClosed
  AbortedEnds
CHECK_DEADLOCK FALSE

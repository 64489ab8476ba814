SPECIFICATION Spec
CONSTANTS
  a1 = a1
  a2 = a2
  c1 = c1
  c2 = c2
  t1 = t1
  t2 = t2
  NoConn = NoConn
  NoTask = NoTask
  Actor = {a1, a2}
  Conn = {c1, c2}
  ActorOf <- TwoEditors
  InitialAcl <- AllEdit
  MsgId <- Ids
  Mutation <- Apart
  Task = {t1, t2}
  BatchMax = 1
  QueueMax = 1
  ControlMax = 1
  CompactEvery = 1
  ReceiptWindow = 5
  MaxEpoch = 0
  Revocable = {}
  Overlap = TRUE
SYMMETRY TaskSymmetry
INVARIANT PublishedIsDurable
CHECK_DEADLOCK FALSE

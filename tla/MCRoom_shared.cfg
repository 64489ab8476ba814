SPECIFICATION Spec
CONSTANTS
  a1 = a1
  a2 = a2
  c1 = c1
  c2 = c2
  t1 = t1
  t2 = t2
  NoConn = NoConn
  NoTask = NoTask
  Actor = {a1, a2}
  Conn = {c1, c2}
  ActorOf <- TwoEditors
  InitialAcl <- AllEdit
  MsgId <- Ids
  Mutation <- SharedRetries
  Task = {t1}
  BatchMax = 2
  QueueMax = 1
  ControlMax = 1
  CompactEvery = 2
  ReceiptWindow = 1
  MaxEpoch = 0
  Revocable = {}
  Overlap = FALSE
INVARIANTS
  TypeOK
  AttributionExact
  NoFrameForgotten
  ReceiptsStable
PROPERTY KeepsPromise
CHECK_DEADLOCK FALSE

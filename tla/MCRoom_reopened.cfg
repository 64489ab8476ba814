SPECIFICATION Spec
CONSTANTS
  a1 = a1
  a2 = a2
  c1 = c1
  c2 = c2
  t1 = t1
  t2 = t2
  NoConn = NoConn
  NoTask = NoTask
  Actor = {a1}
  Conn = {c1}
  ActorOf <- OneTab
  InitialAcl <- OwnEdit
  MsgId <- Ids
  Mutation <- Resent
  Task = {t1, t2}
  BatchMax = 1
  QueueMax = 1
  ControlMax = 1
  CompactEvery = 1
  ReceiptWindow = 5
  MaxEpoch = 1
  Revocable = {a1}
  Overlap = FALSE
SYMMETRY TaskSymmetry
INVARIANTS
  PublishedIsDurable
  ReplicaIsDurable
PROPERTY StoredByEditors
CHECK_DEADLOCK FALSE

CONSTANTS
  t1 = t1
  t2 = t2
  p1 = p1
  p2 = p2
  Types = {t1, t2}
  NumBuffers <- MCNumBuffers
  PENDING_PACKETS_MAX = 3
  Payloads = {p1, p2}
  Partial = Partial
  NoPacket = NoPacket
SPECIFICATION FairSpec
INVARIANTS
  TypeOK
  RingsMatchPending
  AssertsHold
  PendingComplete
PROPERTIES
  PendingIsProcessed
  ImplementsPendingQueue

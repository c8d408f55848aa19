CONSTANTS
  Senders = {t1}
  Username = TRUE
  QueueSize = 2
  MaxConnects = 2
  MaxSeq = 4
  MaxId = 4
SPECIFICATION FairSpec
INVARIANTS QueueSetAside UsableMeansGreeted
PROPERTIES ResultReturns KeepsPromise

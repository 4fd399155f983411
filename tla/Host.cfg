SPECIFICATION MCSpec
CONSTANTS
  t1 = t1
  t2 = t2
  n = n
  e = e
  i1 = i1
  i2 = i2
  i3 = i3
  ContextMax = 4
  ContextKeep = 2
  Executors <- MCExecutors
  Node = n
  Ids <- MCIds
  Old = i1
  NoId = NoId
  Threads <- MCThreads
  HistoryLimit = 6
  MaxRuns = 2
  MaxIters = 2
  MaxBoots = 2
INVARIANTS BuildsInv  ConversationsInv KeysInv
SYMMETRY Symmetry
CHECK_DEADLOCK FALSE

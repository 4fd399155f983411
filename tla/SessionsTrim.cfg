SPECIFICATION Spec
CONSTANTS ContextMax = 4 ContextKeep = 2 Executors = {n} Node = n Ids = {i1, i2} Old = i1 NoId = NoId Threads = {t1}
HistoryLimit = 6 MaxRuns = 3 MaxIters = 2 MaxBoots = 1
PROPERTIES TurnIsPersisted
CHECK_DEADLOCK FALSE

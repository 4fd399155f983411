SPECIFICATION MCSpec
CONSTANTS
  Node <- MCPair
  Peers <- MCPairPeers
  PROBE_MISSES = 2
  REPORT_WINDOW = 1
  SUPPRESSION_WAIT = 2
  BACKOFF_MAX = 1
  Paced = TRUE
  Outages <- WholeCentre
 
PROPERTY PromisesAreKept
CHECK_DEADLOCK FALSE

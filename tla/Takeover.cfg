SPECIFICATION Spec
CONSTANTS
  Node <- MCPair
  Peers <- MCPairPeers
  PROBE_MISSES = 1
  REPORT_WINDOW = 1
  SUPPRESSION_WAIT = 2
  BACKOFF_MAX = 1
  Paced = TRUE
  Outages <- EachLink
INVARIANTS TakeoverInv NeverOneSuspicion 

SPECIFICATION MCSpec
CONSTANTS
  p1 = p1
  p2 = p2
  ContextMax = 4
  ContextKeep = 2
  Caps = {0, 2}
  MaxCalls = 2
  MaxTurns = 1
  ReadWait = 2
  SettleQuiet = 1
  Kinds = {"bad_json", "write", "compile", "start", "stop", "read", "list", "ask", "unknown"}
INVARIANTS  DownloadsInv
PROPERTY WorkEnds
CHECK_DEADLOCK FALSE

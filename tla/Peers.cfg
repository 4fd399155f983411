SPECIFICATION MCSpec
CONSTANTS
  a = a
  b = b
  x = x
  y = y
  c = c
  s = s
  p1 = p1
  p2 = p2
  g1 = g1
  g2 = g2
  r1 = r1
  r2 = r2
  Peer <- MCPeer
  Body <- MCBody
  BACK_MS = 1
  AHEAD_MS = 1
  MaxTime = 2
  MaxSkew = 2
INVARIANTS GuardIsFair RegistryInv RoomsInv RequestsInv IndexInv
SYMMETRY Symmetry
CHECK_DEADLOCK FALSE

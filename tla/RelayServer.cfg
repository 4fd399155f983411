SPECIFICATION Spec
CONSTANTS
  s = s
  w = w
  s1 = s1
  s2 = s2
  w1 = w1
  Node <- MCNode
  Conn <- MCConn
  Owner <- MCOwner
  NoConn = NoConn
  Talk <- MCTalk
  Ends <- MCEnds
  MaxFrames = 4
INVARIANTS SessionIsNewest JudgementsInv
PROPERTY EveryFrameEnds

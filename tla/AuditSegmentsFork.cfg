SPECIFICATION Spec
CONSTANTS
  own = own
  theirs = theirs
  e1 = e1
  e2 = e2
  OwnSeg <- MCOwnSeg
  TheirSeg <- MCTheirSeg
  Event <- MCEvent
  NoEvent = NoEvent
  NoSeg = NoSeg
  MaxChain = 4
  MaxFile = 1
INVARIANT ForkTranscribesNothing


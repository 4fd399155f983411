SPECIFICATION MCSpec
CONSTANTS
  p1 = p1
  p2 = p2
  e1 = e1
  e2 = e2
  own = own
  theirs = theirs
  NoSeg = NoSeg
  Proc <- MCProc
  Event <- MCEvent
  NoEvent = NoEvent
  NoProc = NoProc
  APPEND_MAX_ATTEMPTS = 2
  MaxRows = 3
INVARIANTS ChainInv ChainIntact  OpeningInv DeliveryInv SegmentsInv
PROPERTIES ImplementsLog NewerSchemaKept PartialIsFrozen CallsReturn

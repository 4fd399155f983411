SPECIFICATION Spec
CONSTANTS
  Threads = {t1, t2}
  Defs = {d1, d2}
  Default = d1
  NoDef = NoDef
  StartAttempts = 2
  MaxVms = 2
  MaxOps = 2
  MaxAuditFailures = 1
INVARIANTS  AloneIsWhole
PROPERTY SwitchSlotReturns
CHECK_DEADLOCK FALSE

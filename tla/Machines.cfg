SPECIFICATION MCSpec
CONSTANTS
  t1 = t1
  t2 = t2
  i1 = i1
  i2 = i2
  d1 = d1
  d2 = d2
  Vms = {v1, v2}
  Ports = {q1, q2, q3}
  NoPort = NoPort
  Chunks = 1
  MaxStarts = 3
INVARIANTS  InstancesInv SettingsInv FilesInv
SYMMETRY Symmetry
CHECK_DEADLOCK FALSE

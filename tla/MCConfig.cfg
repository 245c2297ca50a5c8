CONSTANTS
  n0 = n0
  n1 = n1
  Files <- AllFiles
  Missing = Missing
  Absent = Absent
  DefaultNet = n0
  MaxU64 = 700000
  MaxRecords = 2
  MaxName = 3
  MaxLabel = 2
SPECIFICATION Spec
INVARIANTS
  PoolIsOurs
  LeaseIsExact
  EveryRecordServed
  FileIsConfig
CHECK_DEADLOCK FALSE

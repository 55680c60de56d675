SPECIFICATION Spec
CONSTANTS
  M1 = M1
  M2 = M2
  A1 = A1
  A2 = A2
  B1 = B1
  Machine <- Machines
  Address <- Addresses
  Owner <- Owners
  Lists <- AllLists
  base_pport = 1
  base_cport = 3
  MaxGen = 2
  MaxRun = 2
  Log <- AllLogs
  Second = 2
  Interval = 3
  None = None
INVARIANTS
  DeployTypeOK
  
  OwnPorts
  OwnLogs
  HistTypeOK
  BucketsExact
  HistogramOfLog
  KeptSome
PROPERTIES
  HistEnds
CHECK_DEADLOCK FALSE

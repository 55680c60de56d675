SPECIFICATION Spec
CONSTANTS
  A = A
  B = B
  C = C
  Replica <- ABC
  NBlk = 3
  Parent <- ForkParent
  Qc <- ForkQc
  By <- ForkBy
  Faulty <- OnlyC
  MayBeBad <- Third
  MaxLost = 1
  MaxCrash = 1
INVARIANTS
  TypeOK
  DeliveredComplete
  WaitsHaveCause
PROPERTIES
  HeardAreDelivered
CHECK_DEADLOCK FALSE

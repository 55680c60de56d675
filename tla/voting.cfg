SPECIFICATION Spec
CONSTANTS
  r1 = r1
  r2 = r2
  r3 = r3
  r4 = r4
  Replica <- MCReplica
  Faulty <- MCFaulty
  Payload <- MCPayload
  Block <- MCBlock
  TwoStep = FALSE
  LeftHeight = 3
  RightHeight = 4
SYMMETRY Symmetry
INVARIANTS
  TypeOK
  OneCertPerHeight
  CertifiedExtendCommitted
  LocksExtendCommitted
  Agreement
CHECK_DEADLOCK FALSE

SPECIFICATION Spec
CONSTANTS
  r1 = r1
  r2 = r2
  r3 = r3
  r4 = r4
  x = x
  y = y
  Replica <- Replica4
  Faulty <- NoReplica
  Proposers <- R1R2
  FaultyProposers <- NoReplica
  FaultyVoters <- NoReplica
  Payload <- XY
  Block <- Honest2
  TwoStep = FALSE
  MaxBlocks = 4
SYMMETRY Symmetry
INVARIANTS
  NewBlockHigherThanVheight
CHECK_DEADLOCK FALSE

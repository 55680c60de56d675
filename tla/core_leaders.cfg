SPECIFICATION Spec
CONSTANTS
  r1 = r1
  r2 = r2
  r3 = r3
  r4 = r4
  x = x
  y = y
  Replica <- Replica4
  Faulty <- OnlyR4
  Proposers <- OnlyR1
  FaultyProposers <- OnlyR4
  FaultyVoters <- OnlyR4
  Payload <- OnlyX
  Block <- Earliest3
  TwoStep = TRUE
  MaxBlocks = 3
SYMMETRY Symmetry
ACTION_CONSTRAINT PromptAndOwn
INVARIANTS
  TypeOK
  TailExtendsHqc
  HqcCertified
  LockBetweenExecAndHqc
PROPERTIES
  VotingSpec
CHECK_DEADLOCK FALSE

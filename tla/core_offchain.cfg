SPECIFICATION Spec
CONSTANTS
  r1 = r1
  r2 = r2
  r3 = r3
  r4 = r4
  x = x
  y = y
  Replica <- Replica4
  Faulty <- OnlyR4
  Proposers <- NoReplica
  FaultyProposers <- OnlyR4
  FaultyVoters <- NoReplica
  Payload <- XY
  Block <- OffChain
  TwoStep = FALSE
  MaxBlocks = 10
SYMMETRY VoterSymmetry
ACTION_CONSTRAINT PromptAfterProposals
VIEW VoterView
INVARIANTS
  NoSafetyBreach
CHECK_DEADLOCK FALSE

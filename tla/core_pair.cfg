SPECIFICATION Spec
CONSTANTS
  r1 = r1
  r2 = r2
  r3 = r3
  r4 = r4
  x = x
  y = y
  Replica <- Replica2
  Faulty <- NoReplica
  Proposers <- Replica2
  FaultyProposers <- NoReplica
  FaultyVoters <- NoReplica
  Payload <- OnlyX
  Block <- Honest5
  TwoStep = FALSE
  MaxBlocks = 6
SYMMETRY ProposerSymmetry
INVARIANTS
  ProposersVote
  ExecCommitted
CHECK_DEADLOCK FALSE

SPECIFICATION Spec
CONSTANTS
  r1 = r1
  r2 = r2
  r3 = r3
  r4 = r4
  c1 = c1
  c2 = c2
  c3 = c3
  c4 = c4
  c5 = c5
  c6 = c6
  Replica <- Replica4
  Faulty <- OnlyR4
  proposer = r1
  Cmd <- Cmd6
  BlkSize = 2
  TwoStep = TRUE
  Receivers <- R1R2
  Submissions = 1
ACTION_CONSTRAINT InOrder
INVARIANTS
  TypeOK
  NoBeatForgotten
  ExecutedAreDecided
  AnsweredOnce
  NoCommandLost
PROPERTIES
  BeatAfterQc
  EventuallyExecuted
CHECK_DEADLOCK FALSE

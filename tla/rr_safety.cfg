SPECIFICATION Spec
CONSTANTS
  c1 = c1
  c2 = c2
  c3 = c3
  c4 = c4
  nreplicas = 2
  Me = 0
  Cmd <- Cmd3
  OtherCmds <- AllOrNone
  TwoStep = TRUE
  Others <- Other
  MaxHeight = 5
  MaxTurns = 2
SYMMETRY Symmetry
INVARIANTS
  TypeOK
  AnsweredOnce
  PacingAlive
PROPERTIES
  ElectedByNewBlock
CHECK_DEADLOCK FALSE

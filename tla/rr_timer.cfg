SPECIFICATION Spec
CONSTANTS
  c1 = c1
  c2 = c2
  c3 = c3
  c4 = c4
  nreplicas = 4
  Me = 2
  Cmd <- Cmd2
  OtherCmds <- OneOrNone
  TwoStep = TRUE
  Others <- Zero
  MaxHeight = 5
  MaxTurns = 2
SYMMETRY Symmetry
INVARIANTS
  RotationTimed
CHECK_DEADLOCK FALSE

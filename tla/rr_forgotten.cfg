SPECIFICATION Spec
CONSTANTS
  c1 = c1
  c2 = c2
  c3 = c3
  c4 = c4
  nreplicas = 2
  Me = 1
  Cmd <- Cmd4
  OtherCmds <- NoCmds
  TwoStep = TRUE
  Others <- Nobody
  MaxHeight = 6
  MaxTurns = 1
SYMMETRY Symmetry
INVARIANTS
  NoCommandForgotten
CHECK_DEADLOCK FALSE

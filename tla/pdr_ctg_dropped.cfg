\* two safe outputs, -a -H -n -c: the time limit of an output cuts `down' short
SPECIFICATION Spec
CONSTANTS
  NRegs = 4
  Ins = {0}
  NOuts = 2
  Trans <- TurnsTrans
  Fails <- TurnsBoth
  Const0 = {}
  Const1 = {}
  SolveAll = TRUE
  ReuseProofOblig = FALSE
  Shortest = FALSE
  ShiftStart = FALSE
  UsePropOut = TRUE
  SkipGeneral = FALSE
  SkipDown = FALSE
  Ctgs = TRUE
  ConfGenLimit = FALSE
  MayAbort = FALSE
  TimeOutOne = TRUE
  NRecycle = 3
  NRestLimit = 0
  NFrameMax = 4
INVARIANT
  InvariantCertificate

\* one safe output, -n -c: `down' with counterexamples to generalization
SPECIFICATION Spec
CONSTANTS
  NRegs = 4
  Ins = {0}
  NOuts = 1
  Trans <- TurnsTrans
  Fails <- TurnsSafe
  Const0 = {}
  Const1 = {}
  SolveAll = FALSE
  ReuseProofOblig = FALSE
  Shortest = FALSE
  ShiftStart = FALSE
  UsePropOut = TRUE
  SkipGeneral = FALSE
  SkipDown = FALSE
  Ctgs = TRUE
  ConfGenLimit = FALSE
  MayAbort = FALSE
  TimeOutOne = FALSE
  NRecycle = 2
  NRestLimit = 0
  NFrameMax = 5
INVARIANTS
  FramesOverApproximate
  InvariantCertificate
PROPERTY
  Termination

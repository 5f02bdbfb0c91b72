\* one safe output, -D 1 -Q 2 -M 1: generalization may give up, restarts, recycling after every query
SPECIFICATION Spec
CONSTANTS
  NRegs = 3
  Ins = {0, 1}
  NOuts = 1
  Trans <- StartedTrans
  Fails <- StartedSafe
  Const0 = {}
  Const1 = {}
  SolveAll = FALSE
  ReuseProofOblig = FALSE
  Shortest = FALSE
  ShiftStart = FALSE
  UsePropOut = TRUE
  SkipGeneral = FALSE
  SkipDown = TRUE
  Ctgs = FALSE
  ConfGenLimit = TRUE
  MayAbort = FALSE
  TimeOutOne = FALSE
  NRecycle = 1
  NRestLimit = 2
  NFrameMax = 6
INVARIANTS
  TypeOK
  FramesOverApproximate
  InvariantCertificate
  LastSolverNotRecycled
PROPERTIES
  FramesOnlyStrengthen
  Termination

\* -a -H -i -q: five outputs, two of them constants
SPECIFICATION Spec
CONSTANTS
  NRegs = 3
  Ins = {0, 1}
  NOuts = 5
  Trans <- ForkTrans
  Fails <- ForkFails
  Const0 = {4}
  Const1 = {3}
  SolveAll = TRUE
  ReuseProofOblig = FALSE
  Shortest = TRUE
  ShiftStart = TRUE
  UsePropOut = TRUE
  SkipGeneral = FALSE
  SkipDown = TRUE
  Ctgs = FALSE
  ConfGenLimit = FALSE
  MayAbort = TRUE
  TimeOutOne = TRUE
  NRecycle = 2
  NRestLimit = 0
  NFrameMax = 6
INVARIANTS
  ClosedFramesSafe
  CexesAreShortest
PROPERTIES
  VerdictsHold

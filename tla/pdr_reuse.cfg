\* -p: one failing output, obligations outlive their timeframe
SPECIFICATION Spec
CONSTANTS
  NRegs = 3
  Ins = {0, 1}
  NOuts = 1
  Trans <- LockTrans
  Fails <- LockFails
  Const0 = {}
  Const1 = {}
  SolveAll = FALSE
  ReuseProofOblig = TRUE
  Shortest = FALSE
  ShiftStart = FALSE
  UsePropOut = TRUE
  SkipGeneral = FALSE
  SkipDown = TRUE
  Ctgs = FALSE
  ConfGenLimit = FALSE
  MayAbort = FALSE
  TimeOutOne = FALSE
  NRecycle = 2
  NRestLimit = 0
  NFrameMax = 6
INVARIANTS
  ObligationsFresh
  ObligationsLeadToFailure
  CexesAreReal

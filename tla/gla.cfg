\* one output to solve, and a constant
SPECIFICATION Spec
CONSTANTS
  Objs <- MCObjs
  NOuts = 2
  Designs <- MCDesigns
  Start <- MCStart
  Const0 = {0}
  Const1 = {}
  nFramesMax = 4
  nFramesStart = 0
  UseSkip = {FALSE, TRUE}
  fCallProver = TRUE
  nFramesNoChangeLim = 1
  nRatioMax = 30
  RestartFrame = 1
  RestartSize = 4
  Limits = TRUE
INVARIANTS
  StatusesRight
  ClassesProved
  NewestProver
  FramesProved
  CexFirst
PROPERTIES
  ClassesGrow
  Termination

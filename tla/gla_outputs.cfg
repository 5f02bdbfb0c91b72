\* two outputs to solve
SPECIFICATION Spec
CONSTANTS
  Objs <- MCObjs
  NOuts = 2
  Designs <- MCDesigns
  Start <- MCBoth
  Const0 = {}
  Const1 = {}
  nFramesMax = 4
  nFramesStart = 0
  UseSkip = {FALSE}
  fCallProver = TRUE
  nFramesNoChangeLim = 1
  nRatioMax = 30
  RestartFrame = 1
  RestartSize = 4
  Limits = FALSE
INVARIANT
  StatusesRight

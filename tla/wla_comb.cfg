\* -u: a counter-example in timeframe 1 and later, and an abstraction without gates
SPECIFICATION Spec
CONSTANTS
  Signals <- MCSignals
  Designs <- MCFails
  Gateless <- MCRegisters
  Pars <- MCComb
  nIterMax = 6
  nFrameMax = 100
  nFramesNoChangeLim = 1
INVARIANTS
  AnswersRight

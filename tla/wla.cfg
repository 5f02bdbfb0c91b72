\* every setting of the options that changes the control, but -p with -s
SPECIFICATION Spec
CONSTANTS
  Signals <- MCSignals
  Designs <- MCDesigns
  Gateless <- MCGateless
  Pars <- MCPars
  nIterMax = 6
  nFrameMax = 3
  nFramesNoChangeLim = 1
INVARIANTS
  TypeOK
  AnswersRight
  ShrunkClean
  WhitesNonEmpty
  ThreadJoined
  CrashOnlyByLimitOrShrink
  TraceFits
PROPERTIES
  Termination

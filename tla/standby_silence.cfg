\* The primary is silent, the source hangs, and nothing is reported.
SPECIFICATION Spec
INVARIANT SilenceIsReported
CONSTANTS
  Crons = {c1}
  Manuals = {}
  Window = 1
  StaleAfter = 3
  CaptureGap = 2
  FailureInterval = 2
  HeartbeatDelay = 1
  NumEncounters = 1
  MaxTime = 7
  MaxRefusals = 1
  MaxDeaths = 0
  MaxManuals = 0

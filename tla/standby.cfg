\* The cron, a manual capture, a refusal and an invocation that dies.
SPECIFICATION Spec
INVARIANTS FeedNeverUnwatched ReplayCoversOutage CountsItsCaptures
CONSTANTS
  Crons = {c1}
  Manuals = {m1}
  Window = 1
  StaleAfter = 2
  CaptureGap = 2
  FailureInterval = 2
  HeartbeatDelay = 1
  NumEncounters = 1
  MaxTime = 6
  MaxRefusals = 1
  MaxDeaths = 1
  MaxManuals = 1

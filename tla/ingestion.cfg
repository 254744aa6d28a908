\* A worker beside a backfill, two lanes, one fault.
SPECIFICATION Spec
INVARIANTS TypeOK CountersMatchRows StatusIsHonest ProcessedMeansStored FailuresLeaveATrace NothingLeftReceived CheckpointNamesItsRun
CONSTANTS
  l1 = l1
  l2 = l2
  Pollers = {w1}
  Backfills = {f1}
  Lanes = {l1, l2}
  NumItems = 3
  BoardItems = {2, 3}
  SourceOf <- CatalogAndBoards
  NumPeriodItems = 2
  NumPeriods = 2
  MaxRetries = 1
  MaxRuns = 2
  MaxMisses = 1
  MaxFaults = 1
SYMMETRY LaneSymmetry
CHECK_DEADLOCK FALSE

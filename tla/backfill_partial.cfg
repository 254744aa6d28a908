\* A period is marked complete after a run that was PARTIAL.
SPECIFICATION Spec
INVARIANT CompleteMeansStored
CONSTANTS
  l1 = l1
  l2 = l2
  Pollers = {}
  Backfills = {f1}
  Lanes = {l1, l2}
  NumItems = 3
  BoardItems = {2, 3}
  SourceOf <- CatalogAndBoards
  NumPeriodItems = 2
  NumPeriods = 1
  MaxRetries = 1
  MaxRuns = 1
  MaxMisses = 1
  MaxFaults = 0
SYMMETRY LaneSymmetry
CHECK_DEADLOCK FALSE

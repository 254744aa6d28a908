\* Two overlapping workers, a webhook that a redeploy switches on or off, a replay beside them, one fault.
SPECIFICATION Spec
CONSTANTS
  h1 = h1
  h2 = h2
  None = None
  Workers = {w1, w2}
  Webhooks = {h1}
  Configs <- OffOrOn
  Healthy = {}
  NumEncounters = 2
  Replays = {r1}
  BatchSize = 2
  BacklogAge = 9
  AlertInterval = 1
  MaxCaptures = 1
  MaxTime = 2
  MaxFaults = 1
SYMMETRY WorkerSymmetry
INVARIANTS TypeOK DuplicateOnlyInDoubt FeedOldestFirst HistoryNeverAnnounced
PROPERTY ImplementsLedger

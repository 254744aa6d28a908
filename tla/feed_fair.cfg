\* A healthy webhook behind one that need never accept, and the backlog warnings.
SPECIFICATION FairSpec
CONSTANTS
  h1 = h1
  h2 = h2
  None = None
  Workers = {w1}
  Webhooks = {h1, h2}
  Configs <- TwoHooks
  Healthy = {h2}
  NumEncounters = 2
  Replays = {}
  BatchSize = 1
  BacklogAge = 1
  AlertInterval = 1
  MaxCaptures = 1
  MaxTime = 4
  MaxFaults = 1
PROPERTIES HealthyWebhookDelivers BacklogIsReported

\* Two overlapping publishers; three panels and two places; a site and two apps;
\* two recorders and two scopes.
SPECIFICATION Spec
INVARIANTS TypeOK RepeatedOnlyInDoubt CardsAreSettled RendersAreShared ActiveStaysSignedIn
  NothingSlipsIn UnknownFieldsAreOnFile ReportsAreBorneOut
PROPERTY OneLaunchPerTTL
CHECK_DEADLOCK FALSE
CONSTANTS
  Publishers = {w1, w2}
  WeekLength = 3
  Settle = 1
  MaxAge = 4
  WeekEnd = 7
  MaxRows = 2
  MaxWeeklyFaults = 1
  Panels = {k1, k2, k3}
  TTL = 2
  MaxEntries = 2
  MaxNow = 5
  MaxFailures = 1
  None = None
  site = site
  app1 = app1
  app2 = app2
  Websites = {site}
  Apps = {app1, app2}
  BrowserOf <- OneBrowser
  Lifetime = 2
  MaxDays = 4
  MaxSignIns = 3
  Recorders = {r1, r2}
  Scopes = {c1, c2}
  Payloads <- Boards
  RootFields = {"entries"}
  EntryFields = {"planet"}
  NullableFields = {"planet"}
  MaxAnswers = 3
  MaxDriftFaults = 1

SPECIFICATION Spec
CONSTANTS
  Names = {1, 2, 3, 4}
  Players <- FourPlayers
  NamesWithin <- Substrings
  Meetings <- FewMeetings
  None = None
  Red = Red
  Blue = Blue
  CycleLength = 2
  DossierRows = 2
  HistoryRows = 2
  SearchRows = 1
  MaxEncounters = 3
  MaxTime = 2
INVARIANTS
  RivalriesAgree
  RecordsAgree
  ReportAddsUp
  GuildsAgree
  OverlayTilesMatchRows
CHECK_DEADLOCK FALSE

SPECIFICATION MCSpec
CONSTANTS
  ReferenceEvery = 10
  Gap = 4
  Lookback <- MCLookback
  CalmTicks = 1
  Slack = 1
  Outages = TRUE
  MaxRestarts = 1
  MaxRow = 3
  Lag = 1
  Overlap = 2
  PageSize = 1
  MaxPages = 2
  From = 1
  LastNow = 6
  ChatWindow = 2
  AnchorEvery = 2
  HoldFor = 1
  FewGone = 1
  PassTime = 1
  MaxChats = 2
  LastInstant = 5
  Reads = {deals, contacts}
  Deals = deals
  Day = 10
  FromHour = 0
  ToHour = 5
  Retry = 2
  SweepEvery = 10
  Expires = 12
  Retention = 13
  LongRun = 2
  MaxDeploys = 2
  FirstHour = 2
  LastHour = 13
  Orders = {1, 2, 3}
  Placed = {1, 2}
  Old = {1}
  RowPage = 1
  IdPage = 1
  RunPages = 4
  Settle = 1
  SweepRuns = 2
  SweepLimit = 1
  ShownLate = 1
  ReadTime = 0
  LastSecond = 2
  MaxChanges = 3
CHECK_DEADLOCK FALSE
INVARIANTS
  WorkerTypeOK
  OnlyOutagesLose
  FeedIsWhole
  WatchIsKept
  OrdersCatchUp
PROPERTIES
  SlowPassesAreSpared
  ChatsCloseOnEvidence
  SweepsAreNightly
  ReadsKeepTheirPlace
  OnlyGoneAreRemoved

SPECIFICATION MCSpec
CONSTANTS
  Row = {1}
  Entity = {"DEALS"}
  EntityOf <- MCEntityOf
  Needs <- MCNeeds
  Whole = {}
  Fixed = {}
  Strict = {}
  Finalizing = {}
  Settle <- MCSettle
  SkipBack <- MCSkipBack
  HistoryEntity = "DEALS"
  WindIdle = 99
  WindBackTo = 5
  Runner = {"worker", "resync"}
  Modes <- TwoModes
  Since = {3}
  CommitLag = 1
  PageHold = 0
  MaxTime = 4
  MaxFaults = 0
  Ids = {1, 2, 3}
  First = {1, 2}
  Held <- MCHeld
  Contacts = {1, 2}
  Hideable = {1, 2}
  RecentDeals = {1, 2}
  ListPage = 1
  SweepMost = 1
  CheckMost = 1
  RelinkMost = 2
  MaxTurns = 3
  Minute = 2
  WindowMinutes = 3
  Ceiling = 3
  SoftCeiling = 2
  MaxPace = 1
  Costs = {1, 2}
  Basket = 4
  SoftSeconds = 1
  HardSeconds = 3
  Seconds = {0, 2}
  Burst = 2
  Retries = 1
  LastTime = 7
  DayContacts = {1, 2}
  DayDeals = {5, 6, 7}
  NumberKeys = {11, 12}
  TailOf <- MCTailOf
  DayLength = 3
  LiveEvery = 1
  WeekEvery = 3
  WeekDays = 1
  DaysPerPass = 2
  LastMoment = 11
CHECK_DEADLOCK FALSE
INVARIANTS
  PortalTypeOK
  NothingForgotten
  HourIsBounded
  ClientsAreThePeople
  DaysAreClosed
PROPERTIES
  SweepsTakeTheGone
  MergesAreFollowed

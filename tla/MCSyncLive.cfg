SPECIFICATION FairSpec
CONSTANTS
  Row = {1, 2}
  Entity = {"DEALS", "STAGE_HISTORY"}
  EntityOf <- MCEntityOf
  Needs <- MCNeeds
  Whole = {}
  Fixed = {"STAGE_HISTORY"}
  Strict = {"STAGE_HISTORY"}
  Finalizing = {"STAGE_HISTORY"}
  Settle <- MCSettle
  SkipBack <- MCSkipBack
  HistoryEntity = "STAGE_HISTORY"
  WindIdle = 4
  WindBackTo = 5
  Runner = {"worker"}
  Modes <- LiveModes
  Since = {0}
  CommitLag = 0
  PageHold = 0
  MaxTime = 3
  MaxFaults = 1
PROPERTIES ImplementsMirror EventuallyStored
CHECK_DEADLOCK FALSE

SPECIFICATION Spec
CONSTANTS
  Row = {1, 2}
  Entity = {"DEALS", "STAGE_HISTORY"}
  EntityOf <- MCEntityOf
  Needs <- MCNeeds
  Whole = {}
  Fixed = {"STAGE_HISTORY"}
  Strict = {"STAGE_HISTORY"}
  Finalizing = {"STAGE_HISTORY"}
  Settle <- MCSettle
  SkipBack <- MCSkipBack
  HistoryEntity = "STAGE_HISTORY"
  WindIdle = 4
  WindBackTo = 5
  Runner = {"worker"}
  Modes <- WorkerModes
  Since = {0}
  CommitLag = 1
  PageHold = 0
  MaxTime = 5
  MaxFaults = 1
INVARIANTS DerivationWaits
CHECK_DEADLOCK FALSE

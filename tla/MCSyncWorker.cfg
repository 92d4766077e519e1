SPECIFICATION Spec
CONSTANTS
  Row = {1, 2, 3}
  Entity = {"DEALS", "STAGE_HISTORY"}
  EntityOf <- MCEntityOf
  Needs <- MCNeeds
  Whole = {}
  Fixed = {"STAGE_HISTORY"}
  Strict = {"STAGE_HISTORY"}
  Finalizing = {}
  Settle <- MCSettle
  SkipBack <- MCSkipBack
  HistoryEntity = "STAGE_HISTORY"
  WindIdle = 2
  WindBackTo = 3
  Runner = {"worker"}
  Modes <- WorkerModes
  Since = {0}
  CommitLag = 0
  PageHold = 0
  MaxTime = 3
  MaxFaults = 1
INVARIANTS TypeOK NothingForgotten SuccessIsComplete
CHECK_DEADLOCK FALSE

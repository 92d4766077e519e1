SPECIFICATION Spec
CONSTANTS
  d1 = d1
  d2 = d2
  Deal <- MCDeal
  Places = {"here", "elsewhere", "absent"}
  Saves = {"UPDATE"}
  DrainRows = 3
  DrainMax = 2
  ConfirmedLimit = 2
  GoneLimit = 1
  MaxInFlight = 2
  Crashes = TRUE
INVARIANTS
  EveryEventCounts

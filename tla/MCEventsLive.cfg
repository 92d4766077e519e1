SPECIFICATION FairSpec
CONSTANTS
  d1 = d1
  d2 = d2
  Deal <- MCDeal
  Places = {"here", "absent"}
  Saves = {"UPDATE"}
  DrainRows = 3
  DrainMax = 1
  ConfirmedLimit = 1
  GoneLimit = 0
  MaxInFlight = 1
  Crashes = FALSE
PROPERTIES
  GhostsEnd

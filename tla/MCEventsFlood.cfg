SPECIFICATION Spec
CONSTANTS
  d1 = d1
  d2 = d2
  Deal <- MCDeal
  Places = {"here", "elsewhere", "absent"}
  Saves = {"UPDATE"}
  DrainRows = 3
  DrainMax = 1
  ConfirmedLimit = 1
  GoneLimit = 1
  MaxInFlight = 2
  Crashes = TRUE
SYMMETRY Interchangeable
INVARIANTS
  TypeOK
  NothingLost
  GhostsAreKnown

SPECIFICATION FairSpec
CONSTANTS
  Walked = {"deals", "stages"}
  Fresh = {"deals"}
  Via <- MCVia
  Profile = "profile"
  Ladder <- MCLadder
  Spendable = {"deals", "batch"}
  MethodHold = 2
  Tolerance = 2
  MaxRetries = 1
  SeedMaxAge = 2
  Cap = 3
  MaxProbes = 2
  MaxCrashes = 1
INVARIANTS
  TypeOK
  SpentMethodRests
PROPERTIES
  KnocksAreSpaced
  OutageIsOne
  Recovers

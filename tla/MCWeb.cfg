SPECIFICATION MCSpec
CONSTANTS
  Ttl = 1
  OwnTtl = 2
  Stale = 2
  MaxBuilds = 5
  Keys = {1, 2}
  Attempts = {a1, a2}
  MaxFailed = 2
  BaseLock = 1
  MaxLock = 2
  Decay = 2
  MaxNow = 3
  Panels = {a1, a2}
  Fields = {main, enabled}
  MainField = main
  Values = {0, 1}
  Fresh = 0
  MaxVersion = 3
  Windows = {a1, a2}
  Reports = {a1, a2}
  Buttons = {line}
  Sealed = {line}
  MaxActions = 1
  MaxPresses = 2
  Users = {f, u}
  Founder = f
  Desks = {a1, a2}
  Patches <- MCPatches
  Drafts <- MCDrafts
  MaxRequests = 4
SYMMETRY MCSymmetry
CHECK_DEADLOCK FALSE
INVARIANTS
  WebTypeOK
  EntriesAreSound
  LocksAreSound
  HistoryIsTrue
  PressesAreTrue
PROPERTIES
  AnswersAreKept
  NewestLands
  LocksAreServed
  AccountsStaySound

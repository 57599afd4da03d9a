SPECIFICATION ProgressSpec
CONSTANTS
  None = None
  d1 = d1
  d2 = d2
  Peers = {d1, d2}
  MAX_BACKOFF = 2
  Events <- MCEvents
  Needs <- MCNeeds
  Shows <- MCShows
  Rank <- MCRank
  Starts <- MCStarts
  FETCH_CHUNK = 2
  MaxFailures = 1
  Phones <- MCPhones
  OwnerOf <- MCOwnerOf
  Dials <- MCDials
  MaxCalls = 2
  MaxLost = 1
  Talkers = {1, 2}
  MAX_VOICE = 2
  MaxTurns = 1
  MaxLinks = 2
INVARIANTS
  OneSyncAtATime
  NothingAcceptableIsLeft
PROPERTIES
  EveryTargetIsTried
  SidesConverge
  CallsEnd
  IsAPhoneLine
  RightsTakeEffect
CHECK_DEADLOCK FALSE

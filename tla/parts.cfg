SPECIFICATION PartsSpec
CONSTANTS
  None = None
  me = me
  sib = sib
  fay = fay
  Me = me
  Siblings = {sib}
  Friends = {fay}
  Strangers = {}
  DEFAULT_TTL = 4
  MAX_TTL = 5
  MAX_CLOCK_SKEW = 1
  MaxClock = 5
  MaxRevocations = 1
  MaxStoring = 1
  Failing = {fay}
  d1 = d1
  Devices = {d1}
  w1 = w1
  w2 = w2
  Wraps = {w1, w2}
  Dated <- MCDated
  INBOX_KEEP = 1
  INBOX_CAP = 1
  MaxDay = 3
  MaxAtOnce = 1
  MaxCuts = 1
  f1 = f1
  f2 = f2
  Hashes = {f1, f2}
  SizeOf <- MCSizeOf
  CACHE_BYTES = 2
  PinAll = FALSE
  PENDING_KEEP = 1
  MaxHour = 3
  Phones <- MCPhones
  OwnerOf <- MCOwnerOf
  Dials <- MCDials
  MaxCalls = 3
  MaxLost = 1
  WRAP = 32
  FirstFrame = 30
  DELAY = 2
  MAX_DRY = 3
  MAX_HELD = 3
  CATCH_UP = 2
  Pauses = {3}
  MaxFrame = 38
  MaxNet = 2
  z1 = z1
  z2 = z2
  k1 = k1
  k2 = k2
  ZapIds = {z1, z2}
  AmountOf <- MCAmountOf
  FEE_PERCENT = 1
  FEE_MIN_SATS = 100
  Providers = {k1, k2}
  MaxKeys = 1
  g1 = g1
  g2 = g2
  a1 = a1
  a2 = a2
  Groups = {g1, g2}
  Made = {g1}
  Acts = {a1, a2}
  MaxCompactions = 1
  Items = {"m1", "r", "d"}
  PlaceOf <- MCPlaceOf
  ReactsTo <- MCReactsTo
  MineItems = {"r"}
  Order <- MCOrder
  DM = "dm"
  BUS = 1
  MaxClicks = 1
  MaxMisses = 1
  n1 = n1
  n2 = n2
  n3 = n3
  Keys = {n1, n2, n3}
  Held = {n3}
  MaxLosses = 2
  r1 = r1
  r2 = r2
  PublicRelays = {r1, r2}
  RelayLists = {{r1}}
  ANNOUNCE_EVERY = 1
  MaxSecond = 2
  MaxFlips = 2
  Posts = {1, 2}
  Hidden = {2}
  MAX_EVENTS = 1
  FEED = 1
  MaxChanges = 2
  MaxMuffled = 1
  WirePeople = {"p", "q"}
  WireTexts = {"x", "y"}
  WireSizes = {1, 2}
  MAX_PEERS = 2
  MAX_ATTACHMENTS = 2
  MAX_ATTACHMENT_BYTES = 2
  WireMaxChanges = 1
  THOUSAND = 20
  U64_MAX = 65535
  TIME_WORDS = 2
  SIGNATURE_WORDS = 2
  HASH_WORDS = 4
  Openers = {1, 2}
  AnchorDevices = {"anchor"}
  LINK_PEERS = 2
  MaxChain = 2
INVARIANTS
  StoreAndBookAgree
  RevocationHolds
  OnExactlyAsMember
  PutOutIsCutOff
  LetGoStaysGone
  HeardByTheRightPerson
  HeardSoon
  FeeGoesOneWay
  CountedOnce
  LooksFindWrites
  NothingIsMissed
  BackedUpIsHeld
  OnlyWhatIsPublic
  SubscriberMissesNothing
  ReadsAsMeant
  JoinedIsKept
PROPERTIES
  OursIsNotSwept
CHECK_DEADLOCK FALSE

SPECIFICATION Spec
CONSTANTS
  None = None
  o = o
  a = a
  b = b
  People = {o, a, b}
  RoleIds = {"member", "mod", "admin"}
  Channels = {"general"}
  Codes = {}
  Texts = {"text"}
  Owner = o
  General = "general"
  FirstText = "text"
  MAX_SLOWMODE = 2
  MAX_NEWCOMER_WAIT = 3
  PUBLIC_NEWCOMER_FLOOR = 1
  MaxTime = 2
  MaxBatch = 2
  Untils = {3}
  Publics = {TRUE}
  MaxInvites = 0
  Editors = {}
  RoleSets <- MCModOnly
  PermSets <- MCNoSets
  PositionInputs <- MCNoNumbers
  ScopedSets <- MCNoSets
  SecsInputs <- MCNoNumbers
INVARIANTS
  TypeOK
  OwnerStands
  BannedAreOut
  OffersAreHonoured
  SpansFollowMembership
  OneMuteAtATime
SYMMETRY MCSymmetry
CONSTRAINT MCFewSpans

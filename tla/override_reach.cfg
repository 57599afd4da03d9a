SPECIFICATION Spec
CONSTANTS
  o = o
  a = a
  b = b
  None = None
  People = {o, a}
  RoleIds = {"member", "mod", "admin"}
  Channels = {"general"}
  Codes = {"code"}
  Texts = {"text"}
  Owner = o
  General = "general"
  FirstText = "text"
  MAX_SLOWMODE = 2
  MAX_NEWCOMER_WAIT = 3
  PUBLIC_NEWCOMER_FLOOR = 1
  MaxTime = 1
  MaxBatch = 2
  Untils = {}
  Publics = {FALSE}
  MaxInvites = 1
  Editors = {o, a}
  RoleSets <- MCAdminOnly
  PermSets <- MCNoSets
  PositionInputs <- MCNoNumbers
  ScopedSets <- MCScopedSets
  SecsInputs <- MCSecs
PROPERTIES
  OverrideGrantsWithinReach

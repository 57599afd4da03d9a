SPECIFICATION NSpec
CONSTANTS
  o = o
  a = a
  b = b
  n1 = n1
  n2 = n2
  None = None
  People = {o, a, b}
  RoleIds = {"member", "mod", "admin"}
  Channels = {"general"}
  Codes = {"code"}
  Texts = {"text"}
  MAX_SLOWMODE = 2
  MAX_NEWCOMER_WAIT = 3
  PUBLIC_NEWCOMER_FLOOR = 1
  MAX_ID = 12
  MAX_SECOND = 5
  Nodes = {n1, n2}
  Holder = n1
  Start <- MCStart
  Signings <- MCSignings
  Clocks = {3}
  MaxSeq = 2
INVARIANTS
  Agreement
  SkipTheSame
PROPERTIES
  CompactionKeepsTheState
CHECK_DEADLOCK FALSE

SPECIFICATION PSpec
CONSTANTS
  o = o
  a = a
  b = b
  t1 = t1
  t2 = t2
  None = None
  People = {o, a, b}
  RoleIds = {"member", "mod", "admin"}
  Channels = {"general", "side"}
  Codes = {}
  Texts = {"text"}
  MAX_SLOWMODE = 2
  MAX_NEWCOMER_WAIT = 3
  PUBLIC_NEWCOMER_FLOOR = 1
  MAX_ID = 6
  MAX_SECOND = 4
  Tasks = {t1, t2}
  Start <- MCStart
  Deliveries <- MCWithdrawal
  MaxDeliveries = 1
  MaxFaults = 0
INVARIANTS
  WithdrawnStaysOut
CHECK_DEADLOCK FALSE

SPECIFICATION QSpec
CONSTANTS
  None = None
  Openers = {1}
  AnchorDevices = {}
  LINK_PEERS = 2
  MaxChain = 1
INVARIANTS
  ServedIsFound
CHECK_DEADLOCK FALSE

SPECIFICATION Spec
CONSTANTS
  Protocol = "anthropic"
  Mode = "block"
  MaxCalls = 1
  MaxFrags = 1
  MaxChunks = 5
  ChanCap = 1
  Denied = {}
INVARIANT SubstitutedStaysOut
CHECK_DEADLOCK FALSE

SPECIFICATION Spec
CONSTANTS
  Protocol = "openai"
  Mode = "block"
  MaxCalls = 1
  MaxFrags = 2
  MaxChunks = 6
  ChanCap = 1
  Denied = {}
INVARIANT CallsAnswered
CHECK_DEADLOCK FALSE

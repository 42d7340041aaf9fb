SPECIFICATION Spec
CONSTANTS
  Protocol = "openai"
  Mode = "block"
  MaxCalls = 2
  MaxFrags = 1
  MaxChunks = 4
  ChanCap = 1
  Denied = {}
INVARIANT CallsAnswered
CHECK_DEADLOCK FALSE

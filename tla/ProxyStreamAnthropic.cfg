SPECIFICATION FairSpec
CONSTANTS
  Protocol = "anthropic"
  Mode = "block"
  MaxCalls = 2
  MaxFrags = 2
  MaxChunks = 7
  ChanCap = 1
  Denied = {2}
INVARIANTS TypeOK ForwardedWasEvaluated RefusedStaysOut ForwardedWhole CallsAnswered IndexAligned
PROPERTIES StreamEnds StreamIsToolGate
CHECK_DEADLOCK FALSE

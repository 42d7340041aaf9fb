SPECIFICATION Spec
CONSTANTS
  Protocol = "anthropic"
  Mode = "block"
  MaxCalls = 1
  MaxFrags = 1
  MaxChunks = 4
  ChanCap = 1
  Denied = {}
INVARIANT InspectorSeesInput
CHECK_DEADLOCK FALSE

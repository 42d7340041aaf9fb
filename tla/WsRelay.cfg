SPECIFICATION FairSpec
CONSTANTS
  MaxFrames <- Frames
  Sent <- Kinds
  Cap = 1
INVARIANTS TypeOK UserFramesVerbatim FramesAccounted MatchStopsHere
PROPERTIES RelayEnds RelayIsTwoChannels
CHECK_DEADLOCK FALSE

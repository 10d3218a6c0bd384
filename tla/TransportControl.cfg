SPECIFICATION FairSpec
CONSTANTS
  MaxWaiting = 2
  MaxQueued <- TwoFrames
PROPERTIES
  AbortEnds
  StopReturns

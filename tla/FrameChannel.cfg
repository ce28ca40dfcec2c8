CONSTANTS
  ChannelSize = 2
  MaxFrames = 4
  MaxFailures = 1

SPECIFICATION FairSpec

INVARIANTS
  OwnedUntilFailure
  LeaksExplained

PROPERTIES
  SentInOrder
  SendGoesOn

CHECK_DEADLOCK FALSE

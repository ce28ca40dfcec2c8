SPECIFICATION FairSpec
CONSTANTS
  NChunks = 4
  Builds = {{}, {"abort", "anyFd"}}
  MaxClients = 3
  MaxFrames = 1
\* The process may exit, be killed by SIGPIPE or die of a bad pointer.
CHECK_DEADLOCK FALSE
INVARIANTS
  TypeOK
  OnePollerPerFd
  InterestFollowsConnection
  UntilClose
  ReadyBitsAreFresh
PROPERTIES
  PollFailsOnlyAfterLostOutput
  NobodyWaits
  Stops

SPECIFICATION Spec
CONSTANTS
  NChunks = 3
  Builds = {{}}
  MaxClients = 2
  MaxFrames = 0
\* The process may exit, be killed by SIGPIPE or die of a bad pointer.
CHECK_DEADLOCK FALSE
PROPERTIES
  RemovesReadable

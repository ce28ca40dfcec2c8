CONSTANTS
  Byte <- MCByte
  Frame <- MCFrame
  Capacity = 5
  SockBuf = 3
  MaxFrames = 3
  MaxClients = 2

SPECIFICATION FairSpec

INVARIANTS
  TypeOK
  WaitingIsWatched
  EveryByteCounted

PROPERTIES
  ImplementsPipe
  Flushed

CHECK_DEADLOCK FALSE

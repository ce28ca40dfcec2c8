SPECIFICATION FairSpec
CONSTANTS
  Byte = {0, 1, 2, 3}
  PACKAGE_HEAD_LEN = 2
  SCTX_MAX_PKG_BODY_LEN = 2
  SCTX_RECVBUF_CAPACITY = 4
  HeaderBodyLen <- MCHeaderBodyLen
  MaxBytes = 6
INVARIANTS
  StreamPreserved
  Framed
PROPERTIES
  ImplementsPackageStream
  ClosedForCause
  Drained

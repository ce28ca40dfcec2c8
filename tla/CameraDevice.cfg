CONSTANTS
  OUTPUT_BUF_SIZE = 3
  Size = 7
  MaxBytes = 8
  MaxImages = 3
  MaxBuffers = 3
  MaxFailures = 1

SPECIFICATION CameraSpec

INVARIANTS
  FramesAreImages
  BuffersShared

PROPERTY ImagesFlow

CHECK_DEADLOCK FALSE

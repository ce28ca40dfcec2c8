CONSTANTS
  B = 4
  U32 = 48
  Data = {1}
  IntSizes = {1, 2}
  Lengths = {0, 1, 2, 3, 7, 8, 15}
  Capacity = {0, 1, 5, 16, 30, 47}
  MaxItems = 3

SPECIFICATION StreamSpec

INVARIANTS
  StreamTypeOK
  StreamsHold

CHECK_DEADLOCK FALSE

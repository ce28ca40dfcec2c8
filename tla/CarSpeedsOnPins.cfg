SPECIFICATION Spec
CONSTANTS
  Speed <- MCSpeed
  U32 = 16
  PWM_RANGE = 4
  MaxBatch = 2
\* The process ends.
CHECK_DEADLOCK FALSE
INVARIANTS
  SpeedsOnTheirPins

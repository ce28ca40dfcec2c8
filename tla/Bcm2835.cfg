CONSTANTS
  BSC_FIFO_SIZE = 2
  MaxI2cBytes = 3
  MaxI2cCalls = 2
  SPI_FIFO_SIZE = 2
  MaxSpiBytes = 5
  MaxSpiCalls = 2
  WORD_BYTES = 3
  AUX_FIFO_SIZE = 2
  MaxAuxBytes = 8
  MaxAuxCalls = 3
  LO = 4
  SHORT = 2
  EARLY = 1
  SLEEP_LIMIT = 4
  MaxDelay = 5
  MaxClock = 11
  CORE_CLK_HZ = 100
  DIVIDERS = 32
  I2C_DIVIDER = 16
  AUX_SPEED_MAX = 7
  AUX_CLOCK_MIN = 6
  AUX_CLOCK_MAX = 50

SPECIFICATION BcmFairSpec

INVARIANTS
  BcmTypeOK
  I2cIsTrue
  BytesExchanged
  TimerIsTrue
  SpeedIsHeld

PROPERTY CallsReturn

CHECK_DEADLOCK FALSE

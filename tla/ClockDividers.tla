---------------------------- MODULE ClockDividers -----------------------------
(***************************************************************************)
(* How bcm2835.c turns a speed into the divider of a clock: for SPI, the   *)
(* auxiliary SPI and I2C.  A divider register has 16 bits and takes even   *)
(* values, and zero stands for a large one.  Widths and frequencies are    *)
(* parameters, so that all speeds can be checked.                          *)
(***************************************************************************)
EXTENDS Integers

CONSTANTS
  CORE_CLK_HZ,
  DIVIDERS,     \* values of a uint16_t: 2^16
  I2C_DIVIDER,  \* what zero stands for in the I2C divider: 2^15
  AUX_SPEED_MAX, \* the largest divider of the auxiliary SPI: 4095
  AUX_CLOCK_MIN, AUX_CLOCK_MAX

(* The slowest speed of the auxiliary SPI needs a divider of 16 bits, and  *)
(* about the largest that it has: 30500 Hz of 250 MHz need 4098.           *)
ASSUME ClockAssumption ==
  /\ CORE_CLK_HZ \in Nat \ {0} /\ DIVIDERS \in Nat \ {0} /\ DIVIDERS % 2 = 0
  /\ I2C_DIVIDER \in Nat \ {0} /\ AUX_SPEED_MAX \in Nat
  /\ AUX_CLOCK_MIN \in Nat \ {0} /\ AUX_CLOCK_MAX \in Nat \ {0}
  /\ AUX_CLOCK_MIN <= AUX_CLOCK_MAX
  /\ 2 * (AUX_SPEED_MAX + 1) * AUX_CLOCK_MIN <= CORE_CLK_HZ
  /\ CORE_CLK_HZ <= 2 * DIVIDERS * AUX_CLOCK_MIN

VARIABLE
  clk \* the last speed asked for, and the divider that was set

Speed == 0 .. CORE_CLK_HZ + 1
Even(n) == n - (n % 2)

ClockTypeOK ==
  /\ clk.of \in {"none", "spi", "aux", "i2c", "killed"}
  /\ clk.asked \in Speed /\ clk.divider \in 0 .. DIVIDERS - 1

ClockInit == clk = [of |-> "none", asked |-> 1, divider |-> 0]

Set(of, asked, divider) == clk' = [of |-> of, asked |-> asked, divider |-> divider]

(* Cut to 16 bits, then made even. *)
SetSpeed(of) ==
  \E speed_hz \in Speed \ {0} :
    Set(of, speed_hz, Even((CORE_CLK_HZ \div speed_hz) % DIVIDERS))

(* A division by zero is undefined: it has some quotient, as with the      *)
(* instruction of the processor, or the routine of the library that stands *)
(* for it raises SIGFPE.                                                   *)
DividesByZero(of) ==
  \/ \E quotient \in 0 .. DIVIDERS - 1 : Set(of, 0, Even(quotient))
  \/ Set("killed", 0, clk.divider)

bcm2835_spi_set_speed_hz == SetSpeed("spi") \/ DividesByZero("spi")

bcm2835_i2c_set_baudrate == SetSpeed("i2c") \/ DividesByZero("i2c")

Limited(speed_hz) ==
  IF speed_hz < AUX_CLOCK_MIN THEN AUX_CLOCK_MIN
  ELSE IF speed_hz > AUX_CLOCK_MAX THEN AUX_CLOCK_MAX ELSE speed_hz

mutDIV_ROUND_UP(n, d) == n \div d

DIV_ROUND_UP(n, d) == (n + d - 1) \div d

CalcClockDivider(speed_hz) ==
  LET divider == (DIV_ROUND_UP(CORE_CLK_HZ, 2 * speed_hz) - 1) % DIVIDERS
  IN  IF divider > AUX_SPEED_MAX THEN AUX_SPEED_MAX ELSE divider

bcm2835_aux_spi_CalcClockDivider ==
  \E speed_hz \in Speed : Set("aux", speed_hz, CalcClockDivider(Limited(speed_hz)))

ClockNext ==
  /\ clk.of # "killed"
  /\ \/ bcm2835_spi_set_speed_hz
     \/ bcm2835_i2c_set_baudrate
     \/ bcm2835_aux_spi_CalcClockDivider

-----------------------------------------------------------------------------
(* Properties *)

(* How many cycles of the core clock make one of the bus.                  *)
Cycles ==
  IF clk.of = "aux" THEN 2 * (clk.divider + 1)
  ELSE IF clk.divider # 0 THEN clk.divider
  ELSE IF clk.of = "spi" THEN DIVIDERS ELSE I2C_DIVIDER

(* bcm2835.c:739-744, 1278-1284, 969-988: the auxiliary SPI is never       *)
(* faster than asked for, but for speeds below its slowest, zero included. *)
(* The others are never slower and at most one cycle of the core faster,   *)
(* but for zero, which they divide by, for speeds so low that the divider  *)
(* is cut to 16 bits, and so high that it becomes zero, which stands for   *)
(* the slowest.                                                            *)
SpeedIsHeld ==
  LET wanted == CORE_CLK_HZ \div clk.asked
  IN  /\ clk.of = "aux" =>
           \/ Cycles * clk.asked >= CORE_CLK_HZ
           \/ 2 * (AUX_SPEED_MAX + 1) * clk.asked < CORE_CLK_HZ
      /\ clk.of \in {"spi", "i2c"} /\ clk.asked # 0 /\ wanted \in 2 .. DIVIDERS - 1 =>
           Cycles \in {wanted - 1, wanted}
=============================================================================

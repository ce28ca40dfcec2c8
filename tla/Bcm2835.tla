-------------------------------- MODULE Bcm2835 -------------------------------
(***************************************************************************)
(* The peripherals of bcm2835.c beside the pins: a program that uses one   *)
(* of them.  They share no registers and no state of the library, so that  *)
(* what one does is independent of the others.                             *)
(***************************************************************************)
EXTENDS I2c, Spi0, AuxSpi, SysTimer, ClockDividers

VARIABLE unit \* the peripheral the program uses

Unit == {"i2c", "spi", "aux", "timer", "clock"}
unitVars == <<i2cVars, spiVars, auxVars, timerVars, clk, unit>>

BcmTypeOK ==
  /\ unit \in Unit
  /\ I2cTypeOK /\ SpiTypeOK /\ AuxTypeOK /\ TimerTypeOK /\ ClockTypeOK

(* The timer of a program that does not use it stands still.               *)
BcmInit ==
  /\ unit \in Unit
  /\ I2cInit /\ SpiInit /\ AuxInit /\ TimerInit /\ ClockInit
  /\ unit # "timer" => clock = 0 /\ timer.mapped

UseI2c ==
  /\ unit = "i2c" /\ I2cNext
  /\ UNCHANGED <<spiVars, auxVars, timerVars, clk, unit>>

UseSpi ==
  /\ unit = "spi" /\ SpiNext
  /\ UNCHANGED <<i2cVars, auxVars, timerVars, clk, unit>>

UseAux ==
  /\ unit = "aux" /\ AuxNext
  /\ UNCHANGED <<i2cVars, spiVars, timerVars, clk, unit>>

UseTimer ==
  /\ unit = "timer" /\ TimerNext
  /\ UNCHANGED <<i2cVars, spiVars, auxVars, clk, unit>>

UseClock ==
  /\ unit = "clock" /\ ClockNext
  /\ UNCHANGED <<i2cVars, spiVars, auxVars, timerVars, unit>>

BcmNext == UseI2c \/ UseSpi \/ UseAux \/ UseTimer \/ UseClock

BcmSpec == BcmInit /\ [][BcmNext]_unitVars

(* The fairness of each peripheral: a started call goes on, and so does    *)
(* its controller.                                                         *)
BcmFairSpec == BcmSpec /\ I2cFairness /\ SpiFairness /\ AuxFairness

-----------------------------------------------------------------------------
(* Properties *)

(* bcm2835.c:1287-1623: an I2C call says OK only with its buffer filled,   *)
(* and, if it found the bus idle, only of a complete transfer of its own;  *)
(* such a call returns early only when it missed the end of the write.     *)
I2cIsTrue == OkIsComplete /\ EarlyReturnExplained

(* bcm2835.c:754-934, 997-1200: both SPI controllers send the bytes of the *)
(* call, and give it their answers; see Spi0 and AuxSpi.                   *)
BytesExchanged == SpiExchanges /\ AuxExchanges

(* bcm2835.c:534-569, 1638-1656: the timer is read at one moment, and a    *)
(* delay is not too short; see SysTimer.                                   *)
TimerIsTrue == ReadIsAMoment /\ DelayLastsLongEnough

(* bcm2835.c:754-934, 997-1200, 1287-1623: calls return, with the          *)
(* exceptions that I2cReturns and AuxReturns name.                         *)
CallsReturn == I2cReturns /\ SpiReturns /\ AuxReturns
=============================================================================

------------------------------ MODULE CarControl ------------------------------
(***************************************************************************)
(* The life of the process around the motors: main() from car_init to      *)
(* car_release, package_proc turning packages into the register writes of  *)
(* car.c, and signal_handler, which may run between any two of them and    *)
(* unmaps the registers.                                                   *)
(*                                                                         *)
(* One action is one access to a register.  Which packages arrive is left  *)
(* open; a speed is an int16 as it stands in the package.                  *)
(***************************************************************************)
EXTENDS Integers

CONSTANTS
  Speed,     \* the int16 speeds a package may carry
  U32,       \* 2^32: what converting a negative speed to uint32_t adds
  PWM_RANGE, \* the range car_init gives to bcm2835_pwm_set_range
  MaxBatch   \* bound: packages that one call of sctx__on_read parses

ASSUME CarAssumption ==
  /\ Speed \subseteq Int
  /\ U32 \in Nat \ {0} /\ \A s \in Speed : -U32 < s /\ s < U32
  /\ PWM_RANGE \in Nat /\ PWM_RANGE < U32
  /\ MaxBatch \in Nat \ {0}

(* The four direction pins, in the order car.c writes them. *)
LPIN0 == 1
LPIN1 == 2
RPIN0 == 3
RPIN1 == 4
Pin == {LPIN0, LPIN1, RPIN0, RPIN1}
Low == 0
High == 1

(* The PWM channels of the pins that enable the left and the right motor,  *)
(* LEN on P1-35 and REN on P1-12.                                          *)
Channel == [LEN |-> 1, REN |-> 0]

VARIABLES
  maps,    \* register blocks of the BCM2835 that are mapped
  state_,  \* car.c; a static of type enum car_state
  pins,    \* levels of the direction pins; they outlive a process
  data,    \* data registers of the PWM channels, likewise
  sctx_,   \* the server context: "null" or "live"
  active_, \* sctx_->active_
  pc,      \* where the main thread stands
  cmd,     \* the command whose registers are being written, its speeds
  step,    \* the next of its register writes
  batch,   \* packages sctx__on_read still has to hand to package_proc
  opened,  \* history: bcm2835_init returned 1
  signals, \* history: a signal was handled
  last     \* history: the last command that was carried out

hardware == <<pins, data>>
command == <<cmd, step>>
history == <<opened, signals, last>>
vars == <<maps, state_, hardware, sctx_, active_, pc, command, batch, history>>

Kind == {"forward", "backward", "stop"}
NoCmd == [kind |-> "none", speed |-> <<0, 0>>]
Cmd == [kind : Kind, speed : (0..(U32 - 1)) \X (0..(U32 - 1))] \cup {NoCmd}

(* What bcm2835_init has mapped when it returns: all blocks for root, only *)
(* GPIO for other users; nothing when it fails, and then it returns 0.     *)
bcm2835_init == {{}, {"gpio"}, {"gpio", "pwm"}}

Ended == {"exit", "crashed", "aborted"}

TypeOK ==
  /\ maps \in bcm2835_init
  /\ state_ \in Kind
  /\ pins \in [Pin -> {Low, High}]
  /\ data \in [{0, 1} -> 0..(U32 - 1)]
  /\ sctx_ \in {"null", "live"}
  /\ active_ \in BOOLEAN
  /\ pc \in {"init", "create", "poll", "package", "gpio", "pwm", "store",
             "release"} \cup Ended
  /\ cmd \in Cmd
  /\ step \in 0..4
  /\ batch \in 0..MaxBatch
  /\ opened \in BOOLEAN /\ signals \in BOOLEAN
  /\ last \in Cmd

(* The registers hold what an earlier process left in them; state_ is zero.*)
Init ==
  /\ maps = {}
  /\ state_ = "forward"
  /\ pins \in [Pin -> {Low, High}]
  /\ data \in [{0, 1} -> {0, PWM_RANGE}]
  /\ sctx_ = "null" /\ active_ = FALSE
  /\ pc = "init"
  /\ cmd = NoCmd /\ step = 0 /\ batch = 0
  /\ opened = FALSE /\ signals = FALSE /\ last = NoCmd

-----------------------------------------------------------------------------
(* Starting *)

mutCarInitUnchecked ==
  /\ pc = "init"
  /\ maps' \in bcm2835_init
  /\ opened' = TRUE
  /\ state_' = "stop"
  /\ pc' = "create"
  /\ UNCHANGED <<hardware, sctx_, active_, command, batch, signals, last>>

(* What else it writes to the registers is left out.  main does not look   *)
(* at what it returns.                                                     *)
car_init ==
  /\ pc = "init"
  /\ maps' \in bcm2835_init
  /\ opened' = (maps' # {})
  /\ state_' = IF maps' # {} THEN "stop" ELSE state_
  /\ pc' = "create"
  /\ UNCHANGED <<hardware, sctx_, active_, command, batch, signals, last>>

(* server_context_create may fail, and so may socketpair after it.         *)
Create ==
  /\ pc = "create"
  /\ \/ sctx_' = "null" /\ active_' = FALSE /\ pc' = "release"
     \/ sctx_' = "live" /\ active_' = TRUE /\ pc' \in {"poll", "release"}
  /\ UNCHANGED <<maps, state_, hardware, command, batch, history>>

-----------------------------------------------------------------------------
(* The main loop and package_proc *)

Poll ==
  /\ pc = "poll" /\ active_
  /\ batch' \in 1..MaxBatch
  /\ pc' = "package"
  /\ UNCHANGED <<maps, state_, hardware, sctx_, active_, command, history>>

(* (uint32_t)ibstream_read_int16(ibs); max(ls, 0) changes nothing. *)
ToU32(s) == IF s < 0 THEN s + U32 ELSE s

Start(kind, ls, rs) ==
  /\ pc = "package" /\ batch > 0
  /\ cmd' = [kind |-> kind, speed |-> <<ToU32(ls), ToU32(rs)>>]
  /\ step' = 1 /\ pc' = "gpio"
  /\ UNCHANGED <<maps, state_, hardware, sctx_, active_, batch, history>>

car_forward(ls, rs) == state_ # "backward" /\ Start("forward", ls, rs)
car_backward(ls, rs) == state_ # "forward" /\ Start("backward", ls, rs)

car_stop == Start("stop", 0, 0)

(* The early returns of car_forward and car_backward. *)
Ignored(kind) ==
  /\ pc = "package" /\ batch > 0
  /\ <<kind, state_>> \in {<<"forward", "backward">>, <<"backward", "forward">>}
  /\ batch' = batch - 1
  /\ UNCHANGED <<maps, state_, hardware, sctx_, active_, pc, command, history>>

(* The camera packages and unknown ids do not touch the motors. *)
OtherPackage ==
  /\ pc = "package" /\ batch > 0
  /\ batch' = batch - 1
  /\ UNCHANGED <<maps, state_, hardware, sctx_, active_, pc, command, history>>

(* A body too short for two speeds trips the assert(0) of ibstream_read.   *)
ShortBody ==
  /\ pc = "package" /\ batch > 0
  /\ pc' = "aborted"
  /\ UNCHANGED <<maps, state_, hardware, sctx_, active_, command, batch, history>>

BatchDone ==
  /\ pc = "package" /\ batch = 0
  /\ pc' = "poll"
  /\ UNCHANGED <<maps, state_, hardware, sctx_, active_, command, batch, history>>

-----------------------------------------------------------------------------
(* The register writes of a command *)

Levels(kind) ==
  CASE kind = "forward" -> <<High, Low, Low, High>>
    [] kind = "backward" -> <<Low, High, High, Low>>
    [] OTHER -> <<Low, Low, Low, Low>>

(* The command is complete: back to the packages. *)
Complete ==
  /\ pc' = "package" /\ batch' = batch - 1
  /\ last' = cmd /\ cmd' = NoCmd /\ step' = 0

Crash ==
  /\ pc' = "crashed"
  /\ UNCHANGED <<maps, state_, hardware, sctx_, active_, command, batch, history>>

mutGpioWriteHighFirst ==
  LET order == IF cmd.kind = "backward" THEN <<2, 3, 1, 4>> ELSE <<1, 4, 2, 3>>
  IN  /\ pc = "gpio" /\ "gpio" \in maps
      /\ pins' = [pins EXCEPT ![order[step]] = Levels(cmd.kind)[order[step]]]
      /\ \/ step < 4 /\ step' = step + 1 /\ UNCHANGED <<pc, cmd, batch, last>>
         \/ step = 4 /\ cmd.kind # "stop" /\ pc' = "pwm" /\ step' = 0
              /\ UNCHANGED <<cmd, batch, last>>
         \/ step = 4 /\ cmd.kind = "stop" /\ Complete
      /\ UNCHANGED <<maps, state_, data, sctx_, active_, opened, signals>>

mutGpioWriteSkipsLast ==
  /\ pc = "gpio" /\ "gpio" \in maps
  /\ pins' = [pins EXCEPT ![step] = Levels(cmd.kind)[step]]
  /\ \/ step < 3 /\ step' = step + 1 /\ UNCHANGED <<pc, cmd, batch, last>>
     \/ step = 3 /\ cmd.kind # "stop" /\ pc' = "pwm" /\ step' = 0 /\ UNCHANGED <<cmd, batch, last>>
     \/ step = 3 /\ cmd.kind = "stop" /\ Complete
  /\ UNCHANGED <<maps, state_, data, sctx_, active_, opened, signals>>

(* bcm2835_gpio_write; after the four pins, car_stop is done. *)
GpioWrite ==
  /\ pc = "gpio" /\ "gpio" \in maps
  /\ pins' = [pins EXCEPT ![step] = Levels(cmd.kind)[step]]
  /\ \/ step < 4 /\ step' = step + 1 /\ UNCHANGED <<pc, cmd, batch, last>>
     \/ step = 4 /\ cmd.kind # "stop" /\ pc' = "pwm" /\ step' = 0 /\ UNCHANGED <<cmd, batch, last>>
     \/ step = 4 /\ cmd.kind = "stop" /\ Complete
  /\ UNCHANGED <<maps, state_, data, sctx_, active_, opened, signals>>

(* It writes through bcm2835_gpio without looking whether it is mapped.    *)
GpioFault == pc = "gpio" /\ "gpio" \notin maps /\ Crash

(* After a PWM channel, the other one or the end of the command.           *)
NextChannel ==
  \/ step = 0 /\ step' = 1 /\ pc' = "pwm" /\ UNCHANGED <<cmd, batch, last>>
  \/ step = 1 /\ Complete

(* bcm2835_pwm_set_data looks whether the registers are mapped, ...        *)
PwmSkip ==
  /\ pc = "pwm" /\ "pwm" \notin maps
  /\ NextChannel
  /\ UNCHANGED <<maps, state_, hardware, sctx_, active_, opened, signals>>

PwmCheck ==
  /\ pc = "pwm" /\ "pwm" \in maps
  /\ pc' = "store"
  /\ UNCHANGED <<maps, state_, hardware, sctx_, active_, command, batch, history>>

(* ... and then writes.                                                    *)
PwmStore ==
  /\ pc = "store" /\ "pwm" \in maps
  /\ data' = [data EXCEPT ![step] = cmd.speed[step + 1]]
  /\ NextChannel
  /\ UNCHANGED <<maps, state_, pins, sctx_, active_, opened, signals>>

PwmFault == pc = "store" /\ "pwm" \notin maps /\ Crash

-----------------------------------------------------------------------------
(* Ending *)

LoopEnds ==
  /\ pc = "poll" /\ ~active_
  /\ pc' = "release"
  /\ UNCHANGED <<maps, state_, hardware, sctx_, active_, command, batch, history>>

(* bcm2835_close; it does not matter that signal_handler called it before. *)
car_release ==
  /\ pc = "release"
  /\ maps' = {}
  /\ pc' = "exit"
  /\ UNCHANGED <<state_, hardware, sctx_, active_, command, batch, history>>

mutHandlerOnlyReleases ==
  /\ pc \notin Ended /\ sctx_ # "null"
  /\ maps' = {} /\ signals' = TRUE
  /\ UNCHANGED <<state_, hardware, sctx_, active_, pc, command, batch, opened, last>>

(* SIGINT or SIGTERM.  Before server_context_create has returned, or when  *)
(* it failed, sctx_ is a null pointer.                                     *)
signal_handler ==
  /\ pc \notin Ended /\ sctx_ # "null"
  /\ active_' = FALSE /\ maps' = {} /\ signals' = TRUE
  /\ UNCHANGED <<state_, hardware, sctx_, pc, command, batch, opened, last>>

HandlerFault == pc \notin Ended /\ sctx_ = "null" /\ Crash

-----------------------------------------------------------------------------
package_proc ==
  \/ \E ls, rs \in Speed : car_forward(ls, rs)
  \/ \E ls, rs \in Speed : car_backward(ls, rs)
  \/ car_stop
  \/ \E kind \in {"forward", "backward"} : Ignored(kind)
  \/ OtherPackage
  \/ ShortBody

Main ==
  \/ car_init \/ Create \/ Poll \/ package_proc \/ BatchDone
  \/ GpioWrite \/ GpioFault \/ PwmSkip \/ PwmCheck \/ PwmStore \/ PwmFault
  \/ LoopEnds \/ car_release

Next == Main \/ signal_handler \/ HandlerFault

Spec == Init /\ [][Next]_vars

(* The main thread runs whenever it can: select has a timeout.             *)
FairSpec == Spec /\ WF_vars(Main)

-----------------------------------------------------------------------------
(* Properties *)

(* car.c:56-93: between two commands, the direction pins are those of the  *)
(* last command that was carried out, all four of them, whatever was       *)
(* interrupted, ignored or left in the registers before; in particular a   *)
(* stop is a stop.                                                         *)
PinsShowLastCommand ==
  pc \in {"poll", "package", "release", "exit"} /\ last # NoCmd
    => \A p \in Pin : pins[p] = Levels(last.kind)[p]

(* car.c:64-67, 80-83: the order of the four writes; once this process has *)
(* set the pins, reversing never drives both inputs of both motors high,   *)
(* not even between two writes.                                            *)
NeverBothBraked ==
  last # NoCmd => \E p \in {LPIN0, RPIN0} : pins[p] = Low \/ pins[p + 1] = Low

(* main.c:46, 87-90, car.c:28: the process only crashes for one of three   *)
(* reasons: bcm2835_init failed, a signal has unmapped the registers under *)
(* a command, or a signal came while sctx_ is null.                        *)
CrashHasCause == pc = "crashed" => ~opened \/ signals \/ sctx_ = "null"

(* car.c:57-59, 73-75: a drive command is only ignored when car_init       *)
(* failed: nothing but car_init sets state_, so the check for the opposite *)
(* direction never stops a command of a car that was initialised.          *)
IgnoredOnlyUnopened ==
  [][(\E kind \in {"forward", "backward"} : Ignored(kind)) => ~opened]_vars

(* car.c:64-69, 80-85: a speed only reaches its motor when all four pins   *)
(* show the direction it was sent with: a fast reverse is never driven     *)
(* forward, even for a moment.                                             *)
NewSpeedNewDirection ==
  [][data' # data => \A p \in Pin : pins[p] = Levels(cmd.kind)[p]]_vars

(* main.c:72, 87-90: a signal handled by a running server ends the process,*)
(* after at most the packages that were being parsed.                      *)
SignalEnds == signals ~> pc \in Ended

(* bcm2835.h:895, 929, "P1-12, can be PWM channel 0", "P1-35, can be PWM   *)
(* channel 1": after a drive command the enable pin of each motor, by its  *)
(* name in car.c, carries the speed of that motor.                         *)
SpeedsOnTheirPins ==
  pc \in {"poll", "package"} /\ last.kind \in {"forward", "backward"} /\ "pwm" \in maps
    => data[Channel.LEN] = last.speed[1] /\ data[Channel.REN] = last.speed[2]

(* bcm2835.h:1977-1982, data "Can vary from 0 to RANGE".                   *)
DataInRange == \A ch \in {0, 1} : data[ch] <= PWM_RANGE
=============================================================================

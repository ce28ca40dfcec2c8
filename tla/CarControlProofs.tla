--------------------------- MODULE CarControlProofs ---------------------------
(***************************************************************************)
(* Theorems about CarControl, for every set of speeds, every width, every  *)
(* range and every batch of packages.                                      *)
(*                                                                         *)
(* The safety properties are about states between two commands, or about   *)
(* one register write.  Inv adds what is true in the middle of a command:  *)
(* the pins written so far are those of the command, the others those of   *)
(* the command before it (Written), and who unmapped what (Mapped).        *)
(***************************************************************************)
EXTENDS CarControl, TLAPS

AllShow(kind) == \A p \in Pin : pins[p] = Levels(kind)[p]

(* In the middle of a command. *)
Written ==
  /\ pc = "gpio" =>
       /\ cmd.kind \in Kind /\ cmd # NoCmd /\ step \in 1..4 /\ batch > 0
       /\ \A p \in Pin : p < step => pins[p] = Levels(cmd.kind)[p]
       /\ last # NoCmd => \A p \in Pin : p >= step => pins[p] = Levels(last.kind)[p]
  /\ pc \in {"pwm", "store"} =>
       /\ cmd.kind \in {"forward", "backward"} /\ cmd # NoCmd
       /\ step \in {0, 1} /\ batch > 0
       /\ AllShow(cmd.kind)

(* Between two commands, and once the process has ended in the middle of   *)
(* one.                                                                    *)
Shown ==
  /\ pc \in {"init", "create", "poll", "package", "release", "exit", "aborted"}
       /\ last # NoCmd => AllShow(last.kind)
  /\ last # NoCmd => \E p \in {LPIN0, RPIN0} : pins[p] = Low \/ pins[p + 1] = Low

(* Why the registers may not be mapped. *)
Mapped ==
  /\ pc = "init" => sctx_ = "null" /\ ~signals
  /\ sctx_ = "live" => pc \notin {"init", "create"}
  /\ pc \in {"poll", "package", "gpio", "pwm", "store"}
       => "gpio" \in maps \/ ~opened \/ signals
  /\ pc = "store" => "pwm" \in maps \/ signals
  /\ pc = "create" => "gpio" \in maps \/ ~opened
  /\ opened => state_ = "stop"
  /\ pc = "init" => ~opened

Inv == TypeOK /\ Written /\ Shown /\ Mapped /\ CrashHasCause

-----------------------------------------------------------------------------

(* A speed as car_forward and car_backward get it. *)
LEMMA ToU32Type == \A s \in Speed \cup {0} : ToU32(s) \in 0..(U32 - 1)
<1> SUFFICES ASSUME NEW s \in Speed \cup {0} PROVE ToU32(s) \in 0..(U32 - 1)
  OBVIOUS
<1>1. s \in Int /\ U32 \in Nat /\ -U32 < s /\ s < U32
  BY CarAssumption
<1> QED BY <1>1 DEF ToU32

LEMMA LevelsType ==
  ASSUME NEW kind, NEW p \in Pin PROVE Levels(kind)[p] \in {Low, High}
<1> USE DEF Levels, Pin, LPIN0, LPIN1, RPIN0, RPIN1, Low, High
<1>1. CASE kind = "forward"
  BY <1>1
<1>2. CASE kind = "backward"
  BY <1>2
<1>3. CASE kind \notin {"forward", "backward"}
  BY <1>3
<1> QED BY <1>1, <1>2, <1>3

(* The registers that car_init finds or leaves mapped. *)
LEMMA MapsType == {} \in bcm2835_init
BY DEF bcm2835_init

LEMMA NoCmdIsNone == NoCmd \in Cmd /\ NoCmd.kind \notin Kind
BY DEF NoCmd, Cmd, Kind

LEMMA InitInv == Init => Inv
<1> SUFFICES ASSUME Init PROVE Inv
  OBVIOUS
<1>1. TypeOK
  <2>1. data \in [{0, 1} -> 0..(U32 - 1)] /\ step \in 0..4 /\ batch \in 0..MaxBatch
    BY CarAssumption DEF Init
  <2>2. active_ \in BOOLEAN /\ opened \in BOOLEAN /\ signals \in BOOLEAN
    BY Zenon DEF Init
  <2> QED BY <2>1, <2>2, NoCmdIsNone, MapsType DEF Init, TypeOK, Kind
<1> QED
  BY <1>1 DEF Init, Inv, Written, Shown, Mapped, CrashHasCause

LEMMA CarInitInv == ASSUME Inv, car_init PROVE Inv'
<1>1. TypeOK'
  <2>1. opened' \in BOOLEAN
    BY Zenon DEF car_init
  <2>2. active_' \in BOOLEAN /\ signals' \in BOOLEAN
    BY DEF Inv, TypeOK, car_init
  <2> QED BY <2>1, <2>2 DEF Inv, TypeOK, car_init, hardware, command, Kind
<1>2. (Written /\ Shown /\ CrashHasCause)'
  BY DEF Inv, TypeOK, Written, Shown, CrashHasCause, AllShow, car_init, hardware, command
<1>3. Mapped'
  BY DEF Inv, Mapped, car_init, bcm2835_init
<1> QED BY <1>1, <1>2, <1>3 DEF Inv

(* The steps of main and package_proc that write no register. *)
LEMMA QuietInv ==
  ASSUME Inv,
         \/ Create \/ Poll \/ OtherPackage \/ ShortBody \/ BatchDone \/ LoopEnds
         \/ \E kind \in {"forward", "backward"} : Ignored(kind)
  PROVE  Inv'
<1> USE DEF Create, Poll, OtherPackage, ShortBody, BatchDone, LoopEnds, Ignored,
        hardware, command, history
<1>1. TypeOK'
  <2>1. batch' \in 0..MaxBatch
    BY CarAssumption DEF Inv, TypeOK
  <2>2. active_' \in BOOLEAN /\ opened' \in BOOLEAN /\ signals' \in BOOLEAN
    BY Zenon DEF Inv, TypeOK
  <2> QED BY <2>1, <2>2 DEF Inv, TypeOK, Ended
<1>2. (Written /\ Shown)'
  BY DEF Inv, Written, Shown, AllShow
<1>3. (Mapped /\ CrashHasCause)'
  BY DEF Inv, Mapped, CrashHasCause
<1> QED BY <1>1, <1>2, <1>3 DEF Inv

LEMMA StartInv ==
  ASSUME Inv, NEW kind \in Kind, NEW ls \in Speed \cup {0}, NEW rs \in Speed \cup {0},
         Start(kind, ls, rs)
  PROVE  Inv'
<1>2. cmd' \in Cmd /\ cmd'.kind = kind /\ cmd' # NoCmd
  BY ToU32Type, NoCmdIsNone DEF Start, Cmd
<1>3. TypeOK'
  <2>1. cmd' \in Cmd /\ step' \in 0..4 /\ pc' = "gpio"
    BY <1>2 DEF Start
  <2> QED BY <2>1 DEF Inv, TypeOK, Start, hardware, history
<1>4. Written'
  BY <1>2 DEF Inv, Start, TypeOK, Written, Shown, AllShow, hardware, history, Pin,
              LPIN0, LPIN1, RPIN0, RPIN1
<1>5. (Shown /\ Mapped /\ CrashHasCause)'
  BY DEF Inv, Start, Shown, Mapped, CrashHasCause, AllShow, hardware, history
<1> QED BY <1>3, <1>4, <1>5 DEF Inv

-----------------------------------------------------------------------------
(* The register writes *)

LEMMA GpioWriteInv == ASSUME Inv, GpioWrite PROVE Inv'
<1>1. /\ pc = "gpio" /\ cmd.kind \in Kind /\ step \in 1..4 /\ batch \in 1..MaxBatch
      /\ batch - 1 \in 0..MaxBatch /\ pins \in [Pin -> {Low, High}]
  BY CarAssumption DEF Inv, TypeOK, Written, GpioWrite
<1>2. pins' = [pins EXCEPT ![step] = Levels(cmd.kind)[step]]
  BY DEF GpioWrite
<1>3. pins' \in [Pin -> {Low, High}]
  BY <1>1, <1>2, LevelsType DEF Pin, LPIN0, LPIN1, RPIN0, RPIN1
<1>4. \A p \in Pin : p <= step => pins'[p] = Levels(cmd.kind)[p]
  BY <1>1, <1>2 DEF Inv, Written, Pin, LPIN0, LPIN1, RPIN0, RPIN1
<1>5. \A p \in Pin : p > step => pins'[p] = pins[p]
  BY <1>1, <1>2 DEF Pin, LPIN0, LPIN1, RPIN0, RPIN1
<1>6. TypeOK'
  BY <1>1, <1>3, NoCmdIsNone DEF Inv, TypeOK, GpioWrite, Complete
<1>7. Written'
  BY <1>1, <1>4, <1>5 DEF Inv, Written, AllShow, Kind, GpioWrite, Complete, Pin,
     LPIN0, LPIN1, RPIN0, RPIN1
<1>8. Shown'
  <2>1. pc' = "package" => \A p \in Pin : pins'[p] = Levels(last'.kind)[p]
    <3> SUFFICES ASSUME pc' = "package" PROVE last' = cmd /\ step = 4
      BY <1>4 DEF Pin, LPIN0, LPIN1, RPIN0, RPIN1
    <3> QED BY <1>1 DEF GpioWrite, Complete
  <2>2. pc' \in {"gpio", "pwm", "package"}
    BY <1>1 DEF GpioWrite, Complete
  <2>3. last' # NoCmd => \E p \in {LPIN0, RPIN0} : pins'[p] = Low \/ pins'[p + 1] = Low
    <3>1. CASE step < 4
      <4> SUFFICES ASSUME last # NoCmd
                   PROVE  \E p \in {LPIN0, RPIN0} : pins'[p] = Low \/ pins'[p + 1] = Low
        BY <3>1 DEF GpioWrite
      <4>1. last.kind \in Kind
        BY DEF Inv, TypeOK, Cmd
      <4>2. \A p \in Pin : p > step => pins'[p] = Levels(last.kind)[p]
        BY <1>1, <1>5 DEF Inv, Written, Pin, LPIN0, LPIN1, RPIN0, RPIN1
      <4> QED
        BY <1>1, <1>4, <4>1, <4>2 DEF Levels, Kind, Pin, LPIN0, LPIN1, RPIN0, RPIN1, Low, High
    <3>2. CASE step = 4
      BY <1>1, <1>4, <3>2 DEF Levels, Kind, Pin, LPIN0, LPIN1, RPIN0, RPIN1, Low, High
    <3> QED BY <1>1, <3>1, <3>2
  <2> QED BY <1>1, <2>1, <2>2, <2>3 DEF Shown, AllShow
<1>9. (Mapped /\ CrashHasCause)'
  BY <1>1 DEF Inv, Mapped, CrashHasCause, GpioWrite, Complete
<1> QED BY <1>6, <1>7, <1>8, <1>9 DEF Inv

(* What a PWM step does to everything but the data registers. *)
LEMMA NextChannelInv ==
  ASSUME Inv, pc \in {"pwm", "store"}, NextChannel,
         data' \in [{0, 1} -> 0..(U32 - 1)],
         UNCHANGED <<maps, state_, pins, sctx_, active_, opened, signals>>
  PROVE  Inv'
<1>1. /\ cmd.kind \in Kind /\ cmd # NoCmd /\ AllShow(cmd.kind)
      /\ batch - 1 \in 0..MaxBatch /\ step \in {0, 1}
  BY CarAssumption DEF Inv, TypeOK, Written, Kind
<1>2. TypeOK'
  BY <1>1, NoCmdIsNone DEF Inv, TypeOK, NextChannel, Complete
<1>3. Written'
  BY <1>1 DEF Inv, Written, AllShow, NextChannel, Complete
<1>4. Shown'
  <2>1. \E p \in {LPIN0, RPIN0} : pins[p] = Low \/ pins[p + 1] = Low
    BY <1>1 DEF AllShow, Levels, Kind, Pin, LPIN0, LPIN1, RPIN0, RPIN1, Low, High
  <2> QED BY <1>1, <2>1 DEF Inv, Shown, AllShow, NextChannel, Complete
<1>5. (Mapped /\ CrashHasCause)'
  BY DEF Inv, Mapped, CrashHasCause, NextChannel, Complete
<1> QED BY <1>2, <1>3, <1>4, <1>5 DEF Inv

LEMMA PwmInv == ASSUME Inv, PwmSkip \/ PwmCheck \/ PwmStore PROVE Inv'
<1>1. CASE PwmSkip
  BY <1>1, NextChannelInv DEF PwmSkip, hardware, Inv, TypeOK
<1>2. CASE PwmCheck
  BY <1>2 DEF PwmCheck, Inv, TypeOK, Written, Shown, Mapped, CrashHasCause, AllShow,
     hardware, command, history
<1>3. CASE PwmStore
  <2>1. cmd.speed[step + 1] \in 0..(U32 - 1)
    BY <1>3, NoCmdIsNone DEF PwmStore, Inv, TypeOK, Written, Cmd
  <2>2. data' \in [{0, 1} -> 0..(U32 - 1)]
    BY <1>3, <2>1 DEF PwmStore, Inv, TypeOK
  <2> QED BY <1>3, <2>2, NextChannelInv DEF PwmStore
<1> QED BY <1>1, <1>2, <1>3

LEMMA FaultInv ==
  ASSUME Inv, GpioFault \/ PwmFault \/ HandlerFault PROVE Inv'
<1>1. /\ pc' = "crashed"
      /\ UNCHANGED <<maps, state_, hardware, sctx_, active_, command, batch, history>>
  BY DEF GpioFault, PwmFault, HandlerFault, Crash
<1>2. CrashHasCause'
  BY <1>1 DEF GpioFault, PwmFault, HandlerFault, Inv, Mapped, CrashHasCause, history
<1> QED
  BY <1>1, <1>2 DEF Inv, TypeOK, Ended, Written, Shown, Mapped, AllShow, hardware,
     command, history

LEMMA EndInv == ASSUME Inv, car_release \/ signal_handler PROVE Inv'
<1> USE DEF hardware, command, history, car_release, signal_handler
<1>1. TypeOK'
  <2>1. active_' \in BOOLEAN /\ opened' \in BOOLEAN /\ signals' \in BOOLEAN
    BY Zenon DEF Inv, TypeOK
  <2> QED BY <2>1, MapsType DEF Inv, TypeOK, Ended
<1>2. (Written /\ Shown)'
  BY DEF Inv, Written, Shown, AllShow
<1>3. (Mapped /\ CrashHasCause)'
  <2>1. sctx_ \in {"null", "live"}
    BY DEF Inv, TypeOK
  <2> QED BY <2>1 DEF Inv, Mapped, CrashHasCause, Ended
<1> QED BY <1>1, <1>2, <1>3 DEF Inv

-----------------------------------------------------------------------------

LEMMA NextInv == Inv /\ [Next]_vars => Inv'
<1> SUFFICES ASSUME Inv, [Next]_vars PROVE Inv'
  OBVIOUS
<1>1. CASE package_proc
  <2>1. CASE \E ls, rs \in Speed : car_forward(ls, rs) \/ car_backward(ls, rs)
    BY <2>1, StartInv DEF car_forward, car_backward, Kind
  <2>2. CASE car_stop
    BY <2>2, StartInv DEF car_stop, Kind
  <2>3. CASE OtherPackage \/ ShortBody \/ \E kind \in {"forward", "backward"} : Ignored(kind)
    BY <2>3, QuietInv
  <2> QED BY <1>1, <2>1, <2>2, <2>3 DEF package_proc
<1>2. CASE car_init
  BY <1>2, CarInitInv
<1>3. CASE Create \/ Poll \/ BatchDone \/ LoopEnds
  BY <1>3, QuietInv
<1>4. CASE GpioWrite
  BY <1>4, GpioWriteInv
<1>5. CASE PwmSkip \/ PwmCheck \/ PwmStore
  BY <1>5, PwmInv
<1>6. CASE GpioFault \/ PwmFault \/ HandlerFault
  BY <1>6, FaultInv
<1>7. CASE car_release \/ signal_handler
  BY <1>7, EndInv
<1>8. CASE UNCHANGED vars
  BY <1>8 DEF vars, hardware, command, history, Inv, TypeOK, Written, Shown, Mapped,
     CrashHasCause, AllShow
<1> QED BY <1>1, <1>2, <1>3, <1>4, <1>5, <1>6, <1>7, <1>8 DEF Next, Main

LEMMA SpecInv == Spec => []Inv
BY InitInv, NextInv, PTL DEF Spec

(* Types; a speed always fits the uint32_t of car_forward. *)
THEOREM CarTypeOK == Spec => []TypeOK
<1>1. Inv => TypeOK
  BY DEF Inv
<1> QED BY <1>1, SpecInv, PTL

(* car.c:56-93: between two commands the pins show the last one.           *)
THEOREM CarPinsShowLastCommand == Spec => []PinsShowLastCommand
<1>1. Inv => PinsShowLastCommand
  BY DEF Inv, Shown, AllShow, PinsShowLastCommand
<1> QED BY <1>1, SpecInv, PTL

(* car.c:64-67, 80-83: no order of commands brakes both motors at once.    *)
THEOREM CarNeverBothBraked == Spec => []NeverBothBraked
<1>1. Inv => NeverBothBraked
  BY DEF Inv, Shown, NeverBothBraked
<1> QED BY <1>1, SpecInv, PTL

(* main.c:46, 87-90: a crash is the failed init or the signal handler's.   *)
THEOREM CarCrashHasCause == Spec => []CrashHasCause
<1>1. Inv => CrashHasCause
  BY DEF Inv
<1> QED BY <1>1, SpecInv, PTL

(* car.c:57-59, 73-75: the direction check is never met after car_init.    *)
THEOREM CarIgnoredOnlyUnopened == Spec => IgnoredOnlyUnopened
<1>1. Inv /\ [Next]_vars => [(\E kind \in {"forward", "backward"} : Ignored(kind)) => ~opened]_vars
  BY DEF Inv, Mapped, Ignored
<1> QED BY <1>1, SpecInv, PTL DEF IgnoredOnlyUnopened, Spec

(* car.c:64-69, 80-85: a speed is only written under its own direction.    *)
THEOREM CarNewSpeedNewDirection == Spec => NewSpeedNewDirection
<1> DEFINE Dir == data' # data => \A p \in Pin : pins[p] = Levels(cmd.kind)[p]
<1>1. Inv /\ [Next]_vars => [Dir]_vars
  <2> SUFFICES ASSUME Inv, Next, data' # data
               PROVE  \A p \in Pin : pins[p] = Levels(cmd.kind)[p]
    BY DEF vars
  <2>1. PwmStore
    BY DEF Next, Main, car_init, Create, Poll, package_proc, car_forward, car_backward,
       car_stop, Start, Ignored, OtherPackage, ShortBody, BatchDone, GpioWrite, GpioFault,
       PwmSkip, PwmCheck, PwmFault, Crash, LoopEnds, car_release, signal_handler,
       HandlerFault, hardware
  <2> QED BY <2>1 DEF PwmStore, Inv, Written, AllShow
<1> QED BY <1>1, SpecInv, PTL DEF NewSpeedNewDirection, Spec
=============================================================================

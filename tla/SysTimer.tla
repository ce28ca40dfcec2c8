------------------------------- MODULE SysTimer -------------------------------
(***************************************************************************)
(* bcm2835_st_read, bcm2835_st_delay and bcm2835_delayMicroseconds: the    *)
(* system timer is a counter of two words that goes on counting while they *)
(* are read one after the other, and a delay is a sleep that may end       *)
(* early, then a loop of such reads.                                       *)
(***************************************************************************)
EXTENDS Integers

CONSTANTS
  LO,          \* values of the low word: 2^32
  SHORT,       \* longer delays sleep first: 450
  EARLY,       \* and are woken this much too early: 200
  SLEEP_LIMIT, \* nanosleep refuses more: a second
  MaxDelay,    \* bound: a delay
  MaxClock     \* bound: the counter

ASSUME TimerAssumption ==
  /\ LO \in Nat \ {0, 1} /\ SHORT \in Nat /\ EARLY \in 0..SHORT
  /\ SLEEP_LIMIT \in Nat /\ MaxDelay \in Nat
  /\ MaxClock \in Nat /\ LO <= MaxClock \* the low word comes round

VARIABLES
  clock, \* the counter; its words are clock \div LO and clock % LO
  timer  \* the program

timerVars == <<clock, timer>>

Micros == 0..MaxDelay

TimerTypeOK ==
  /\ clock \in 0..MaxClock
  /\ timer.pc \in {"idle", "hi", "lo", "check", "again", "sleep", "test"}
  /\ timer.mapped \in BOOLEAN    \* the registers are: the program runs as root
  /\ timer.called \in 0..MaxClock \* the counter when the delay was called
  /\ timer.begun \in 0..MaxClock  \* and when the last st_read was
  /\ timer.hi \in 0..MaxClock /\ timer.lo \in 0..LO - 1 /\ timer.st \in 0..MaxClock
  /\ timer.start \in -1..MaxClock \* -1: not read yet
  /\ timer.micros \in Micros
  /\ timer.cut \in BOOLEAN        \* a sleep was refused or interrupted

TimerInit ==
  /\ clock \in 0..LO
  /\ \E mapped \in BOOLEAN :
       timer = [pc |-> "idle", mapped |-> mapped, called |-> clock, begun |-> clock,
                hi |-> 0, lo |-> 0, st |-> 0, start |-> -1, micros |-> 0, cut |-> FALSE]

Reading == timer.pc \in {"lo", "check", "again"}

(* The counter goes on, but an st_read is not preempted for so long that   *)
(* the low word comes round: more than an hour.                            *)
Tick ==
  /\ clock < MaxClock /\ (Reading => clock + 1 < timer.begun + LO)
  /\ clock' = clock + 1 /\ UNCHANGED timer

-----------------------------------------------------------------------------
(* bcm2835_st_read *)

TimerAt(pc) == timer.pc = pc
Read(pc, st) == timer' = [timer EXCEPT !.pc = pc, !.st = st] /\ UNCHANGED clock

ReadUnmapped == TimerAt("hi") /\ ~timer.mapped /\ Read("test", 0)

ReadHi ==
  /\ TimerAt("hi") /\ timer.mapped
  /\ timer' = [timer EXCEPT !.pc = "lo", !.hi = clock \div LO, !.begun = clock]
  /\ UNCHANGED clock

ReadLo ==
  /\ TimerAt("lo")
  /\ timer' = [timer EXCEPT !.pc = "check", !.lo = clock % LO]
  /\ UNCHANGED clock

mutTestForgets ==
  TimerAt("check") /\ Read("test", timer.hi * LO + timer.lo)

(* The high word is read again: if it has changed, so is the low one.      *)
TestForOverflow ==
  /\ TimerAt("check")
  /\ \/ clock \div LO = timer.hi /\ Read("test", timer.hi * LO + timer.lo)
     \/ clock \div LO # timer.hi /\ Read("again", (clock \div LO) * LO)

ReadLoAgain == TimerAt("again") /\ Read("test", timer.st + (clock % LO))

bcm2835_st_read == ReadUnmapped \/ ReadHi \/ ReadLo \/ TestForOverflow \/ ReadLoAgain

-----------------------------------------------------------------------------
(* bcm2835_delayMicroseconds *)

Delay ==
  /\ TimerAt("idle")
  /\ \E micros \in Micros :
       timer' = [timer EXCEPT !.pc = "hi", !.micros = micros, !.start = -1,
                              !.called = clock, !.cut = FALSE]
  /\ UNCHANGED clock

(* The first value that is read is the start of the delay.  Zero is taken  *)
(* for registers that are not mapped; otherwise only a long delay sleeps.  *)
DelayStarts ==
  /\ TimerAt("test") /\ timer.start = -1
  /\ timer' = [timer EXCEPT !.start = timer.st,
                            !.pc = IF timer.st = 0 \/ timer.micros > SHORT
                                     THEN "sleep" ELSE "hi"]
  /\ UNCHANGED clock

Asleep == IF timer.start = 0 THEN timer.micros ELSE timer.micros - EARLY
Woken == timer' = [timer EXCEPT !.pc = IF timer.start = 0 THEN "idle" ELSE "hi"]

(* nanosleep returns in time, or at once because it is asked too much, or  *)
(* because a signal comes.                                                 *)
Sleep ==
  /\ TimerAt("sleep") /\ Asleep < SLEEP_LIMIT
  /\ clock' \in clock + Asleep .. MaxClock
  /\ Woken

SleepCut ==
  /\ TimerAt("sleep") /\ UNCHANGED clock
  /\ timer' = [timer EXCEPT !.pc = IF timer.start = 0 THEN "idle" ELSE "hi", !.cut = TRUE]

bcm2835_st_delay ==
  /\ TimerAt("test") /\ timer.start # -1
  /\ timer' = [timer EXCEPT !.pc = IF timer.st < timer.start + timer.micros
                                     THEN "hi" ELSE "idle"]
  /\ UNCHANGED clock

bcm2835_delayMicroseconds ==
  Delay \/ bcm2835_st_read \/ DelayStarts \/ Sleep \/ SleepCut \/ bcm2835_st_delay

TimerNext == bcm2835_delayMicroseconds \/ Tick

-----------------------------------------------------------------------------
(* Properties *)

(* bcm2835.c:1638-1656: the two words are of one moment between the call   *)
(* of st_read and its return, however often the counter goes on between.   *)
ReadIsAMoment ==
  TimerAt("test") /\ timer.mapped => timer.st \in timer.begun .. clock

(* bcm2835.c:534-569: a delay lasts at least as long as was asked for,     *)
(* unless the registers are not mapped, or read as zero, and the sleep is  *)
(* refused or interrupted.                                                 *)
DelayLastsLongEnough ==
  TimerAt("idle") /\ ~(timer.start = 0 /\ timer.cut) =>
    clock >= timer.called + timer.micros
=============================================================================

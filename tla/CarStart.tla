------------------------------- MODULE CarStart -------------------------------
(***************************************************************************)
(* car_init, register by register, in several processes.  main calls it    *)
(* before server_context_create finds that another process has the port,   *)
(* so that a second start works on the registers of the car that is        *)
(* running, and the registers keep what they hold when a process ends.     *)
(*                                                                         *)
(* bcm2835_gpio_fsel and bcm2835_pwm_set_mode read a word, change a field  *)
(* of it and write the word back, which is not atomic: the fields of a     *)
(* word that another process writes in between are lost.                   *)
(***************************************************************************)
EXTENDS Integers, Sequences

CONSTANTS
  Proc,
  MaxStarts \* bound: processes that are started

ASSUME StartAssumption == MaxStarts \in Nat

VARIABLES
  field, \* the function of each pin, and the mode of each PWM channel
  clock, \* the PWM clock: enabled, still busy, its divider set
  range, \* the PWM channels whose range is set
  proc,  \* of each process: its place in car_init and the word it has read
  port,  \* the processes that listen on the port: none or one
  done,  \* history: blocks that are configured since the last disturbance
  starts

vars == <<field, clock, range, proc, port, done, starts>>

(* Ten pins share a word of function select: P1-08, 10, 12 and 35 are GPIO *)
(* 14, 15, 18 and 19, P1-15 and 16 are GPIO 22 and 23.  The two channels   *)
(* share the control word of the PWM.                                      *)
Words == {{"RPIN0", "RPIN1", "REN", "LEN"}, {"LPIN0", "LPIN1"}, {"PWM0", "PWM1"}}
Field == UNION Words
Word(f) == CHOOSE w \in Words : f \in w

Gpio == {"RPIN0", "RPIN1", "REN", "LEN", "LPIN0", "LPIN1"}
Pwm == {"PWM0", "PWM1"}
Wanted(f) ==
  CASE f \in Pwm -> "MARKSPACE" [] f \in {"LEN", "REN"} -> "ALT5" [] OTHER -> "OUTP"

Unread == [f \in {} |-> "reset"]

(* The calls of car_init; bcm2835_pwm_set_clock takes four steps.          *)
fsel(pin) == [op |-> "field", on |-> pin]
set_mode(channel) == [op |-> "field", on |-> channel]
set_range(channel) == [op |-> "range", on |-> channel]
set_clock ==
  <<[op |-> "stop", on |-> "clock"], [op |-> "wait", on |-> "clock"],
    [op |-> "divider", on |-> "clock"], [op |-> "enable", on |-> "clock"]>>

Selects ==
  <<fsel("LPIN0"), fsel("LPIN1"), fsel("RPIN0"), fsel("RPIN1"), fsel("LEN"), fsel("REN")>>
Calls ==
  Selects \o set_clock
    \o <<set_mode("PWM0"), set_mode("PWM1"), set_range("PWM0"), set_range("PWM1")>>

Off == [pc |-> "off", at |-> 1, word |-> Unread, root |-> FALSE, fresh |-> FALSE]

TypeOK ==
  /\ field \in [Field -> {"reset", "OUTP", "ALT5", "MARKSPACE"}]
  /\ clock \in [enabled : BOOLEAN, busy : BOOLEAN, divided : BOOLEAN]
  /\ range \subseteq Pwm
  /\ \A p \in Proc :
       /\ proc[p].pc \in {"off", "init", "create", "serve"}
       /\ proc[p].at \in 1 .. Len(Calls) + 1
       /\ DOMAIN proc[p].word \in {{}} \cup Words
       /\ proc[p].root \in BOOLEAN  \* the PWM registers are mapped as well
       /\ proc[p].fresh \in BOOLEAN \* started after the last disturbance
  /\ port \subseteq Proc /\ done \subseteq {"gpio", "pwm"} /\ starts \in 0..MaxStarts

Init ==
  /\ field = [f \in Field |-> "reset"] /\ range = {}
  /\ clock = [enabled |-> FALSE, busy |-> FALSE, divided |-> FALSE]
  /\ proc = [p \in Proc |-> Off] /\ port = {} /\ done = {} /\ starts = 0

-----------------------------------------------------------------------------
(* car_init *)

At(p, op) ==
  proc[p].pc = "init" /\ proc[p].at <= Len(Calls) /\ Calls[proc[p].at].op = op

(* bcm2835_init: without root only the GPIO registers are mapped.          *)
Start(p) ==
  /\ proc[p].pc = "off" /\ starts < MaxStarts
  /\ \E root \in BOOLEAN :
       proc' = [proc EXCEPT ![p] = [pc |-> "init", at |-> 1, word |-> Unread,
                                    root |-> root, fresh |-> TRUE]]
  /\ starts' = starts + 1
  /\ UNCHANGED <<field, clock, range, port, done>>

Blocks(p) == IF proc[p].root THEN {"gpio", "pwm"} ELSE {"gpio"}

(* To the next call, or out of car_init.  The PWM calls return at once     *)
(* when their registers are not mapped.                                    *)
Goes(p) ==
  LET last == IF proc[p].root THEN Len(Calls) ELSE Len(Selects)
  IN  [proc[p] EXCEPT !.at = @ + 1, !.word = Unread,
                      !.pc = IF proc[p].at = last THEN "create" ELSE "init"]

Step(p) ==
  /\ proc' = [proc EXCEPT ![p] = Goes(p)]
  /\ done' = IF proc'[p].pc = "create" /\ proc[p].fresh THEN done \cup Blocks(p) ELSE done
  /\ UNCHANGED <<port, starts>>

(* Registers may be wrong: until a process that starts now is through.     *)
Disturb(p, next) ==
  /\ done' = {}
  /\ proc' = [q \in Proc |-> [(IF q = p THEN next ELSE proc[q]) EXCEPT !.fresh = FALSE]]

Target(p) == Calls[proc[p].at].on

ReadWord(p) ==
  /\ At(p, "field") /\ proc[p].word = Unread
  /\ proc' = [proc EXCEPT ![p].word = [f \in Word(Target(p)) |-> field[f]]]
  /\ UNCHANGED <<field, clock, range, port, done, starts>>

(* Another field of the word has changed since it was read.                *)
Stale(p) == \E f \in Word(Target(p)) \ {Target(p)} : proc[p].word[f] # field[f]

mutWriteWord(p) ==
  /\ At(p, "field") /\ proc[p].word # Unread
  /\ field' = [f \in Field |-> IF f = Target(p) THEN Wanted(f)
                               ELSE IF f \in Word(Target(p)) THEN "reset" ELSE field[f]]
  /\ Step(p) /\ UNCHANGED <<clock, range>>

WriteWord(p) ==
  /\ At(p, "field") /\ proc[p].word # Unread
  /\ field' = [f \in Field |-> IF f = Target(p) THEN Wanted(f)
                               ELSE IF f \in Word(Target(p)) THEN proc[p].word[f]
                               ELSE field[f]]
  /\ \/ ~Stale(p) /\ Step(p)
     \/ Stale(p) /\ Disturb(p, Goes(p)) /\ UNCHANGED <<port, starts>>
  /\ UNCHANGED <<clock, range>>

StopClock(p) ==
  /\ At(p, "stop") /\ clock' = [clock EXCEPT !.enabled = FALSE]
  /\ Step(p) /\ UNCHANGED <<field, range>>

mutWaitClock(p) ==
  /\ At(p, "wait") /\ clock.busy
  /\ Step(p) /\ UNCHANGED <<field, clock, range>>

(* There is no timeout. *)
WaitClock(p) ==
  /\ At(p, "wait") /\ ~clock.busy
  /\ Step(p) /\ UNCHANGED <<field, clock, range>>

SetDivider(p) ==
  /\ At(p, "divider") /\ clock' = [clock EXCEPT !.divided = TRUE]
  /\ Step(p) /\ UNCHANGED <<field, range>>

EnableClock(p) ==
  /\ At(p, "enable") /\ clock' = [clock EXCEPT !.enabled = TRUE, !.busy = TRUE]
  /\ Step(p) /\ UNCHANGED <<field, range>>

SetRange(p) ==
  /\ At(p, "range") /\ range' = range \cup {Target(p)}
  /\ Step(p) /\ UNCHANGED <<field, clock>>

bcm2835_pwm_set_clock(p) == StopClock(p) \/ WaitClock(p) \/ SetDivider(p) \/ EnableClock(p)

car_init(p) == ReadWord(p) \/ WriteWord(p) \/ bcm2835_pwm_set_clock(p) \/ SetRange(p)

(* The clock stops some time after it was disabled.                        *)
ClockStops ==
  /\ ~clock.enabled /\ clock.busy
  /\ clock' = [clock EXCEPT !.busy = FALSE]
  /\ UNCHANGED <<field, range, proc, port, done, starts>>

-----------------------------------------------------------------------------
(* The rest of main *)

(* bind fails when the port is taken, and may fail otherwise; main then    *)
(* ends, and car_release unmaps the registers but leaves them as they are. *)
Create(p) ==
  /\ proc[p].pc = "create"
  /\ \/ port = {} /\ port' = {p} /\ proc' = [proc EXCEPT ![p].pc = "serve"]
     \/ port' = port /\ proc' = [proc EXCEPT ![p] = Off]
  /\ UNCHANGED <<field, clock, range, done, starts>>

(* A process may end at any time.  Within car_init it leaves the registers *)
(* half configured, with fields it has overwritten by old values.          *)
Ends(p) ==
  /\ proc[p].pc # "off"
  /\ \/ proc[p].pc = "init" /\ Disturb(p, Off)
     \/ proc[p].pc # "init" /\ proc' = [proc EXCEPT ![p] = Off] /\ UNCHANGED done
  /\ port' = port \ {p}
  /\ UNCHANGED <<field, clock, range, starts>>

main(p) == Start(p) \/ car_init(p) \/ Create(p) \/ Ends(p)

Next == ClockStops \/ \E p \in Proc : main(p)

Spec == Init /\ [][Next]_vars

FairSpec == Spec /\ WF_vars(ClockStops) /\ \A p \in Proc : WF_vars(car_init(p))

-----------------------------------------------------------------------------
(* Properties *)

(* car.c:34-48, bcm2835.c:261-298, 1670-1736: once car_init came through,  *)
(* every pin has its function, and the PWM its modes and ranges, also      *)
(* while a second start configures them again under the car that runs; its *)
(* clock is stopped meanwhile, but runs when no process is in car_init.    *)
(* Only two disturbances break this, until the next start comes through: a *)
(* field overwritten with an old value, and an end half way.               *)
Configured ==
  /\ "gpio" \in done => \A f \in Gpio : field[f] = Wanted(f)
  /\ "pwm" \in done =>
       /\ \A f \in Pwm : field[f] = Wanted(f)
       /\ clock.divided /\ range = Pwm
       /\ (\A p \in Proc : proc[p].pc # "init") => clock.enabled

(* bcm2835.c:1677-1685: car_init waits for the clock without a timeout; it *)
(* only waits for ever when another process has enabled it meanwhile.      *)
ClockWaitEnds ==
  \A p \in Proc : At(p, "wait") ~> ~At(p, "wait") \/ clock.enabled
=============================================================================

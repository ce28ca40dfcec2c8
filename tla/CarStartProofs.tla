---------------------------- MODULE CarStartProofs ----------------------------
(***************************************************************************)
(* What car_init has configured stays configured, for any number of        *)
(* processes and of starts.                                                *)
(*                                                                         *)
(* The inductive invariant follows the processes that started after the    *)
(* last disturbance: everything such a process has passed in car_init is   *)
(* made, and stays made, because a write back of a word that is not stale  *)
(* changes one field only.  The PWM clock is the exception: any process    *)
(* may stop it, but then it stands before the call that starts it again.   *)
(***************************************************************************)
EXTENDS CarStart, SequenceTheorems, TLAPS

Mode == {"reset", "OUTP", "ALT5", "MARKSPACE"}
Call == [op : {"field", "range", "stop", "wait", "divider", "enable"},
         on : Field \cup {"clock"}]

(* A word that a process may hold: none, or one of the three. *)
Held == {Unread} \cup UNION {[w -> Mode] : w \in Words}
Process ==
  [pc : {"off", "init", "create", "serve"}, at : 1..15, word : Held,
   root : BOOLEAN, fresh : BOOLEAN]

Shape ==
  /\ field \in [Field -> Mode]
  /\ clock \in [enabled : BOOLEAN, busy : BOOLEAN, divided : BOOLEAN]
  /\ range \subseteq Pwm
  /\ proc \in [Proc -> Process]
  /\ port \subseteq Proc /\ done \subseteq {"gpio", "pwm"} /\ starts \in 0..MaxStarts

(* Where a process may stand, and what it may hold there. *)
Standing ==
  \A p \in Proc :
    /\ proc[p].pc = "init" => proc[p].at <= IF proc[p].root THEN 14 ELSE 6
    /\ proc[p].word # Unread =>
         At(p, "field") /\ proc[p].word \in [Word(Target(p)) -> Mode]

(* The call has had its effect; the one that enables the clock apart. *)
Made(call) ==
  /\ call.op = "field" => field[call.on] = Wanted(call.on)
  /\ call.op = "range" => call.on \in range
  /\ call.op = "divider" => clock.divided

(* The clock runs, or a process will start it before it leaves car_init. *)
Starting(p) == proc[p].pc = "init" /\ proc[p].at \in 8..10
ClockOn == clock.enabled \/ \E p \in Proc : Starting(p)

(* Processes that no disturbance has come upon. *)
Behind ==
  \A p \in Proc : proc[p].fresh =>
    /\ \A k \in 1 .. proc[p].at - 1 : Made(Calls[k])
    /\ proc[p].at > 10 => ClockOn

(* Blocks that are configured. *)
Lasting ==
  /\ "gpio" \in done => \A k \in 1..6 : Made(Calls[k])
  /\ "pwm" \in done => (\A k \in 1..14 : Made(Calls[k])) /\ ClockOn

Inv == Shape /\ Standing /\ Behind /\ Lasting

-----------------------------------------------------------------------------
(* The calls of car_init *)

LEMMA ConcatAt ==
  ASSUME NEW S, NEW s \in Seq(S), NEW t \in Seq(S)
  PROVE  /\ s \o t \in Seq(S) /\ Len(s \o t) = Len(s) + Len(t)
         /\ \A i \in 1..Len(s) : (s \o t)[i] = s[i]
         /\ \A i \in 1..Len(t) : (s \o t)[Len(s) + i] = t[i]
<1>1. Len(s) \in Nat /\ Len(t) \in Nat
  BY LenProperties
<1>2. /\ s \o t \in Seq(S) /\ Len(s \o t) = Len(s) + Len(t)
      /\ \A i \in 1 .. Len(s) + Len(t) :
           (s \o t)[i] = IF i <= Len(s) THEN s[i] ELSE t[i - Len(s)]
  BY ConcatProperties
<1> QED BY <1>1, <1>2

LEMMA CallsAre ==
  /\ Calls \in Seq(Call) /\ Len(Calls) = 14 /\ Len(Selects) = 6
  /\ Calls[1] = fsel("LPIN0") /\ Calls[2] = fsel("LPIN1")
  /\ Calls[3] = fsel("RPIN0") /\ Calls[4] = fsel("RPIN1")
  /\ Calls[5] = fsel("LEN") /\ Calls[6] = fsel("REN")
  /\ Calls[7].op = "stop" /\ Calls[8].op = "wait"
  /\ Calls[9].op = "divider" /\ Calls[10].op = "enable"
  /\ Calls[11] = set_mode("PWM0") /\ Calls[12] = set_mode("PWM1")
  /\ Calls[13] = set_range("PWM0") /\ Calls[14] = set_range("PWM1")
<1> DEFINE last == <<set_mode("PWM0"), set_mode("PWM1"), set_range("PWM0"), set_range("PWM1")>>
           front == Selects \o set_clock
<1>1. Selects \in Seq(Call) /\ set_clock \in Seq(Call) /\ last \in Seq(Call)
  BY DEF Selects, set_clock, fsel, set_mode, set_range, Call, Field, Words
<1>2. Len(Selects) = 6 /\ Len(set_clock) = 4 /\ Len(last) = 4
  BY DEF Selects, set_clock
<1>3. /\ last[1] = set_mode("PWM0") /\ last[2] = set_mode("PWM1")
      /\ last[3] = set_range("PWM0") /\ last[4] = set_range("PWM1")
  OBVIOUS
<1>4. Calls = front \o last
  BY DEF Calls
<1>5. /\ front \in Seq(Call) /\ Len(front) = Len(Selects) + Len(set_clock)
      /\ \A i \in 1..Len(Selects) : front[i] = Selects[i]
      /\ \A i \in 1..Len(set_clock) : front[Len(Selects) + i] = set_clock[i]
  BY <1>1, ConcatAt
<1> HIDE DEF front, last
<1>6. /\ Calls \in Seq(Call) /\ Len(Calls) = Len(front) + Len(last)
      /\ \A i \in 1..Len(front) : Calls[i] = front[i]
      /\ \A i \in 1..Len(last) : Calls[Len(front) + i] = last[i]
  <2>1. front \in Seq(Call)
    BY <1>5
  <2> QED BY <1>1, <1>4, <2>1, ConcatAt
<1>7. Len(front) = 10 /\ Len(Calls) = 14
  BY <1>2, <1>5, <1>6
<1>8. /\ Calls[1] = Selects[1] /\ Calls[2] = Selects[2] /\ Calls[3] = Selects[3]
      /\ Calls[4] = Selects[4] /\ Calls[5] = Selects[5] /\ Calls[6] = Selects[6]
  BY <1>2, <1>5, <1>6, <1>7
<1>9. /\ Calls[6 + 1] = set_clock[1] /\ Calls[6 + 2] = set_clock[2]
      /\ Calls[6 + 3] = set_clock[3] /\ Calls[6 + 4] = set_clock[4]
  BY <1>2, <1>5, <1>6, <1>7
<1>10. /\ Calls[10 + 1] = last[1] /\ Calls[10 + 2] = last[2]
       /\ Calls[10 + 3] = last[3] /\ Calls[10 + 4] = last[4]
  BY <1>2, <1>6, <1>7
<1> QED BY <1>2, <1>3, <1>6, <1>7, <1>8, <1>9, <1>10 DEF Selects, set_clock

(* What each operation is done on. *)
LEMMA CallKinds ==
  \A k \in 1..14 :
    /\ Calls[k].op = "field" <=> k \in 1..6 \cup {11, 12}
    /\ Calls[k].op = "range" <=> k \in {13, 14}
    /\ Calls[k].op = "stop" <=> k = 7
    /\ Calls[k].op = "wait" <=> k = 8
    /\ Calls[k].op = "divider" <=> k = 9
    /\ Calls[k].op = "enable" <=> k = 10
    /\ Calls[k].op = "field" => Calls[k].on \in Field
    /\ Calls[k].op = "range" => Calls[k].on \in Pwm
<1> TAKE k \in 1..14
<1>1. k = 1 \/ k = 2 \/ k = 3 \/ k = 4 \/ k = 5 \/ k = 6 \/ k = 7 \/ k = 8 \/ k = 9
        \/ k = 10 \/ k = 11 \/ k = 12 \/ k = 13 \/ k = 14
  OBVIOUS
<1> QED BY <1>1, CallsAre DEF fsel, set_mode, set_range, Field, Words, Pwm

LEMMA WordOfField == \A f \in Field : Word(f) \in Words /\ f \in Word(f) /\ Word(f) \subseteq Field
BY DEF Field, Word, Words

LEMMA WantedType == \A f \in Field : Wanted(f) \in Mode
BY DEF Wanted, Mode

-----------------------------------------------------------------------------

LEMMA OffType == Off \in Process
BY DEF Off, Process, Held

LEMMA InitInv == Init => Inv
<1> SUFFICES ASSUME Init PROVE Inv
  OBVIOUS
<1>1. Shape
  BY OffType, StartAssumption DEF Init, Shape, Mode
<1>2. Standing /\ Behind /\ Lasting
  BY DEF Init, Off, Standing, Behind, Lasting
<1> QED BY <1>1, <1>2 DEF Inv

(* The last call of a process. *)
LastCall(p) == IF proc[p].root THEN 14 ELSE 6

LEMMA GoesIs ==
  ASSUME NEW p, proc[p] \in Process, proc[p].at \in 1..14
  PROVE  /\ Goes(p) \in Process
         /\ Goes(p).at = proc[p].at + 1 /\ Goes(p).word = Unread
         /\ Goes(p).root = proc[p].root /\ Goes(p).fresh = proc[p].fresh
         /\ Goes(p).pc = IF proc[p].at = LastCall(p) THEN "create" ELSE "init"
<1>1. Goes(p) = [proc[p] EXCEPT !.at = proc[p].at + 1, !.word = Unread,
                   !.pc = IF proc[p].at = LastCall(p) THEN "create" ELSE "init"]
  BY CallsAre DEF Goes, LastCall
<1>2. Unread \in Held
  BY DEF Held
<1> DEFINE next == IF proc[p].at = LastCall(p) THEN "create" ELSE "init"
<1>4. next \in {"off", "init", "create", "serve"} /\ proc[p].at + 1 \in 1..15
  OBVIOUS
<1>5. Goes(p) = [proc[p] EXCEPT !.at = proc[p].at + 1, !.word = Unread, !.pc = next]
  BY <1>1
<1> HIDE DEF next
<1>6. Goes(p) \in Process
  BY <1>2, <1>4, <1>5 DEF Process
<1>7. /\ Goes(p).at = proc[p].at + 1 /\ Goes(p).word = Unread /\ Goes(p).pc = next
      /\ Goes(p).root = proc[p].root /\ Goes(p).fresh = proc[p].fresh
  BY <1>5 DEF Process
<1> QED BY <1>6, <1>7 DEF next

(* After a disturbance nothing is promised but that processes stand well. *)
LEMMA DisturbInv ==
  ASSUME Inv, NEW p \in Proc, NEW next \in Process, Disturb(p, next),
         next.pc = "init" => next.at <= IF next.root THEN 14 ELSE 6,
         next.word = Unread,
         field' \in [Field -> Mode], clock' = clock, range' = range,
         port' \subseteq Proc, starts' = starts
  PROVE  Inv'
<1>1. proc' \in [Proc -> Process]
  BY DEF Inv, Shape, Disturb, Process
<1>2. Shape'
  BY <1>1 DEF Inv, Shape, Disturb
<1>3. \A q \in Proc :
        LET r == IF q = p THEN next ELSE proc[q]
        IN  /\ proc'[q].pc = r.pc /\ proc'[q].at = r.at /\ proc'[q].word = r.word
            /\ proc'[q].root = r.root /\ ~proc'[q].fresh
  BY DEF Inv, Shape, Disturb, Process
<1>4. Standing'
  BY <1>3 DEF Inv, Standing, At, Target
<1>5. Behind' /\ Lasting'
  BY <1>3 DEF Behind, Lasting, Disturb
<1> QED BY <1>2, <1>4, <1>5 DEF Inv

(* A process goes on, what was made stays made, and its call is made. *)
LEMMA StepInv ==
  ASSUME Inv, NEW p \in Proc, proc[p].pc = "init", Step(p),
         field' \in [Field -> Mode],
         clock' \in [enabled : BOOLEAN, busy : BOOLEAN, divided : BOOLEAN],
         range' \subseteq Pwm,
         \A k \in 1..14 : Made(Calls[k]) => Made(Calls[k])',
         NEW at, at = proc[p].at, Made(Calls[at])',
         ClockOn => ClockOn',
         at = 10 => ClockOn'
  PROVE  Inv'
<1>1. proc[p] \in Process /\ proc[p].at \in 1..14 /\ proc[p].at <= LastCall(p)
  BY DEF Inv, Shape, Standing, Process, LastCall
<1>3. /\ proc' = [proc EXCEPT ![p] = Goes(p)] /\ Goes(p) \in Process
      /\ Goes(p).at = proc[p].at + 1 /\ Goes(p).word = Unread
      /\ Goes(p).root = proc[p].root /\ Goes(p).fresh = proc[p].fresh
      /\ Goes(p).pc = IF proc[p].at = LastCall(p) THEN "create" ELSE "init"
  BY <1>1, GoesIs DEF Step
<1>4. proc'[p] = Goes(p) /\ \A q \in Proc : q # p => proc'[q] = proc[q]
  BY <1>3 DEF Inv, Shape
<1>5. Shape'
  BY <1>3 DEF Inv, Shape, Step, Blocks
<1>6. Standing'
  <2>1. Goes(p).pc = "init" => Goes(p).at <= LastCall(p)
    BY <1>1, <1>3 DEF LastCall
  <2>2. /\ proc'[p].pc = "init" => proc'[p].at <= IF proc'[p].root THEN 14 ELSE 6
        /\ proc'[p].word = Unread
    BY <1>3, <1>4, <2>1 DEF LastCall
  <2> QED BY <1>4, <2>2 DEF Inv, Standing, At, Target
<1>7. ASSUME NEW q \in Proc, proc'[q].fresh
      PROVE  /\ \A k \in 1 .. proc'[q].at - 1 : Made(Calls[k])'
             /\ proc'[q].at > 10 => ClockOn'
  <2>1. proc[q] \in Process /\ proc[q].fresh
    BY <1>3, <1>4, <1>7 DEF Inv, Shape
  <2>2. proc[q].at \in 1..15
    BY <2>1 DEF Process
  <2>3. (\A k \in 1 .. proc[q].at - 1 : Made(Calls[k])) /\ (proc[q].at > 10 => ClockOn)
    BY <2>1 DEF Inv, Behind
  <2>4. \A k \in 1 .. proc[q].at - 1 : Made(Calls[k])'
    BY <2>2, <2>3
  <2>5. CASE q # p
    BY <1>4, <2>3, <2>4, <2>5
  <2>6. CASE q = p
    <3>1. proc'[q].at = proc[p].at + 1
      BY <1>3, <1>4, <2>6
    <3>2. \A k \in 1..proc[p].at : k = proc[p].at \/ k \in 1 .. proc[p].at - 1
      BY <1>1
    <3>3. \A k \in 1 .. proc'[q].at - 1 : Made(Calls[k])'
      <4> SUFFICES ASSUME NEW k \in 1 .. proc'[q].at - 1 PROVE Made(Calls[k])'
        OBVIOUS
      <4>1. k \in 1..proc[p].at
        BY <1>1, <3>1
      <4> QED BY <2>4, <2>6, <3>2, <4>1
    <3>4. proc'[q].at > 10 => proc[p].at = 10 \/ proc[p].at > 10
      BY <1>1, <3>1
    <3> QED BY <2>3, <2>6, <3>3, <3>4
  <2> QED BY <2>5, <2>6
<1>8. Behind'
  BY <1>7 DEF Behind
<1>9. Lasting'
  <2>1. CASE done' = done
    BY <2>1 DEF Inv, Lasting
  <2>2. CASE done' = done \cup Blocks(p) /\ proc'[p].pc = "create" /\ proc[p].fresh
    <3>1. proc'[p].fresh /\ proc'[p].at = LastCall(p) + 1
      BY <1>1, <1>3, <1>4, <2>2
    <3>2. /\ \A k \in 1..6 : Made(Calls[k])'
          /\ proc[p].root => (\A k \in 1..14 : Made(Calls[k])') /\ ClockOn'
      BY <1>7, <3>1 DEF LastCall
    <3> QED BY <2>2, <3>2 DEF Inv, Lasting, Blocks
  <2> QED BY <2>1, <2>2 DEF Step
<1> QED BY <1>5, <1>6, <1>8, <1>9 DEF Inv

-----------------------------------------------------------------------------
(* The steps of a process *)

LEMMA StartInv == ASSUME Inv, NEW p \in Proc, Start(p) PROVE Inv'
<1>1. PICK root \in BOOLEAN :
        proc' = [proc EXCEPT ![p] = [pc |-> "init", at |-> 1, word |-> Unread,
                                     root |-> root, fresh |-> TRUE]]
  BY DEF Start
<1>2. proc' \in [Proc -> Process]
  BY <1>1 DEF Inv, Shape, Process, Held
<1>3. /\ proc'[p].pc = "init" /\ proc'[p].at = 1 /\ proc'[p].word = Unread
      /\ \A q \in Proc : q # p => proc'[q] = proc[q]
  BY <1>1 DEF Inv, Shape
<1>4. starts' \in 0..MaxStarts
  BY StartAssumption DEF Inv, Shape, Start
<1>5. Shape'
  BY <1>2, <1>4 DEF Inv, Shape, Start
<1>6. Standing'
  BY <1>3 DEF Inv, Standing, At, Target
<1>7. ClockOn => ClockOn'
  BY <1>3 DEF ClockOn, Starting, Start
<1>8. Behind' /\ Lasting'
  BY <1>3, <1>7 DEF Inv, Behind, Lasting, Made, Start
<1> QED BY <1>5, <1>6, <1>8 DEF Inv

LEMMA ReadWordInv == ASSUME Inv, NEW p \in Proc, ReadWord(p) PROVE Inv'
<1> DEFINE w == [f \in Word(Target(p)) |-> field[f]]
<1>1. proc[p] \in Process /\ proc[p].at \in 1..14 /\ Target(p) \in Field
  BY CallsAre, CallKinds DEF Inv, Shape, Process, ReadWord, At, Target
<1>2. w \in [Word(Target(p)) -> Mode] /\ w \in Held
  BY <1>1, WordOfField DEF Inv, Shape, Held
<1>3. proc' = [proc EXCEPT ![p].word = w]
  BY DEF ReadWord
<1> HIDE DEF w
<1>4. proc' \in [Proc -> Process]
  BY <1>1, <1>2, <1>3 DEF Inv, Shape, Process
<1>5. /\ proc'[p].pc = proc[p].pc /\ proc'[p].at = proc[p].at /\ proc'[p].word = w
      /\ proc'[p].root = proc[p].root /\ proc'[p].fresh = proc[p].fresh
      /\ \A q \in Proc : q # p => proc'[q] = proc[q]
  BY <1>1, <1>3 DEF Inv, Shape, Process
<1>6. Shape'
  BY <1>4 DEF Inv, Shape, ReadWord
<1>7. Standing'
  BY <1>2, <1>5 DEF Inv, Standing, At, Target, ReadWord
<1>8. ClockOn => ClockOn'
  BY <1>5 DEF ClockOn, Starting, ReadWord
<1>9. Behind' /\ Lasting'
  BY <1>5, <1>8 DEF Inv, Behind, Lasting, Made, ReadWord
<1> QED BY <1>6, <1>7, <1>9 DEF Inv

LEMMA WriteWordInv == ASSUME Inv, NEW p \in Proc, WriteWord(p) PROVE Inv'
<1> DEFINE t == Target(p)
<1>1. /\ proc[p] \in Process /\ proc[p].at \in 1..14 /\ t \in Field
      /\ proc[p].pc = "init" /\ Calls[proc[p].at].op = "field"
  BY CallsAre, CallKinds DEF Inv, Shape, Process, WriteWord, At, Target
<1>2. proc[p].word \in [Word(t) -> Mode]
  BY DEF Inv, Standing, WriteWord
<1>3. field' = [f \in Field |-> IF f = t THEN Wanted(f)
                                ELSE IF f \in Word(t) THEN proc[p].word[f] ELSE field[f]]
  BY DEF WriteWord
<1>4. field' \in [Field -> Mode] /\ field'[t] = Wanted(t)
  BY <1>1, <1>2, <1>3, WantedType DEF Inv, Shape
<1>5. CASE ~Stale(p) /\ Step(p)
  <2>1. \A f \in Field : f # t => field'[f] = field[f]
    BY <1>3, <1>5 DEF Stale
  <2>2. clock' = clock /\ range' = range
    BY DEF WriteWord
  <2>3. \A k \in 1..14 : Made(Calls[k]) => Made(Calls[k])'
    BY <1>4, <2>1, <2>2, CallKinds DEF Made
  <2> DEFINE at == proc[p].at
  <2>4. Calls[at].on = t /\ Calls[at].op = "field" /\ at \in 1..14
    BY <1>1 DEF Target
  <2>5. proc[p].at \in 1..6 \cup {11, 12}
    BY <1>1, CallKinds
  <2>6. ClockOn => ClockOn'
    <3>1. ~Starting(p)
      BY <2>5 DEF Starting
    <3>2. \A q \in Proc : q # p => proc'[q] = proc[q]
      BY <1>5 DEF Step, Inv, Shape
    <3> QED BY <2>2, <3>1, <3>2 DEF ClockOn, Starting
  <2> QED
    <3> SUFFICES ASSUME NEW n, n = at PROVE Inv'
      OBVIOUS
    <3>1. Made(Calls[n])'
      BY <1>4, <2>4 DEF Made
    <3> QED BY <1>1, <1>4, <1>5, <2>2, <2>3, <2>5, <2>6, <3>1, StepInv DEF Inv, Shape
<1>6. CASE Stale(p) /\ Disturb(p, Goes(p)) /\ UNCHANGED <<port, starts>>
  <2>1. /\ Goes(p) \in Process /\ Goes(p).word = Unread
        /\ Goes(p).pc = "init" => Goes(p).at <= IF Goes(p).root THEN 14 ELSE 6
    BY <1>1, GoesIs DEF Inv, Standing, LastCall
  <2> QED BY <1>4, <1>6, <2>1, DisturbInv DEF WriteWord, Inv, Shape
<1> QED BY <1>5, <1>6 DEF WriteWord

(* What the steps of set_clock and set_range have in common. *)
LEMMA CallInv ==
  ASSUME Inv, NEW p \in Proc, NEW n \in {7, 8, 9, 10, 13, 14}, proc[p].at = n,
         proc[p].pc = "init", Step(p), field' = field,
         \/ n = 7 /\ clock' = [clock EXCEPT !.enabled = FALSE] /\ range' = range
         \/ n = 8 /\ clock' = clock /\ range' = range
         \/ n = 9 /\ clock' = [clock EXCEPT !.divided = TRUE] /\ range' = range
         \/ n = 10 /\ clock' = [clock EXCEPT !.enabled = TRUE, !.busy = TRUE]
                   /\ range' = range
         \/ n \in {13, 14} /\ clock' = clock /\ range' = range \cup {Calls[n].on}
  PROVE  Inv'
<1>1. /\ clock' \in [enabled : BOOLEAN, busy : BOOLEAN, divided : BOOLEAN]
      /\ clock.divided => clock'.divided
      /\ n = 9 => clock'.divided
      /\ n = 10 => clock'.enabled
      /\ n # 7 => (clock.enabled => clock'.enabled)
  <2>1. clock \in [enabled : BOOLEAN, busy : BOOLEAN, divided : BOOLEAN]
    BY DEF Inv, Shape
  <2>2. CASE clock' = clock /\ n \in {8, 13, 14}
    BY <2>1, <2>2
  <2>3. CASE n = 7 /\ clock' = [clock EXCEPT !.enabled = FALSE]
    <3>1. clock' = [enabled |-> FALSE, busy |-> clock.busy, divided |-> clock.divided]
      BY <2>1, <2>3
    <3>2. clock.enabled \in BOOLEAN /\ clock.busy \in BOOLEAN /\ clock.divided \in BOOLEAN
      BY <2>1
    <3>3. clock' \in [enabled : BOOLEAN, busy : BOOLEAN, divided : BOOLEAN]
      BY <3>1, <3>2
    <3>4. clock'.enabled = FALSE /\ clock'.divided = clock.divided
      BY <3>1
    <3>5. n = 7 /\ n # 9 /\ n # 10
      BY <2>3
    <3> QED BY <3>3, <3>4, <3>5, Zenon
  <2>4. CASE n = 9 /\ clock' = [clock EXCEPT !.divided = TRUE]
    <3>1. clock' = [enabled |-> clock.enabled, busy |-> clock.busy, divided |-> TRUE]
      BY <2>1, <2>4
    <3>2. clock.enabled \in BOOLEAN /\ clock.busy \in BOOLEAN /\ clock.divided \in BOOLEAN
      BY <2>1
    <3>3. clock' \in [enabled : BOOLEAN, busy : BOOLEAN, divided : BOOLEAN]
      BY <3>1, <3>2
    <3>4. clock'.enabled = clock.enabled /\ clock'.divided = TRUE
      BY <3>1
    <3>5. n = 9 /\ n # 7 /\ n # 10
      BY <2>4
    <3> QED BY <3>3, <3>4, <3>5, Zenon
  <2>5. CASE n = 10 /\ clock' = [clock EXCEPT !.enabled = TRUE, !.busy = TRUE]
    <3>1. clock' = [enabled |-> TRUE, busy |-> TRUE, divided |-> clock.divided]
      BY <2>1, <2>5
    <3>2. clock.enabled \in BOOLEAN /\ clock.busy \in BOOLEAN /\ clock.divided \in BOOLEAN
      BY <2>1
    <3>3. clock' \in [enabled : BOOLEAN, busy : BOOLEAN, divided : BOOLEAN]
      BY <3>1, <3>2
    <3>4. clock'.enabled = TRUE /\ clock'.divided = clock.divided
      BY <3>1
    <3>5. n = 10 /\ n # 7 /\ n # 9
      BY <2>5
    <3> QED BY <3>3, <3>4, <3>5, Zenon
  <2> QED BY <2>2, <2>3, <2>4, <2>5
<1>2. range' \subseteq Pwm /\ range \subseteq range' /\ (n \in {13, 14} => Calls[n].on \in range')
  BY CallKinds DEF Inv, Shape
<1>3. \A k \in 1..14 : Made(Calls[k]) => Made(Calls[k])'
  BY <1>1, <1>2 DEF Made
<1>4. Made(Calls[n])'
  BY <1>1, <1>2, CallKinds DEF Made
<1>5. /\ proc[p] \in Process /\ proc[p].at \in 1..14
      /\ \A q \in Proc : q # p => proc'[q] = proc[q]
      /\ proc'[p] = Goes(p)
  BY DEF Inv, Shape, Step
<1>6. n \in 7..9 => Starting(p)'
  <2>1. n \in 7..9 => Goes(p).at = n + 1 /\ Goes(p).pc = "init"
    BY <1>5, GoesIs DEF Inv, Standing, LastCall
  <2> QED BY <1>5, <2>1 DEF Starting
<1>7. ClockOn => ClockOn'
  <2>1. CASE n \in 7..9
    BY <1>6, <2>1 DEF ClockOn
  <2>2. CASE n = 10
    BY <1>1, <2>2 DEF ClockOn
  <2>3. CASE n \in {13, 14}
    <3>1. ~Starting(p)
      BY <2>3 DEF Starting
    <3> QED BY <1>1, <1>5, <2>3, <3>1 DEF ClockOn, Starting
  <2> QED BY <2>1, <2>2, <2>3
<1>8. n = 10 => ClockOn'
  BY <1>1 DEF ClockOn
<1> QED BY <1>1, <1>2, <1>3, <1>4, <1>7, <1>8, StepInv DEF Inv, Shape

LEMMA PwmInv ==
  ASSUME Inv, NEW p \in Proc, bcm2835_pwm_set_clock(p) \/ SetRange(p) PROVE Inv'
<1> DEFINE n == proc[p].at
<1>1. n \in 1..14 /\ proc[p].pc = "init" /\ Target(p) = Calls[n].on
  BY CallsAre DEF Inv, Shape, Process, At, Target, bcm2835_pwm_set_clock, StopClock,
                  WaitClock, SetDivider, EnableClock, SetRange
<1>2. \/ n = 7 /\ clock' = [clock EXCEPT !.enabled = FALSE] /\ range' = range
      \/ n = 8 /\ clock' = clock /\ range' = range
      \/ n = 9 /\ clock' = [clock EXCEPT !.divided = TRUE] /\ range' = range
      \/ n = 10 /\ clock' = [clock EXCEPT !.enabled = TRUE, !.busy = TRUE]
                /\ range' = range
      \/ n \in {13, 14} /\ clock' = clock /\ range' = range \cup {Calls[n].on}
  BY <1>1, CallKinds DEF At, bcm2835_pwm_set_clock, StopClock, WaitClock, SetDivider,
                         EnableClock, SetRange
<1>3. Step(p) /\ field' = field
  BY DEF bcm2835_pwm_set_clock, StopClock, WaitClock, SetDivider, EnableClock, SetRange
<1>4. n \in {7, 8, 9, 10, 13, 14}
  BY <1>2
<1> QED BY <1>1, <1>2, <1>3, <1>4, CallInv

LEMMA ClockStopsInv == ASSUME Inv, ClockStops PROVE Inv'
<1>1. /\ clock' \in [enabled : BOOLEAN, busy : BOOLEAN, divided : BOOLEAN]
      /\ clock'.divided = clock.divided /\ clock'.enabled = clock.enabled
  BY DEF Inv, Shape, ClockStops
<1>2. Shape'
  BY <1>1 DEF Inv, Shape, ClockStops
<1>3. (ClockOn <=> ClockOn') /\ \A k \in 1..14 : Made(Calls[k]) => Made(Calls[k])'
  BY <1>1 DEF ClockOn, Starting, Made, ClockStops
<1>4. Standing' /\ Behind' /\ Lasting'
  <2>1. \A q \in Proc : proc[q].at \in 1..15
    BY DEF Inv, Shape, Process
  <2>2. Standing'
    BY DEF Inv, Standing, At, Target, ClockStops
  <2>3. Behind'
    <3> SUFFICES ASSUME NEW q \in Proc, proc[q].fresh
                 PROVE  /\ \A k \in 1 .. proc[q].at - 1 : Made(Calls[k])'
                        /\ proc[q].at > 10 => ClockOn'
      BY DEF Behind, ClockStops
    <3>1. (\A k \in 1 .. proc[q].at - 1 : Made(Calls[k])) /\ (proc[q].at > 10 => ClockOn)
      BY DEF Inv, Behind
    <3>2. \A k \in 1 .. proc[q].at - 1 : k \in 1..14
      BY <2>1
    <3> QED BY <1>3, <3>1, <3>2
  <2>4. Lasting'
    BY <1>3 DEF Inv, Lasting, ClockStops
  <2> QED BY <2>2, <2>3, <2>4
<1> QED BY <1>2, <1>4 DEF Inv

(* The end of a process that is not in car_init, and the way to serving. *)
LEMMA OutsideInv ==
  ASSUME Inv, NEW p \in Proc, proc[p].pc # "init",
         NEW next, next = Off \/ next = [proc[p] EXCEPT !.pc = "serve"],
         proc' = [proc EXCEPT ![p] = next],
         field' = field, clock' = clock, range' = range, done' = done, starts' = starts,
         port' \subseteq Proc
  PROVE  Inv'
<1>1. proc[p] \in Process
  BY DEF Inv, Shape
<1>2. /\ next \in Process /\ next.pc # "init" /\ next.word = Unread
      /\ next.fresh => proc[p].fresh /\ next.at = proc[p].at
  <2>1. CASE next = Off
    BY <2>1, OffType DEF Off
  <2>2. CASE next = [proc[p] EXCEPT !.pc = "serve"]
    <3>1. proc[p].word = Unread
      BY DEF Inv, Standing, At
    <3> QED BY <1>1, <2>2, <3>1 DEF Process
  <2> QED BY <2>1, <2>2
<1>3. proc'[p] = next /\ \A q \in Proc : q # p => proc'[q] = proc[q]
  BY DEF Inv, Shape
<1>4. Shape'
  BY <1>2 DEF Inv, Shape
<1>5. Standing'
  BY <1>2, <1>3 DEF Inv, Standing, At, Target
<1>6. ClockOn => ClockOn'
  BY <1>3 DEF ClockOn, Starting
<1>7. Behind' /\ Lasting'
  BY <1>2, <1>3, <1>6 DEF Inv, Behind, Lasting, Made
<1> QED BY <1>4, <1>5, <1>7 DEF Inv

LEMMA CreateInv == ASSUME Inv, NEW p \in Proc, Create(p) PROVE Inv'
<1>1. PICK next : /\ next = Off \/ next = [proc[p] EXCEPT !.pc = "serve"]
                  /\ proc' = [proc EXCEPT ![p] = next]
  BY DEF Create, Inv, Shape, Process
<1>2. port' \subseteq Proc /\ proc[p].pc # "init"
  BY DEF Create, Inv, Shape
<1>3. field' = field /\ clock' = clock /\ range' = range /\ done' = done /\ starts' = starts
  BY DEF Create
<1> QED BY <1>1, <1>2, <1>3, OutsideInv

LEMMA EndsInv == ASSUME Inv, NEW p \in Proc, Ends(p) PROVE Inv'
<1>1. /\ port' \subseteq Proc /\ field' = field /\ clock' = clock /\ range' = range
      /\ starts' = starts /\ field \in [Field -> Mode]
  BY DEF Ends, Inv, Shape
<1>2. CASE proc[p].pc = "init"
  <2>1. Disturb(p, Off) /\ Off.pc # "init" /\ Off.word = Unread
    BY <1>2 DEF Ends, Off
  <2> QED BY <1>1, <2>1, OffType, DisturbInv
<1>3. CASE proc[p].pc # "init"
  <2>1. proc' = [proc EXCEPT ![p] = Off] /\ done' = done
    BY <1>3 DEF Ends
  <2> QED BY <1>1, <1>3, <2>1, OutsideInv
<1> QED BY <1>2, <1>3

-----------------------------------------------------------------------------

LEMMA NextInv == Inv /\ [Next]_vars => Inv'
<1> SUFFICES ASSUME Inv, [Next]_vars PROVE Inv'
  OBVIOUS
<1>1. CASE ClockStops
  BY <1>1, ClockStopsInv
<1>2. ASSUME NEW p \in Proc, main(p) PROVE Inv'
  BY <1>2, StartInv, ReadWordInv, WriteWordInv, PwmInv, CreateInv, EndsInv
     DEF main, car_init
<1>3. CASE UNCHANGED vars
  BY <1>3 DEF vars, Inv, Shape, Standing, Behind, Lasting, At, Target, Made, ClockOn, Starting
<1> QED BY <1>1, <1>2, <1>3 DEF Next

LEMMA SpecInv == Spec => []Inv
BY InitInv, NextInv, PTL DEF Spec

-----------------------------------------------------------------------------

(* car.c:34-48, bcm2835.c:261-298: a process is where its registers allow, *)
(* and what it holds of a shared word is that word.                        *)
THEOREM StartTypeOK == Spec => []TypeOK
<1>1. Inv => TypeOK
  <2> SUFFICES ASSUME Inv PROVE TypeOK
    OBVIOUS
  <2>1. ASSUME NEW p \in Proc
        PROVE  /\ proc[p].pc \in {"off", "init", "create", "serve"}
               /\ proc[p].at \in 1 .. Len(Calls) + 1
               /\ proc[p].root \in BOOLEAN /\ proc[p].fresh \in BOOLEAN
    BY CallsAre DEF Inv, Shape, Process
  <2>2. ASSUME NEW p \in Proc PROVE DOMAIN proc[p].word \in {{}} \cup Words
    <3>1. CASE proc[p].word = Unread
      BY <3>1 DEF Unread
    <3>2. CASE proc[p].word # Unread
      <4>1. At(p, "field") /\ proc[p].word \in [Word(Target(p)) -> Mode]
        BY <3>2 DEF Inv, Standing
      <4>2. proc[p].at \in 1..14
        BY <4>1, CallsAre DEF At, Inv, Shape, Process
      <4>3. Word(Target(p)) \in Words
        BY <4>1, <4>2, CallKinds, WordOfField DEF At, Target
      <4> QED BY <4>1, <4>3
    <3> QED BY <3>1, <3>2
  <2> QED BY <2>1, <2>2 DEF TypeOK, Inv, Shape, Mode
<1> QED BY <1>1, SpecInv, PTL

(* car.c:34-48, bcm2835.c:261-298, 1670-1736: for any number of processes  *)
(* and starts, what car_init configured stays configured until a stale     *)
(* word is written back or a process ends half way.                        *)
THEOREM StartConfigured == Spec => []Configured
<1>1. Inv => Configured
  <2> SUFFICES ASSUME Inv PROVE Configured
    OBVIOUS
  <2>1. ASSUME "gpio" \in done PROVE \A f \in Gpio : field[f] = Wanted(f)
    <3>1. Made(Calls[1]) /\ Made(Calls[2]) /\ Made(Calls[3]) /\ Made(Calls[4])
            /\ Made(Calls[5]) /\ Made(Calls[6])
      BY <2>1 DEF Inv, Lasting
    <3> QED BY <3>1, CallsAre DEF Made, fsel, Gpio
  <2>2. ASSUME "pwm" \in done
        PROVE  /\ \A f \in Pwm : field[f] = Wanted(f)
               /\ clock.divided /\ range = Pwm
    <3>1. /\ Made(Calls[9]) /\ Made(Calls[11]) /\ Made(Calls[12])
          /\ Made(Calls[13]) /\ Made(Calls[14])
      BY <2>2 DEF Inv, Lasting
    <3>2. field["PWM0"] = Wanted("PWM0") /\ field["PWM1"] = Wanted("PWM1")
      BY <3>1, CallsAre DEF Made, set_mode
    <3>3. "PWM0" \in range /\ "PWM1" \in range
      BY <3>1, CallsAre DEF Made, set_range
    <3>4. clock.divided
      BY <3>1, CallsAre DEF Made
    <3> QED BY <3>2, <3>3, <3>4 DEF Pwm, Inv, Shape
  <2>3. ASSUME "pwm" \in done, \A p \in Proc : proc[p].pc # "init" PROVE clock.enabled
    BY <2>3 DEF Inv, Lasting, ClockOn, Starting
  <2> QED BY <2>1, <2>2, <2>3 DEF Configured
<1> QED BY <1>1, SpecInv, PTL
=============================================================================
